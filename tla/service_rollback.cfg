SPECIFICATION RollbackSpec
CONSTANTS
    Run = {r1}
    Version <- TwoVersions
    Score <- TwoScores
    Metric = "crps"
    Margin = 0
    BumpChoices = {"minor"}
    DryRunChoices = {FALSE}
    NaN = NaN
    Missing = Missing
    NoManifest = NoManifest
    Torn = Torn
    MaxStarts = 2
    MaxDeaths = 0
    ModelId = battery
    Undecodable = Undecodable
    NoSha = NoSha
    None = None
    MaxRollbacks = 1
INVARIANTS VersionsNeverChange
CHECK_DEADLOCK FALSE
