SPECIFICATION Spec
CONSTANTS
    Run = {r1}
    Version <- MinorVersions
    Score <- Scores
    Metric = "r2"
    Margin = 1
    BumpChoices = {"minor"}
    DryRunChoices = {FALSE}
    NaN = NaN
    Missing = Missing
    NoManifest = NoManifest
    Torn = Torn
    MaxStarts = 2
    MaxDeaths = 1
INVARIANTS ImprovementIsWritten
CHECK_DEADLOCK FALSE
