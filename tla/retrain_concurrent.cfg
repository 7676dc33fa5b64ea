SPECIFICATION Spec
CONSTANTS
    Run = {r1, r2}
    Version <- MixedVersions
    Score <- Scores
    Metric = "r2"
    Margin = 1
    BumpChoices = {"minor", "patch"}
    DryRunChoices = {TRUE, FALSE}
    NaN = NaN
    Missing = Missing
    NoManifest = NoManifest
    Torn = Torn
    MaxStarts = 3
    MaxDeaths = 1
INVARIANTS TypeOK PublishedIntact OneWriterPerVersion RefusalIsJustified IInv
PROPERTIES RefinesRegistry
CHECK_DEADLOCK FALSE
