SPECIFICATION FairServiceSpec
CONSTANTS
    Run = {r1, r2}
    Version <- TwoVersions
    Score <- TwoScores
    Metric = "crps"
    Margin = 0
    BumpChoices = {"minor"}
    DryRunChoices = {FALSE}
    NaN = NaN
    Missing = Missing
    NoManifest = NoManifest
    Torn = Torn
    MaxStarts = 2
    MaxDeaths = 1
    ModelId = battery
    Undecodable = Undecodable
    NoSha = NoSha
    None = None
    MaxRollbacks = 0
INVARIANTS LatestIsBest ServedIsRegistered ServedIsBest
PROPERTIES PromotedOverLatest PromotionCompletes ImplementsLoader NeverBackwards CrashNeedsUnfinishedWrite PromotionReachesClients
CHECK_DEADLOCK FALSE
