SPECIFICATION FairSpec
CONSTANTS
    battery = battery
    reactor = reactor
    Config <- MCConfig
    OtherStem = OtherStem
    Recipe = Recipe
    HowTo = HowTo
    None = None
    MaxPushes = 2
INVARIANTS TypeOK OnlyOwnStepsFail CommentIsWhole CommentIsNewest EvidenceIsKept RecommendationHasCandidate RunsAreClosed
PROPERTIES JobEnds
CHECK_DEADLOCK FALSE
