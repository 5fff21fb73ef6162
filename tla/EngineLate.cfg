SPECIFICATION FairSpec
CONSTANTS
    Hosts = {"gw"}
    Primary = "wan"
    Configs <- TwoConfigs
    Inputs <- OneHostInputs
    MaxTime = 3
    MaxMessages = 3
    InOrder = FALSE
INVARIANTS
    TypeOK
    TrackersAgree
    TimelineWellFormed
    AlertCoherence
PROPERTIES
    HistoryKept
    MutexReleased
CHECK_DEADLOCK FALSE
