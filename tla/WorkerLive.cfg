SPECIFICATION WakeSpec
CONSTANTS
    Hosts = {"gw"}
    Primary = "wan"
    Configs <- OneConfig
    Inputs <- OutageInputs
    ImportInputs <- NoInputs
    MaxTime = 2
    MaxMessages = 2
    InOrder = FALSE
    DayLength = 1
    Sources = 1
    MaxReplacements = 0
    MaxCuts = 1
    MaxReadFailures = 1
    MaxCrashes = 1
    MaxSaveFailures = 0
    MaxSendFailures = 1
    MaxFaults = 2
INVARIANTS
    SentIsDurable
PROPERTIES
    EveryRecordObserved
    EveryJobSettled
