SPECIFICATION WorkerSpec
CONSTANTS
    Hosts = {"gw"}
    Primary = "wan"
    Configs <- OneConfig
    Inputs <- PrimaryInputs
    ImportInputs <- OfflineInputs
    MaxTime = 3
    MaxMessages = 2
    InOrder = FALSE
    DayLength = 2
    Sources = 1
    MaxReplacements = 0
    MaxCuts = 0
    MaxReadFailures = 1
    MaxCrashes = 1
    MaxSaveFailures = 1
    MaxSendFailures = 1
    MaxFaults = 2
INVARIANTS
    WorkerTypeOK
    CheckpointExact
    AlertsAreLive
    DuplicatesBounded
PROPERTIES
    ImplementsOutbox
