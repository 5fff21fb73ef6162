SPECIFICATION WorkerSpec
CONSTANTS
    Hosts = {"gw"}
    Primary = "wan"
    Configs <- TwoConfigs
    Inputs <- PrimaryInputs
    ImportInputs <- NoInputs
    MaxTime = 2
    MaxMessages = 2
    InOrder = FALSE
    DayLength = 2
    Sources = 1
    MaxReplacements = 2
    MaxCuts = 0
    MaxReadFailures = 0
    MaxCrashes = 1
    MaxSaveFailures = 1
    MaxSendFailures = 0
    MaxFaults = 2
INVARIANTS
    CheckpointExact
    AlertsAreLive
    DuplicatesBounded
    RebuiltCoherent
