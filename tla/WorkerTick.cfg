SPECIFICATION WorkerSpec
CONSTANTS
    Hosts = {"gw"}
    Primary = "wan"
    Configs <- SlowConfig
    Inputs <- PrimaryInputs
    ImportInputs <- NoInputs
    MaxTime = 4
    MaxMessages = 2
    InOrder = FALSE
    DayLength = 5
    Sources = 2
    MaxReplacements = 0
    MaxCuts = 0
    MaxReadFailures = 0
    MaxCrashes = 0
    MaxSaveFailures = 0
    MaxSendFailures = 0
    MaxFaults = 0
INVARIANTS
    StoredRecoveryHeeded
