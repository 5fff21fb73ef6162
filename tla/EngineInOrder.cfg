SPECIFICATION Spec
CONSTANTS
    Hosts = {"gw"}
    Primary = "wan"
    Configs <- SlowRecovery
    Inputs <- OutageInputs
    MaxTime = 5
    MaxMessages = 5
    InOrder = TRUE
INVARIANTS
    EscalationExact
    OutageContinuous
CHECK_DEADLOCK FALSE
