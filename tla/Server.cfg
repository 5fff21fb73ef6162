SPECIFICATION ServerSpec
CONSTANTS
    Writers = {"syslog", "import1", "import2"}
    Clients = {"c1"}
    Capacity = 2
    QueueCapacity = 2
    Matching <- OddMessages
    MaxMessages = 4
INVARIANTS
    OpenChannelsOnly
    StreamFaithful
    StopsCleanly
PROPERTIES
    WritersNeverWait
    Stops
CHECK_DEADLOCK FALSE
