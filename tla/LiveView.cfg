SPECIFICATION Spec
CONSTANTS
    Hosts = {"h1"}
    Filters <- SomeFilters
    Accepted <- ValidFilters
    Limits = {1, 2}
    Shapes <- SomeShapes
    ImportShapes <- OneShape
    MaxMessages = 2
    MaxActions = 2
    MaxManual = 1
    MaxFailures = 1
INVARIANTS
    ListOrdered
    TypingKeepsLive
    ShownSelected
    LiveFresh
PROPERTIES
    LiveResumes
CHECK_DEADLOCK FALSE
