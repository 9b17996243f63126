\* Every page and what talks to it, each on its own small instance.
SPECIFICATION Spec
CONSTANTS
    Viewer = {"a", "b"}
    EpochBound = 2
    ConnectBound = 2
    FaultBound = 1
    PageTask = {"a", "b"}
    MoveBound = 1
    SwitchBound = 1
    LossBound = 1
    Calls = 2
    Parallel = 2
    UsageBound = 1
    LoadBound = 1
    GapBound = 1
    WorldBound = 1
    VisitBound = 2
    TroubleBound = 1
    PressBound = 4
    MishapBound = 1
    Items = {"a1", "a2"}
    Takeovers = {"a2"}
    Tasks = {"u2"}
    TaskOf <- OneTask
    Native = FALSE
    OutageBound = 1
    ReloadBound = 1
    People = {"p1", "p2"}
    Host = "host"
    Tabs = {"t1", "t2"}
    LinkLimit = 2
    ActBound = 1
    LeaseBound = 1
    Lengths <- QrLengths
    Degrees <- QrDegrees
    Bytes <- QrBytes
    BlockLength = 2
INVARIANTS
    PagesSafe
    FeedSafe
    NothingLeftHeld
    QrSafe
PROPERTIES
    PagesSteps
CHECK_DEADLOCK FALSE
