\* What must come to happen, each part on an instance with one or two that wait.
SPECIFICATION Spec
CONSTANTS
    Adapter = {"loop"}
    Attempt = {"r1", "r2"}
    Request = {"p"}
    StepLimit = 1
    MaxMessages = 1
    MaxEnds = 0
    Call = {"c", "d"}
    TaskRequest = {"t"}
    MaxOverlap = 1
    Routine = {"daily", "hourly"}
    ByCommand = {"daily"}
    Removable = {"hourly"}
    Run = {"m", "n"}
    Matches <- EveryFew
    Horizon = 3
    MissedWindow = 2
    FatigueLimit = 2
    MaxEnabled = 1
    MaxClock = 3
    MaxManual = 1
    MaxStops = 1
    Provider = {"codex", "claude"}
    Ask = {"a"}
    MaxGeneration = 2
    Viewer = {"a"}
    EpochBound = 4
    ConnectBound = 2
    FaultBound = 0
    WorldBound = 1
    VisitBound = 1
    TroubleBound = 0
    PressBound = 3
    MishapBound = 0
    MaxRestarts = 2
    LaunchBound = 4
    CrashBound = 1
    PageBound = 1
    ShellDeathBound = 1
    Items = {"a1"}
    Takeovers = {"a1"}
    Tasks = {"u1"}
    TaskOf <- OneTask
    Native = TRUE
    OutageBound = 2
    ReloadBound = 0
    People = {"p1"}
    Host = "host"
    Tabs = {"t1"}
    LinkLimit = 2
    ActBound = 3
    LeaseBound = 1
PROPERTIES
    WhoWaitsIsServed
    InOrder
CHECK_DEADLOCK FALSE
