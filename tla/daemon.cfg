\* Every part of the daemon that keeps tasks, each on its own small instance.
SPECIFICATION Spec
CONSTANTS
    Adapter = {"loop", "native"}
    Attempt = {"r1", "r2"}
    Request = {"p", "q"}
    StepLimit = 1
    MaxMessages = 1
    MaxEnds = 1
    Call = {"c"}
    TaskRequest = {"t", "u"}
    MaxOverlap = 2
    Routine = {"daily", "hourly"}
    ByCommand = {"daily"}
    Removable = {"hourly"}
    Run = {"m", "n"}
    Matches <- EveryFew
    Horizon = 3
    MissedWindow = 2
    FatigueLimit = 2
    MaxEnabled = 1
    MaxClock = 4
    MaxManual = 1
    MaxStops = 1
    KeepAnswers = 2
    SaidBound = 4
    WordBound = 1
    SleepBound = 2
    Jobs = {j1, j2}
    Callers = {c1, c2}
    Caps = {2, 3}
    CountBound = 3
    FailBound = 1
    QuitBound = 1
    Pages <- PagesSeen
    ToolCalls <- CallsMade
    Declarations <- Declared
    ArmedSets <- SomeArmed
    PublicSuffixes <- SuffixList
    TosBlocked <- Banks
    GrantLimit = 3
INVARIANTS
    TaskSafe
    ComputerSafe
    RoutineSafe
    BudgetSafe
    TranscriptSafe
PROPERTIES
    DaemonSteps
CHECK_DEADLOCK FALSE
