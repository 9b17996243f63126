\* Every part that keeps the machine and its accounts, each on its own small instance.
SPECIFICATION Spec
CONSTANTS
    Download = {"p", "q"}
    Large = {"q"}
    Path <- OutAndTop
    MaxFiles = 1
    CutBound = 1
    HandBound = 1
    WriteBound = 2
    MaxTabs = 2
    TabBound = 3
    DocBound = 2
    SnapBound = 1
    Requests = {"r1", "r2"}
    Addresses = {"public", "private"}
    Refused = {"private"}
    MaxConcurrent = 1
    AnswerBound = 2
    Hosts <- HostsToTry
    Ports = {443, 8080}
    AllowedPorts = {80, 443}
    Answers <- LookupsGive
    Allowlist <- Listed
    NeverHosts <- NeverListed
    ReservedTlds = {"invalid", "localhost", "example", "local"}
    DeniedRanges <- DefaultDeny
    Names = {"a", "b"}
    Octets = 3
    Hashed <- SameHash
    BuildBound = 2
    OverlapBound = 1
    JobBound = 2
    Homes = {"h1", "h2"}
    Fixed = {}
    VaultNames = {"n1"}
    Commands = {1, 2, 3}
    Alone = TRUE
    DeathBound = 1
    AnchorEvery = 2
    EventBound = 4
    StopBound = 2
    SshHosts = {h1, h2}
    DeployBound = 3
    ServerBound = 2
    RebootBound = 1
    Provider = {"codex", "claude"}
    Ask = {"a", "b"}
    MaxGeneration = 2
    Manifests <- TwoManifests
    ToolsOf <- Offered
    BrokerRequests = {r1, r2}
    ChangeBound = 2
    AskBound = 2
    RestartBound = 1
    MaxRestarts = 3
    LaunchBound = 5
    CrashBound = 4
    PageBound = 1
    ShellDeathBound = 1
INVARIANTS
    TabSafe
    NetworkSafe
    KeepsSafe
    NothingLeftBehind
PROPERTIES
    HostSteps
CHECK_DEADLOCK FALSE
