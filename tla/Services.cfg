SPECIFICATION FairSpec
CONSTANTS
    Active = {"sessions", "shaping", "filter", "logs", "heartbeat", "transport", "radio"}
    Connections = {c1, c2}
    Requests <- MCRequests
    MaxLogins = 1
    TcObjects <- MCTcObjects
    DefaultDevice = "br0"
    FilterRules = {"ssh"}
    MaxRecorded = 2
    MaxRuleSteps = 4
    LogWriters = {w1}
    LogNames = {"n1", "n2"}
    MaxFileLines = 1
    MaxLines = 2
    McPeers = {"a", "b", "c"}
    HEARTBEAT_INTERVAL = 1
    NODE_TIMEOUT = 0
    MaxRound = 2
    MAX_MC_NODES = 2
    MaxClock = 5
    Ports = {1, 2}
    Servers = {s1, s2}
    Requested = {{"tcp"}, {"udp"}}
    MaxPortChanges = 1
    SleAddresses = {"a1", "a2"}
    ConnIds = {0, 1}
    MaxRadioCalls = 2
INVARIANTS
    ServicesTypeOK
    PermissionEarned
    UsersConsistent
    QosRestored
    FilterAgrees
    NothingRemovedUnsent
    SilentPeersLeave
    OneUdpServer
    SeekDistinct
PROPERTIES
    RequestsAnswered
    LoggingResumes
    UdpFollowsConfig
CHECK_DEADLOCK FALSE
