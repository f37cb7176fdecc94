SPECIFICATION FairSpec
CONSTANTS
    c1 = c1
    c2 = c2
    c3 = c3
    s1 = s1
    s2 = s2
    Creates = {c1, c2, c3}
    Servers = {s1, s2}
    Owner <- TwoServers
    ExecCalls = {x1}
    MaxSandboxes = 1
    MaxCli = 1
    CallTimeouts = {2, 3}
    Reserve = 2
    Default = 4
    Asked = {1}
    MaxCapture = 3
    Chunks = {2}
    MaxSent = 4
    None = None
INVARIANTS
    TypeOK
    QuotaKept
    BackstopOnly
    CaptureExact
PROPERTIES
    CreateAnswered
CHECK_DEADLOCK FALSE
