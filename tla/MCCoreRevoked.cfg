SPECIFICATION RotationSpec
CONSTANTS
    u1 = u1
    u2 = u2
    k1 = k1
    k2 = k2
    p1 = p1
    v4 = v4
    mapped = mapped
    v6 = v6
    ip4 = ip4
    ip6 = ip6
    h1 = h1
    h2 = h2
    h3 = h3
    c1 = c1
    c2 = c2
    a1 = a1
    a2 = a2
    NoUser = NoUser
    NoHandle = NoHandle
    NoCredential = NoCredential
    NoIp = NoIp
    Blank = Blank
    UserIds <- TwoUsers
    Credentials <- PaddedCredentials
    Ips <- BothIps
    Sources <- AllSources
    NormalizeIp <- AllNormalized
    Trim <- PaddedTrim
    Handles <- ThreeHandles
    Connections <- OneConnection
    Admins <- OneAdmin
    UserLists <- RotateLists
    LimitValues <- SomeLimits
    MaxSeq = 3
    MaxOps = 3
INVARIANTS
    RevokedSessionsCancelled
\* The bounds on calls and session ids end every behaviour.
CHECK_DEADLOCK FALSE
