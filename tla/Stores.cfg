SPECIFICATION MCSpec
CONSTANTS
    PromptWindow = 2
    RateWindow = 4
    RateLimit = 2
    GateTime = 10
    Users = {u1, u2}
    Guests = {g1}
    Tokens = {t1, t2, t3}
    TTL = 2
    MaxEntries = 1
    CredentialTime = 3
    Clients = {c1, c2, c3}
    Window = 2
    Limit = 2
    MaxKeys = 2
    LoginTime = 6
    Pkgs = {p1, p2}
    MaxId = 3
    Scanners = {s1, s2}
    Nodes = {n1, n2}
    Machines <- FourMachines
    Vmid <- FourVmids
    Type <- FourTypes
    Requests = {r1}
    Crons = {k1}
    MaxChanges = 3
INVARIANTS LimitsKept GuestsSound
PROPERTIES CredentialsKept PackagesSound PrunedWasGone
CHECK_DEADLOCK FALSE
