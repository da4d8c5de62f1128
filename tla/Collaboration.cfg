SPECIFICATION MCSpec
CONSTANTS
    u1 = u1
    u2 = u2
    s1 = s1
    s2 = s2
    s3 = s3
    p1 = p1
    p2 = p2
    None = None
    Users = {u1, u2}
    Covering = {u1}
    Streams = {s1, s2, s3}
    Owner <- TwoTabs
    Workers = {"gevent", "threads"}
    Pushers = {p1, p2}
    Followers = {f1}
    BufferChunks = 2
    QueueSize = 2
    MaxChunks = 3
    ThreadChunks = 1
SYMMETRY Interchangeable
INVARIANTS NewestKept ListsConverge ScopeKept StreamSound
CHECK_DEADLOCK FALSE
