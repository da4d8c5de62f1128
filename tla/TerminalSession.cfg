SPECIFICATION MCSpec
CONSTANTS
    f1 = f1
    f2 = f2
    Followers = {f1, f2}
    Workers = {"gevent"}
    BufferChunks = 1
    QueueSize = 2
    MaxChunks = 1
    Revocable = {"primary", f1, f2}
    SetupFails = TRUE
PROPERTY NobodyLingers
CHECK_DEADLOCK FALSE
