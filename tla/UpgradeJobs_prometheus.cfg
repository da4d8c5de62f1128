SPECIFICATION MCSpec
CONSTANTS
    Apps = {"prometheus"}
    Kinds = {"preflight", "install", "upgrade"}
    Threads = {t1, t2}
    Routes <- MCRoutes
    Checks <- MCChecks
    Detects <- MCDetects
    SelfRecorded = {"mastodon"}
    Settings = {"gevent"}
    MaxRuns = 3
CHECK_DEADLOCK FALSE
INVARIANT UpgradesExclusive
