SPECIFICATION MCSpec
CONSTANTS
    Apps = {"mastodon", "ghost", "peertube", "elk", "jitsi", "harmony", "prometheus", "unpoller", "jibri"}
    Kinds <- MCKinds
    Threads = {t1, t2}
    Routes <- MCRoutes
    Checks <- MCChecks
    Detects <- MCDetects
    SelfRecorded = {"mastodon"}
    Settings = {"gevent", "faults", "threads"}
    MaxRuns = 2
CHECK_DEADLOCK FALSE
INVARIANTS RefusalsWork TrackersTruthful
PROPERTIES UpgradesSerialized RecordsAdvance JobsSettle
