SPECIFICATION MCSpec
CONSTANTS
    a1 = a1
    a2 = a2
    a3 = a3
    Accounts = {a1, a2, a3}
    Newcomers = {a2, a3}
    Posted = {}
    Followed = {}
    PolledBefore = FALSE
    MaxPosts = 3
    StatusPage = 1
    AccountPages = 1
    BatchSize = 1
    MaxWelcomes = 1
    AutoWatch = TRUE
    MaxFaults = 1
    MaxClicks = 0
INVARIANTS MessagesOnce NothingPassedOver
PROPERTIES PollsProgress
CHECK_DEADLOCK FALSE
