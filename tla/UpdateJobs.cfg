SPECIFICATION MCSpec
CONSTANTS
    g1 = g1
    g2 = g2
    h1 = h1
    h2 = h2
    h3 = h3
    r1 = r1
    r2 = r2
    b1 = b1
    b2 = b2
    Guests = {g1, g2}
    AgentGuests = {g1}
    Hosts = {h1, h2, h3}
    Pbs = {h3}
    Requests = {r1, r2}
    Bulks = {b1, b2}
    MaxJobs = 7
INVARIANTS UpdatesSound
PROPERTIES CancelHeeded JobsSettle
CHECK_DEADLOCK FALSE
