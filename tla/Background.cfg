SPECIFICATION MCSpec
CONSTANTS
    Guests = {g1, g2}
    Singles = {s1}
    Bulks = {b1, b2}
    Crons = {c1}
    Faults = TRUE
    TaskGuests = {1}
    Linked = {1}
    Stored = {1}
    MaxTasks = 2
    Deadline = 2
    MaxStatusErrors = 2
INVARIANTS ScansSound OutcomeTrue
PROPERTIES WorkEnds
CHECK_DEADLOCK FALSE
