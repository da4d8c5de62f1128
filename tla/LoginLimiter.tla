---------------------------- MODULE LoginLimiter ----------------------------
(***************************************************************************)
(* The failed-login limiter of the web login form and, with its own        *)
(* numbers, of the mobile API: a bucket of time stamps per client address, *)
(* pruned by age, and evicted oldest first when there are too many.  Under *)
(* gevent a login is one step from the check to the record.                *)
(***************************************************************************)
EXTENDS Integers, FiniteSets

CONSTANTS
    Clients,
    Window,   \* _FAIL_WINDOW
    Limit,    \* _FAIL_LIMIT
    MaxKeys,  \* _FAIL_MAX_KEYS
    MaxTime   \* bound on the clock

VARIABLES
    attempts,  \* _failed_attempts: the stamps per client, {} for no bucket
    now,
    failures,  \* the refused passwords of each client in the window (history;
               \* only the last one of an evicted client)
    evicted    \* the clients whose bucket was evicted in the window (history)

vars == <<attempts, now, failures, evicted>>

Init ==
    /\ attempts = [c \in Clients |-> {}]
    /\ now = 0
    /\ failures = [c \in Clients |-> {}]
    /\ evicted = {}

\* A stamp is a tick and, since two may be the same, its number in that tick.
Recent(bucket) == {s \in bucket : s[1] > now - Window}

\* The last stamp is the newest, since they are added as time goes by: whether
\* the one of `older' comes no later than the one of `newer'.
NoLater(older, newer) == \A r \in older : \E s \in newer : r[1] <= s[1]

Stamped(bucket) == <<now, Cardinality({s \in bucket : s[1] = now}) + 1>>

Keys(buckets) == {c \in Clients : buckets[c] # {}}

\* buckets whose last attempt is not recent, and so none is, are deleted
Aged(buckets) == [c \in Clients |-> IF Recent(buckets[c]) # {} THEN buckets[c] ELSE {}]

\* the sets of clients the cap may evict: as many as are too many, none of
\* them more recently active than one that is kept
Evictions(buckets) ==
    {E \in SUBSET Keys(buckets) :
        /\ Cardinality(E) = IF Cardinality(Keys(buckets)) > MaxKeys
                            THEN Cardinality(Keys(buckets)) - MaxKeys ELSE 0
        /\ \A e \in E, k \in Keys(buckets) \ E : NoLater(buckets[e], buckets[k])}

\* _prune_failed_attempts: one of the results it may leave
Without(buckets, E) == [c \in Clients |-> IF c \in E THEN {} ELSE buckets[c]]

\* _check_rate_limit
Locked(c) == Cardinality(Recent(attempts[c])) >= Limit

\* the buckets after the check for client c
Checked(c) == [Aged(attempts) EXCEPT ![c] = Recent(attempts[c])]

\* login: a locked-out client is turned away, a good password leaves no trace
LoginNoFailure(c) ==
    /\ attempts' = Checked(c)
    /\ UNCHANGED <<now, failures, evicted>>

\* login with a wrong password: recorded, and the buckets pruned again
LoginFails(c) ==
    /\ ~Locked(c)
    /\ LET stamp == Stamped(Recent(attempts[c]))
           recorded == Aged([Checked(c) EXCEPT ![c] = @ \cup {stamp}])
       IN  /\ \E E \in Evictions(recorded) :
                 /\ attempts' = Without(recorded, E)
                 /\ evicted' = evicted \cup E
           /\ failures' = [failures EXCEPT ![c] = IF c \in evicted' THEN {stamp} ELSE @ \cup {stamp}]
    /\ UNCHANGED now

\* time; the history forgets what has left the window
Tick ==
    /\ now < MaxTime
    /\ now' = now + 1
    /\ failures' = [c \in Clients |-> {s \in failures[c] : s[1] > now' - Window}]
    /\ evicted' = {c \in evicted : failures'[c] # {}}
    /\ UNCHANGED attempts

Next == Tick \/ \E c \in Clients : LoginNoFailure(c) \/ LoginFails(c)

Spec == Init /\ [][Next]_vars

----------------------------------------------------------------------------
(* Properties. *)

\* Within any window a client gets at most Limit wrong passwords in, unless
\* its bucket was evicted: trimming and pruning never lose a recent attempt.
FailuresBounded ==
    \A c \in Clients \ evicted : Cardinality(failures[c]) <= Limit

\* The dictionary never holds more than MaxKeys buckets between requests, and
\* the clients it has forgotten too early are the ones the cap evicted.
CapKept ==
    /\ Cardinality(Keys(attempts)) <= MaxKeys
    /\ \A c \in Clients \ evicted : failures[c] # {} => c \in Keys(attempts)
=============================================================================
