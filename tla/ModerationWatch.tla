-------------------------- MODULE ModerationWatch --------------------------
(***************************************************************************)
(* The moderation watch: watched Mastodon accounts are polled for posts,   *)
(* new accounts are announced, watched and welcomed, and accounts that log *)
(* in without ever posting are flagged.  Two threads may run the poll, the *)
(* scheduler's job and the one the "poll now" button starts; nothing keeps *)
(* them apart.  Each commits as it goes, so it may end between any two of  *)
(* its steps, with the process or by an error of the database.             *)
(*                                                                         *)
(* A post is its number among the posts of its account (status ids grow),  *)
(* and the creation time of an account is its place among the sign-ups.    *)
(***************************************************************************)
EXTENDS Integers, Sequences, FiniteSets

CONSTANTS
    Accounts,      \* the local accounts
    Newcomers,     \* those that have yet to sign up
    Posted,        \* those that have posted before
    Followed,      \* those that are watched already
    PolledBefore,  \* whether there was a poll before, today
    MaxPosts,      \* bound: the posts of an account
    StatusPage,    \* the statuses one request returns at most
    AccountPages,  \* the accounts list_local_accounts returns at most
    BatchSize,     \* MAX_WATCH_REQUESTS_PER_RUN
    MaxWelcomes,   \* MAX_WELCOMES_PER_RUN
    AutoWatch,     \* whether new accounts are watched
    MaxFaults,     \* bound: failed requests and restarts
    MaxClicks      \* bound: what the moderators ask for

ASSUME ModerationAssumption ==
    /\ IsFiniteSet(Accounts) /\ "none" \notin Accounts
    /\ Newcomers \subseteq Accounts
    /\ PolledBefore \in BOOLEAN /\ AutoWatch \in BOOLEAN
    /\ MaxPosts \in Nat \ {0}
    /\ {StatusPage, AccountPages, BatchSize, MaxWelcomes, MaxFaults, MaxClicks} \subseteq Nat

VARIABLES
    posts,     \* external: the posts of each account
    signups,   \* external: the accounts in the order of their creation
    gone,      \* external: the accounts that were deleted
    dms,       \* external: the direct messages the bot sent each account
    keys,      \* external: the accounts whose idempotency key is remembered
    watch,     \* moderation_watches
    alerts,    \* moderation_alerts, by their dedupe key
    welcomed,  \* moderation_welcomes
    settings,  \* the settings the poll keeps
    pace,      \* _watch_stretch and the interval of the scheduler's job
    poll,      \* the two threads
    sender,    \* the account a moderator's request has just welcomed, until it is recorded
    raised, told, twice, again, bootstrapped, overlooked,  \* history
    faults, clicks

mastodon == <<posts, signups, gone>>
bot == <<dms, keys, welcomed, sender, again>>
history == <<raised, told, twice, bootstrapped, overlooked>>
vars == <<mastodon, bot, watch, alerts, settings, pace, poll, history, faults, clicks>>

Pollers == {"cron", "now"}
None == "none"

(* ModerationAlert.make_dedupe_key *)
PostKey(a, n) == <<"watched_post", a, n>>
NewKey(a) == <<"new_account", a, 0>>
SilentKey(a) == <<"silent_login", a, 0>>
AlertKeys == ({"watched_post"} \X Accounts \X (1..MaxPosts))
             \cup ({"new_account", "silent_login"} \X Accounts \X {0})

(* A row: last_status_id (0 when null), the rank of last_checked_at (0     *)
(* when null), whether it expires.  History: the posts there were when the *)
(* watch began, and those the cursor passed for a known reason.            *)
NoWatch == [cursor |-> 0, checked |-> 0, expires |-> None, since |-> 0, missed |-> {}]
Row(cursor, expires, since) ==
    [cursor |-> cursor, checked |-> 0, expires |-> expires, since |-> since, missed |-> {}]
Absent == [NoWatch EXCEPT !.expires = "absent"]
Watched == {a \in Accounts : watch[a].expires # "absent"}

Idle == [pc |-> "idle", now |-> 0, batch |-> <<>>, seen |-> 0, todo |-> <<>>, dirty |-> FALSE,
         newest |-> 0, missed |-> {}, fresh |-> <<>>, sent |-> 0, found |-> {},
         short |-> FALSE, limited |-> FALSE]

Steps == {"idle", "prune", "query", "look", "ask", "check", "insert", "notify", "mark",
          "discover", "advance", "welcome", "record", "silent", "summary", "finish"}

WatchRows ==
    [cursor : 0..MaxPosts, checked : Nat, expires : {None, "later", "over", "absent"},
     since : 0..MaxPosts, missed : SUBSET (1..MaxPosts)]
Polls ==
    [pc : Steps, now : Nat, batch : Seq(Accounts), seen : 0..MaxPosts, todo : Seq(AlertKeys),
     dirty : BOOLEAN, newest : Nat, missed : SUBSET (1..MaxPosts), fresh : Seq(Accounts),
     sent : 0..MaxWelcomes, found : SUBSET AlertKeys, short : BOOLEAN, limited : BOOLEAN]

TypeOK ==
    /\ posts \in [Accounts -> 0..MaxPosts] /\ gone \subseteq Accounts
    /\ signups \in Seq(Accounts)
    /\ \A i, j \in DOMAIN signups : signups[i] = signups[j] => i = j
    /\ dms \in [Accounts -> Nat] /\ keys \subseteq Accounts /\ welcomed \subseteq Accounts
    /\ sender \in Accounts \cup {None} /\ again \subseteq Accounts
    /\ watch \in [Accounts -> WatchRows]
    /\ \A a \in Accounts : watch[a].cursor <= posts[a]
    /\ alerts \subseteq raised /\ raised \subseteq AlertKeys /\ overlooked \subseteq Accounts
    /\ settings \in [cursor : Nat, backoff : {None, "active", "over"}, silentDue : BOOLEAN]
    /\ settings.cursor <= Len(signups) /\ bootstrapped \in Nat
    /\ pace \in [short : 0..2, factor : {1, 2, 4, 6}, interval : {1, 2, 4, 6}]
    /\ poll \in [Pollers -> Polls]
    /\ faults \in Nat /\ clicks \in Nat

Init ==
    /\ posts = [a \in Accounts |-> IF a \in Posted THEN 1 ELSE 0]
    /\ signups \in {s \in [1..Cardinality(Accounts \ Newcomers) -> Accounts \ Newcomers] :
                      \A i, j \in DOMAIN s : s[i] = s[j] => i = j}
    /\ gone = {} /\ dms = [a \in Accounts |-> 0] /\ keys = {}
    /\ watch = [a \in Accounts |-> IF a \in Followed THEN Row(posts[a], None, posts[a]) ELSE Absent]
    /\ alerts = {} /\ welcomed = {}
    /\ settings = [cursor |-> IF PolledBefore THEN Len(signups) ELSE 0,
                   backoff |-> None, silentDue |-> ~PolledBefore]
    /\ pace = [short |-> 0, factor |-> 1, interval |-> 1]
    /\ poll = [p \in Pollers |-> Idle]
    /\ sender = None
    /\ raised = {} /\ told = {} /\ twice = {} /\ again = {}
    /\ bootstrapped = settings.cursor /\ overlooked = {}
    /\ faults = 0 /\ clicks = 0

-----------------------------------------------------------------------------
(* External: the instance. *)
Active(a) == (\E i \in DOMAIN signups : signups[i] = a) /\ a \notin gone

Post(a) ==
    /\ Active(a) /\ posts[a] < MaxPosts
    /\ posts' = [posts EXCEPT ![a] = @ + 1]
    /\ UNCHANGED <<signups, gone, bot, watch, alerts, settings, pace, poll, history, faults, clicks>>

SignUp(a) ==
    /\ a \in Newcomers /\ \A i \in DOMAIN signups : signups[i] # a
    /\ signups' = Append(signups, a)
    /\ UNCHANGED <<posts, gone, bot, watch, alerts, settings, pace, poll, history, faults, clicks>>

Deleted(a) ==
    /\ Active(a) /\ clicks < MaxClicks
    /\ gone' = gone \cup {a} /\ clicks' = clicks + 1
    /\ UNCHANGED <<posts, signups, bot, watch, alerts, settings, pace, poll, history, faults>>

(* Posting a status with a key the instance remembers returns the first    *)
(* one; it forgets keys after an hour, long after any request has ended.   *)
DirectMessage(a) ==
    /\ dms' = [dms EXCEPT ![a] = IF a \in keys THEN @ ELSE @ + 1]
    /\ keys' = keys \cup {a}

ForgetKey(a) ==
    /\ a \in keys /\ sender = None /\ \A p \in Pollers : poll[p].pc \notin {"welcome", "record"}
    /\ keys' = keys \ {a}
    /\ UNCHANGED <<mastodon, dms, welcomed, sender, again, watch, alerts, settings, pace, poll,
                   history, faults, clicks>>

-----------------------------------------------------------------------------
(* What the poll's steps have in common. *)
Quiet == UNCHANGED <<mastodon, pace, clicks>>
OnlyPoll(p, rec) ==
    /\ poll' = [poll EXCEPT ![p] = rec]
    /\ UNCHANGED <<bot, watch, alerts, settings, history>> /\ Quiet

At(p) == Head(poll[p].batch)
Fault == faults < MaxFaults /\ faults' = faults + 1

(* An error other than a MastodonAPIError ends the poll: nothing is        *)
(* stored, and the button's flag is reset in its finally.                  *)
Dies(p) == OnlyPoll(p, Idle) /\ UNCHANGED faults

(* budget_ok is false from here on: no later step sends a request. *)
Defer(p) == Fault /\ OnlyPoll(p, [poll[p] EXCEPT !.pc = "finish", !.short = TRUE])

(* A 429 aborts the remaining steps. *)
Limited(p) == Fault /\ OnlyPoll(p, [poll[p] EXCEPT !.pc = "finish", !.limited = TRUE])

(* Any other failure of a step is noted, and the poll goes on. *)
Fails(p, next) == Fault /\ OnlyPoll(p, [poll[p] EXCEPT !.pc = next])

-----------------------------------------------------------------------------
(* _run_moderation_watch_poll and mastodon_watch_poll_now.  Times of       *)
(* checks matter by their order alone: they are ranked anew.               *)
Start(p) ==
    /\ poll[p].pc = "idle"
    /\ p = "cron" => settings.backoff # "active"
    /\ LET times == ({watch[a].checked : a \in Accounts} \cup {poll[q].now : q \in Pollers}) \ {0}
           Rank(t) == Cardinality({u \in times : u <= t})
       IN /\ watch' = [a \in Accounts |-> [watch[a] EXCEPT !.checked = Rank(@)]]
          /\ poll' = [q \in Pollers |->
                        IF q = p THEN [Idle EXCEPT !.pc = "prune", !.now = Cardinality(times) + 1]
                        ELSE [poll[q] EXCEPT !.now = Rank(@)]]
    /\ UNCHANGED <<bot, alerts, settings, history, faults>> /\ Quiet

(* _prune.  Alerts are past their retention, 90 days after they were       *)
(* acknowledged or as long as the log is kept, when no poll of that time   *)
(* is left.  The cursors have then long passed a post or a sign-up, but    *)
(* the scan of silent logins may look back for longer than that: to it the *)
(* account is as new, and so it is to the history.                         *)
Settled(p, k) ==
    IF k[1] = "silent_login" THEN \A q \in Pollers : k \notin poll[q].found
    ELSE /\ \A q \in Pollers \ {p} : poll[q].pc = "idle"
         /\ k[1] = "watched_post" => k[2] \notin Watched \/ watch[k[2]].cursor >= k[3]
         /\ k[1] = "new_account" => \E i \in 1..settings.cursor : signups[i] = k[2]
Logins(ks) == {k \in ks : k[1] = "silent_login"}
Prune(p) ==
    /\ poll[p].pc = "prune"
    /\ watch' = [a \in Accounts |-> IF watch[a].expires = "over" THEN Absent ELSE watch[a]]
    /\ \E old \in SUBSET {k \in alerts : Settled(p, k)} :
          /\ alerts' = alerts \ old
          /\ raised' = raised \ Logins(old) /\ told' = told \ Logins(old)
    /\ poll' = [poll EXCEPT ![p].pc = "query"]
    /\ UNCHANGED <<bot, settings, twice, bootstrapped, overlooked, faults>> /\ Quiet

(* _check_watched: the watches in the order of their last check, the ones  *)
(* never checked first.                                                    *)
InOrder(s) ==
    /\ \A i, j \in DOMAIN s : i < j => s[i] # s[j] /\ watch[s[i]].checked <= watch[s[j]].checked
    /\ \A i \in DOMAIN s, b \in Watched :
          (\A j \in DOMAIN s : s[j] # b) => watch[s[i]].checked <= watch[b].checked
Query(p) ==
    /\ poll[p].pc = "query"
    /\ LET n == Cardinality(Watched)
           size == IF n < BatchSize THEN n ELSE BatchSize
       IN \E s \in [1..size -> Watched] :
             /\ InOrder(s)
             /\ OnlyPoll(p, [poll[p] EXCEPT !.pc = "look", !.batch = s])
    /\ UNCHANGED faults

(* The budget is looked at, then the row.  Every commit has the session    *)
(* read its rows again, and one that is gone raises.                       *)
Look(p) ==
    /\ poll[p].pc = "look"
    /\ \/ /\ poll[p].batch = <<>>
          /\ OnlyPoll(p, [poll[p] EXCEPT !.pc = "discover"]) /\ UNCHANGED faults
       \/ /\ poll[p].batch # <<>>
          /\ \/ Defer(p)
             \/ At(p) \notin Watched /\ Dies(p)
             \/ /\ At(p) \in Watched
                /\ OnlyPoll(p, [poll[p] EXCEPT !.pc = "ask", !.seen = watch[At(p)].cursor])
                /\ UNCHANGED faults

(* _poll_watch asks for the account's statuses: the newest one when there  *)
(* is no cursor, else those after it.  A deleted account's watch is        *)
(* dropped; another error leaves the watch to be marked as checked.        *)
Later(rec) == [rec EXCEPT !.pc = "look", !.batch = Tail(@), !.seen = 0, !.newest = 0,
                          !.missed = {}, !.dirty = FALSE]
KeepWatch(p) == OnlyPoll(p, Later(poll[p])) /\ UNCHANGED faults
DropWatch(p) ==
    /\ watch' = [watch EXCEPT ![At(p)] = Absent]
    /\ poll' = [poll EXCEPT ![p] = Later(@)]
    /\ UNCHANGED <<bot, alerts, settings, history, faults>> /\ Quiet
Ask(p) ==
    /\ poll[p].pc = "ask"
    /\ LET a == At(p)
           seen == poll[p].seen
           oldest == IF posts[a] - StatusPage > seen THEN posts[a] - StatusPage ELSE seen
           first == IF seen = 0 THEN posts[a] ELSE oldest
       IN \/ Limited(p)
          \/ Fault /\ OnlyPoll(p, [poll[p] EXCEPT !.pc = "mark"])
          \/ a \in gone /\ DropWatch(p)
          \/ /\ a \notin gone
             /\ OnlyPoll(p, [poll[p] EXCEPT
                    !.pc = "check",
                    !.newest = IF posts[a] > seen THEN posts[a] ELSE 0,
                    !.missed = seen + 1 .. first,
                    !.todo = [i \in 1..posts[a] - first |-> PostKey(a, first + i)]])
             /\ UNCHANGED faults

(* The account goes to the back of the queue, and the cursor to the newest *)
(* status of the reply.                                                    *)
SeenNow(p) == posts[At(p)]
SeenUpTo(p) == IF poll[p].newest = 0 THEN watch[At(p)].cursor ELSE poll[p].newest
Marked(p, row) ==
    [row EXCEPT !.checked = poll[p].now,
                !.cursor = SeenUpTo(p),
                !.missed = IF poll[p].newest = 0 THEN @ ELSE @ \cup poll[p].missed]
Mark(p) ==
    /\ poll[p].pc = "mark"
    /\ UNCHANGED faults
    /\ \/ At(p) \notin Watched /\ Dies(p)
       \/ /\ At(p) \in Watched
          /\ watch' = [watch EXCEPT ![At(p)] = Marked(p, @)]
          /\ poll' = [poll EXCEPT ![p] = Later(@)]
          /\ UNCHANGED <<bot, alerts, settings, history>> /\ Quiet

-----------------------------------------------------------------------------
(* record_alert, for each entry of what a request returned, oldest first:  *)
(* a look for the key, the row - the unique key settles a race - and after *)
(* the commit the notification.  Logins are told of in one summary.        *)
Key(p) == Head(poll[p].todo)
Upshot(k) == CASE k[1] = "watched_post" -> "mark" [] k[1] = "new_account" -> "advance"
               [] OTHER -> "summary"

(* After the alert: the rest of the loop's body.  A new account is         *)
(* watched; a watch remembers the account's current name, which the next   *)
(* query writes.                                                           *)
Done(p, rec) ==
    /\ poll' = [poll EXCEPT ![p] =
                  [rec EXCEPT !.todo = Tail(@), !.dirty = Key(p)[1] = "watched_post",
                              !.pc = IF Len(rec.todo) = 1 THEN Upshot(Key(p)) ELSE "check"]]
    /\ watch' = IF Key(p)[1] = "new_account" /\ AutoWatch /\ Key(p)[2] \notin Watched
                THEN [watch EXCEPT ![Key(p)[2]] = Row(0, "later", posts[Key(p)[2]])] ELSE watch

Check(p) ==
    /\ poll[p].pc = "check"
    /\ UNCHANGED faults
    /\ \/ /\ poll[p].todo = <<>>
          /\ OnlyPoll(p, [poll[p] EXCEPT !.pc = "mark"])
       \/ /\ poll[p].todo # <<>>
          /\ \/ poll[p].dirty /\ At(p) \notin Watched /\ Dies(p)
             \/ /\ poll[p].dirty => At(p) \in Watched
                /\ \/ /\ Key(p) \in alerts
                      /\ Done(p, poll[p])
                      /\ UNCHANGED <<bot, alerts, settings, history>> /\ Quiet
                   \/ /\ Key(p) \notin alerts
                      /\ OnlyPoll(p, [poll[p] EXCEPT !.pc = "insert"])

InsertAnyway(p) ==
    /\ poll[p].pc = "insert"
    /\ alerts' = alerts \cup {Key(p)} /\ raised' = raised \cup {Key(p)}
    /\ poll' = [poll EXCEPT ![p].pc = "notify"]
    /\ UNCHANGED <<watch, bot, settings, faults, told, twice, bootstrapped, overlooked>> /\ Quiet
Insert(p) ==
    /\ poll[p].pc = "insert"
    /\ UNCHANGED <<bot, settings, faults, told, twice, bootstrapped, overlooked>> /\ Quiet
    /\ \/ Key(p) \in alerts /\ Done(p, poll[p]) /\ UNCHANGED <<alerts, raised>>
       \/ /\ Key(p) \notin alerts
          /\ alerts' = alerts \cup {Key(p)} /\ raised' = raised \cup {Key(p)}
          /\ IF Key(p)[1] = "silent_login"
             THEN Done(p, [poll[p] EXCEPT !.found = @ \cup {Key(p)}])
             ELSE poll' = [poll EXCEPT ![p].pc = "notify"] /\ UNCHANGED watch

(* What has been told of, and what more than once. *)
Tell(ks) == told' = told \cup ks /\ twice' = twice \cup (told \cap ks)

(* A notification that fails is logged. *)
Notify(p) ==
    /\ poll[p].pc = "notify"
    /\ \/ Tell({Key(p)}) /\ UNCHANGED faults
       \/ Fault /\ UNCHANGED <<told, twice>>
    /\ Done(p, poll[p])
    /\ UNCHANGED <<bot, alerts, settings, raised, bootstrapped, overlooked>> /\ Quiet

-----------------------------------------------------------------------------
(* A set of sign-ups, by their places, in the order of creation. *)
InTurn(places) ==
    {s \in [1..Cardinality(places) -> places] :
        /\ \A i, j \in DOMAIN s : i < j => s[i] < s[j]
        /\ places = {s[i] : i \in DOMAIN s}}

(* _discover_new_accounts: the first time only the cursor is set. *)
Discover(p) ==
    /\ poll[p].pc = "discover"
    /\ LET cursor == settings.cursor
           last == Len(signups)
           oldest == IF last - AccountPages > cursor THEN last - AccountPages ELSE cursor
           found == {i \in oldest + 1 .. last : signups[i] \notin gone}
       IN \/ Defer(p) \/ Limited(p) \/ Fails(p, "silent")
          \/ /\ UNCHANGED faults
             /\ \/ /\ cursor = 0 /\ last > 0
                   /\ OnlyPoll(p, [poll[p] EXCEPT !.pc = "advance", !.newest = last])
                \/ /\ IF cursor = 0 THEN last = 0 ELSE found = {}
                   /\ OnlyPoll(p, [poll[p] EXCEPT !.pc = "silent"])
                \/ /\ cursor # 0 /\ found # {}
                   /\ \E s \in InTurn(found) :
                         poll' = [poll EXCEPT ![p] = [@ EXCEPT
                             !.pc = "check", !.newest = s[Len(s)],
                             !.fresh = [i \in DOMAIN s |-> signups[s[i]]],
                             !.todo = [i \in DOMAIN s |-> NewKey(signups[s[i]])]]]
                   /\ overlooked' = overlooked \cup {signups[i] : i \in cursor + 1 .. oldest}
                   /\ UNCHANGED <<bot, watch, alerts, settings, raised, told, twice, bootstrapped>> /\ Quiet

(* The cursor, once every account is announced and watched. *)
Advance(p) ==
    /\ poll[p].pc = "advance"
    /\ settings' = [settings EXCEPT !.cursor = poll[p].newest]
    /\ bootstrapped' = IF poll[p].fresh = <<>> /\ poll[p].newest > bootstrapped
                       THEN poll[p].newest ELSE bootstrapped
    /\ poll' = [poll EXCEPT ![p] = IF p = "cron" /\ @.fresh # <<>>
                                   THEN [@ EXCEPT !.pc = "welcome", !.newest = 0]
                                   ELSE [@ EXCEPT !.pc = "silent", !.newest = 0, !.fresh = <<>>]]
    /\ UNCHANGED <<bot, watch, alerts, raised, told, twice, overlooked, faults>> /\ Quiet

-----------------------------------------------------------------------------
(* _send_welcomes and send_welcome, in the scheduler's poll only: the      *)
(* message is sent, then recorded.  An error, a 429 too, is noted; the     *)
(* message of a request that timed out may have been delivered.            *)
Unrecorded(a) == DirectMessage(a) /\ again' = again \cup {a} /\ UNCHANGED welcomed
NextWelcome(rec) == [rec EXCEPT !.pc = "welcome", !.fresh = Tail(@)]
Welcome(p) ==
    /\ poll[p].pc = "welcome"
    /\ LET a == Head(poll[p].fresh) IN
       \/ /\ poll[p].fresh = <<>> \/ poll[p].sent = MaxWelcomes
          /\ OnlyPoll(p, [poll[p] EXCEPT !.pc = "silent", !.fresh = <<>>]) /\ UNCHANGED faults
       \/ /\ poll[p].fresh # <<>> /\ poll[p].sent < MaxWelcomes
          /\ \/ /\ a \in welcomed
                /\ OnlyPoll(p, NextWelcome(poll[p])) /\ UNCHANGED faults
             \/ a \notin welcomed /\ Fault /\ OnlyPoll(p, NextWelcome(poll[p]))
             \/ /\ a \notin welcomed /\ Fault
                /\ Unrecorded(a)
                /\ poll' = [poll EXCEPT ![p] = NextWelcome(@)]
                /\ UNCHANGED <<sender, watch, alerts, settings, history>> /\ Quiet
             \/ /\ a \notin welcomed /\ Fault
                /\ OnlyPoll(p, [poll[p] EXCEPT !.pc = "silent", !.fresh = <<>>, !.short = TRUE])
             \/ /\ a \notin welcomed
                /\ DirectMessage(a)
                /\ poll' = [poll EXCEPT ![p].pc = "record"]
                /\ UNCHANGED <<welcomed, sender, again, watch, alerts, settings, history, faults>>
                /\ Quiet

Record(p) ==
    /\ poll[p].pc = "record"
    /\ LET a == Head(poll[p].fresh) IN
       \/ a \in welcomed /\ Dies(p)
       \/ /\ Fault
          /\ again' = again \cup {a}
          /\ poll' = [poll EXCEPT ![p] = Idle]
          /\ UNCHANGED <<dms, keys, welcomed, sender, watch, alerts, settings, history>> /\ Quiet
       \/ /\ a \notin welcomed /\ UNCHANGED faults
          /\ welcomed' = welcomed \cup {a}
          /\ poll' = [poll EXCEPT ![p] = [NextWelcome(@) EXCEPT !.sent = poll[p].sent + 1]]
          /\ UNCHANGED <<dms, keys, sender, again, watch, alerts, settings, history>> /\ Quiet

-----------------------------------------------------------------------------
(* _scan_silent_logins, once a day; which of the accounts without a post   *)
(* are old enough and logged in lately is a choice.                        *)
Silent(p) ==
    /\ poll[p].pc = "silent"
    /\ \/ /\ ~settings.silentDue
          /\ OnlyPoll(p, [poll[p] EXCEPT !.pc = "finish"]) /\ UNCHANGED faults
       \/ settings.silentDue /\ (Defer(p) \/ Limited(p) \/ Fails(p, "finish"))
       \/ /\ settings.silentDue /\ UNCHANGED faults
          /\ LET quiet == {i \in DOMAIN signups : signups[i] \notin gone /\ posts[signups[i]] = 0} IN
             \E s \in {<<>>} \cup InTurn(quiet) :
                OnlyPoll(p, [poll[p] EXCEPT
                    !.pc = IF s = <<>> THEN "summary" ELSE "check", !.found = {},
                    !.todo = [i \in DOMAIN s |-> SilentKey(signups[s[i]])]])

Summary(p) ==
    /\ poll[p].pc = "summary"
    /\ Tell(poll[p].found)
    /\ settings' = [settings EXCEPT !.silentDue = FALSE]
    /\ poll' = [poll EXCEPT ![p].pc = "finish"]
    /\ UNCHANGED <<bot, watch, alerts, raised, bootstrapped, overlooked, faults>> /\ Quiet

(* The end of run_watch_poll and, for the scheduler's job, the back-off    *)
(* and the stretching of its interval.                                     *)
Stretched(factor) == IF 2 * factor > 6 THEN 6 ELSE 2 * factor
Paced(short) ==
    IF ~short
    THEN [short |-> 0, factor |-> 1, interval |-> IF pace.factor # 1 THEN 1 ELSE pace.interval]
    ELSE LET repeated == pace.short >= 1
             factor == IF repeated THEN Stretched(pace.factor) ELSE pace.factor
         IN [short |-> IF repeated THEN 2 ELSE 1, factor |-> factor,
             interval |-> IF factor # pace.factor THEN factor ELSE pace.interval]
Finish(p) ==
    /\ poll[p].pc = "finish"
    /\ IF p = "cron"
       THEN /\ settings' = [settings EXCEPT !.backoff = IF poll[p].limited THEN "active" ELSE None]
            /\ pace' = Paced(poll[p].short \/ poll[p].limited)
       ELSE UNCHANGED <<settings, pace>>
    /\ poll' = [poll EXCEPT ![p] = Idle]
    /\ UNCHANGED <<mastodon, bot, watch, alerts, history, faults, clicks>>

Step(p) ==
    \/ Prune(p) \/ Query(p) \/ Look(p) \/ Ask(p) \/ Check(p) \/ Insert(p) \/ Notify(p) \/ Mark(p)
    \/ Discover(p) \/ Advance(p) \/ Welcome(p) \/ Record(p) \/ Silent(p) \/ Summary(p) \/ Finish(p)

-----------------------------------------------------------------------------
(* The moderators: mastodon_watch_add (the newest status is asked for      *)
(* before the row is added), mastodon_watch_remove, mastodon_welcome_send. *)
Click == clicks < MaxClicks /\ clicks' = clicks + 1

Add(a) ==
    /\ Click /\ Active(a) /\ a \notin Watched
    /\ \E expires \in {None, "later"} :
          watch' = [watch EXCEPT ![a] = Row(posts[a], expires, posts[a])]
    /\ UNCHANGED <<mastodon, bot, alerts, settings, pace, poll, history, faults>>

Remove(a) ==
    /\ Click /\ a \in Watched
    /\ watch' = [watch EXCEPT ![a] = Absent]
    /\ UNCHANGED <<mastodon, bot, alerts, settings, pace, poll, history, faults>>

SendWelcome(a, force) ==
    /\ Click /\ Active(a) /\ sender = None
    /\ a \in welcomed => force
    /\ \/ /\ DirectMessage(a)
          /\ sender' = a
          /\ again' = IF a \in welcomed THEN again \cup {a} ELSE again
          /\ UNCHANGED <<welcomed, faults>>
       \/ Fault /\ Unrecorded(a) /\ UNCHANGED sender
    /\ UNCHANGED <<mastodon, watch, alerts, settings, pace, poll, history>>

(* The row; when another was added meanwhile the commit raises, and the    *)
(* database may fail.                                                      *)
RecordWelcome ==
    /\ sender # None
    /\ \/ welcomed' = welcomed \cup {sender} /\ UNCHANGED <<again, faults>>
       \/ Fault /\ again' = again \cup {sender} /\ UNCHANGED welcomed
    /\ sender' = None
    /\ UNCHANGED <<mastodon, dms, keys, watch, alerts, settings, pace, poll, history, clicks>>

(* mastodon_watch_save: the job is scheduled anew, _watch_stretch stays.   *)
SaveSettings ==
    /\ Click
    /\ pace' = [pace EXCEPT !.interval = 1]
    /\ UNCHANGED <<mastodon, bot, watch, alerts, settings, poll, history, faults>>

(* Time passes. *)
BackoffOver ==
    /\ settings.backoff = "active"
    /\ settings' = [settings EXCEPT !.backoff = "over"]
    /\ UNCHANGED <<mastodon, bot, watch, alerts, pace, poll, history, faults, clicks>>
DayPasses ==
    /\ ~settings.silentDue
    /\ settings' = [settings EXCEPT !.silentDue = TRUE]
    /\ UNCHANGED <<mastodon, bot, watch, alerts, pace, poll, history, faults, clicks>>
Expire(a) ==
    /\ watch[a].expires = "later"
    /\ watch' = [watch EXCEPT ![a].expires = "over"]
    /\ UNCHANGED <<mastodon, bot, alerts, settings, pace, poll, history, faults, clicks>>

(* The process ends and starts again: the threads, _watch_stretch and the  *)
(* flag of the button go.                                                  *)
Restart ==
    /\ Fault
    /\ again' = again \cup {Head(poll[p].fresh) : p \in {q \in Pollers : poll[q].pc = "record"}}
                        \cup ({sender} \ {None})
    /\ poll' = [p \in Pollers |-> Idle]
    /\ sender' = None
    /\ pace' = [short |-> 0, factor |-> 1, interval |-> 1]
    /\ UNCHANGED <<mastodon, dms, keys, welcomed, watch, alerts, settings, history, clicks>>

Next ==
    \/ \E p \in Pollers : Start(p) \/ Step(p)
    \/ \E a \in Accounts : Post(a) \/ SignUp(a) \/ Deleted(a) \/ ForgetKey(a) \/ Add(a) \/ Remove(a)
                           \/ Expire(a) \/ \E force \in BOOLEAN : SendWelcome(a, force)
    \/ RecordWelcome \/ SaveSettings \/ BackoffOver \/ DayPasses \/ Restart

Spec == Init /\ [][Next]_vars

-----------------------------------------------------------------------------
(* Each alert is notified of at most once, two polls at a time or a poll   *)
(* begun again after a crash included (core/moderation_watch.py, 11-13):   *)
(* of a post or a sign-up for ever, of a silent login as long as its row   *)
(* is kept.                                                                *)
AlertsOnce == twice = {} /\ told \subseteq raised

(* No account is welcomed twice, unless a moderator insists or a message   *)
(* that was delivered is not recorded, because the answer was lost, the    *)
(* database failed or the process ended (send_welcome).                    *)
WelcomedOnce == \A a \in Accounts \ again : dms[a] <= 1

(* Nobody is told twice of an alert that is kept, and nobody is welcomed   *)
(* twice whose welcome was recorded, however the polls overlap, fail or    *)
(* are begun again (record_alert, send_welcome).                           *)
MessagesOnce == AlertsOnce /\ WelcomedOnce

(* The cursor of a watch passes a post only when there is an alert for it, *)
(* save the posts of a first look and those beyond the page asked for      *)
(* (_poll_watch); and the cursor of the sign-ups likewise, save those      *)
(* beyond the pages asked for and deleted accounts                         *)
(* (_discover_new_accounts).                                               *)
PostsCovered ==
    \A a \in Watched : \A n \in watch[a].since + 1 .. watch[a].cursor :
        PostKey(a, n) \in raised \/ n \in watch[a].missed
SignUpsCovered ==
    \A i \in bootstrapped + 1 .. settings.cursor :
        NewKey(signups[i]) \in raised \/ signups[i] \in overlooked \cup gone
NothingPassedOver == TypeOK /\ PostsCovered /\ SignUpsCovered

(* A watch whose cursor is behind catches up, unless it ends; polls end;   *)
(* and a stretched interval is restored.                                   *)
CatchesUp ==
    \A a \in Accounts :
        (a \in Watched /\ watch[a].cursor \in 1..posts[a] - 1)
            ~> (a \in Watched => watch[a].cursor = posts[a])
PollsEnd == \A p \in Pollers : poll[p].pc # "idle" ~> poll[p].pc = "idle"
PaceRestored == pace.interval # 1 ~> pace.interval = 1

-----------------------------------------------------------------------------
(* What MessagesOnce and NothingPassedOver rest on.  First, what a poll    *)
(* holds at each of its steps;                                             *)
Todo(p) == {poll[p].todo[i] : i \in DOMAIN poll[p].todo}
Staged(p) ==
    /\ poll[p].pc \notin {"check", "insert", "notify"} => poll[p].todo = <<>>
    /\ poll[p].pc \in {"insert", "notify"} => poll[p].todo # <<>>
    /\ poll[p].pc \in {"ask", "mark"} => poll[p].batch # <<>>
    /\ poll[p].pc = "check" /\ poll[p].todo = <<>> => poll[p].batch # <<>>
    /\ poll[p].pc \in {"idle", "prune", "query", "discover", "advance", "welcome", "record",
                       "silent", "summary"} => poll[p].batch = <<>>
    /\ poll[p].pc \in {"idle", "prune", "query"} => poll[p].seen = 0
    /\ poll[p].pc \notin {"check", "insert", "notify", "mark", "advance"} => poll[p].newest = 0
    /\ poll[p].pc = "advance" => poll[p].newest # 0
    /\ poll[p].pc \notin {"check", "insert", "notify", "advance", "welcome", "record"}
          \/ poll[p].batch # <<>> => poll[p].fresh = <<>>
    /\ poll[p].pc = "record" => poll[p].fresh # <<>> /\ poll[p].sent < MaxWelcomes
    /\ \A k \in Todo(p) :
          /\ k[1] = "watched_post" => poll[p].batch # <<>> /\ k[2] = At(p) /\ k[3] <= posts[k[2]]
          /\ k[1] = "new_account" =>
                poll[p].batch = <<>> /\ poll[p].fresh # <<>> /\ poll[p].newest # 0
          /\ k[1] = "silent_login" =>
                /\ poll[p].batch = <<>> /\ poll[p].fresh = <<>> /\ poll[p].newest = 0
                /\ poll[p].pc # "notify"

(* the cursors a poll has read or is about to write are places that exist, *)
(* and what they pass is alerted of, excused or still to be done;          *)
Sighted(p) ==
    /\ poll[p].batch # <<>> => poll[p].seen <= posts[At(p)] /\ poll[p].newest <= posts[At(p)]
    /\ poll[p].batch = <<>> => poll[p].newest <= Len(signups)
    /\ poll[p].batch # <<>> /\ At(p) \in Watched =>
          /\ \A n \in watch[At(p)].since + 1 .. poll[p].seen :
                PostKey(At(p), n) \in raised \/ n \in watch[At(p)].missed
          /\ \A n \in watch[At(p)].since + 1 .. poll[p].newest :
                \/ PostKey(At(p), n) \in raised \cup Todo(p)
                \/ n \in watch[At(p)].missed \cup poll[p].missed
Announced(p) ==
    poll[p].fresh # <<>> =>
        \A i \in bootstrapped + 1 .. poll[p].newest :
            \/ NewKey(signups[i]) \in raised \cup Todo(p)
            \/ signups[i] \in overlooked \cup gone

(* an alert that was pruned is behind every cursor, the ones that polls    *)
(* hold included, and on no list;                                          *)
Pruned == raised \ alerts
PrunedBehind ==
    \A k \in Pruned :
        /\ k[1] # "silent_login"
        /\ k[1] = "watched_post" /\ k[2] \in Watched =>
              watch[k[2]].cursor = 0 \/ k[3] <= watch[k[2]].cursor
        /\ k[1] = "new_account" => \E i \in 1..settings.cursor : signups[i] = k[2]
Unpruned(p) ==
    \A k \in Pruned :
        /\ k \notin Todo(p)
        /\ k[1] = "watched_post" /\ poll[p].batch # <<>> /\ k[2] = At(p) =>
              /\ poll[p].seen = 0 \/ k[3] <= poll[p].seen
              /\ poll[p].newest = 0 \/ k[3] <= poll[p].newest
        /\ k[1] = "new_account" /\ poll[p].batch = <<>> /\ poll[p].newest # 0 =>
              \E i \in 1..poll[p].newest : signups[i] = k[2]

(* what is about to be told of was raised and not told of, by one poll;    *)
Untold(p) ==
    /\ poll[p].pc = "notify" => Key(p) \in raised \ told
    /\ poll[p].found \subseteq raised /\ \A k \in poll[p].found : k[1] = "silent_login"
    /\ poll[p].pc # "finish" => poll[p].found \cap told = {}
    /\ \A q \in Pollers \ {p} :
          /\ poll[p].found \cap poll[q].found = {}
          /\ poll[p].pc = "notify" /\ poll[q].pc = "notify" => Key(p) # Key(q)

(* no alert is about a post to come;                                       *)
RaisedPosted == \A k \in raised : k[1] = "watched_post" => k[3] <= posts[k[2]]

(* and whoever was welcomed is recorded, or is about to be while the       *)
(* instance remembers the key.                                             *)
InHand(a) == sender = a \/ \E p \in Pollers : poll[p].pc = "record" /\ Head(poll[p].fresh) = a
Welcomes ==
    \A a \in Accounts \ again :
        /\ dms[a] <= 1
        /\ dms[a] = 1 => a \in welcomed \/ (a \in keys /\ InHand(a))

IInv ==
    /\ NothingPassedOver /\ AlertsOnce /\ Welcomes /\ PrunedBehind /\ RaisedPosted
    /\ \A p \in Pollers : Staged(p) /\ Sighted(p) /\ Announced(p) /\ Unpruned(p) /\ Untold(p)
=============================================================================
