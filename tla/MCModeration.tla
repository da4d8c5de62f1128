---------------------------- MODULE MCModeration ----------------------------
(***************************************************************************)
(* Instances of ModerationWatch for TLC, chosen at the start:              *)
(*   overlap  the scheduler's poll and the button's over one watched       *)
(*            account, which posts more than a page holds                  *)
(*   queue    the scheduler's poll over two watched accounts, one of which *)
(*            it looks at in a run; failures enough to stretch the pace    *)
(*   greet    both polls and a moderator's welcome, while an account signs *)
(*            up                                                           *)
(*   first    the scheduler's first polls ever: two accounts sign up, are  *)
(*            watched and welcomed, one more than a page and a run allow   *)
(*   silent   both polls over an account that never posted                 *)
(* The constants of the first and silent modes are those of the            *)
(* configuration; the other modes have instances of their own.             *)
(***************************************************************************)
EXTENDS ModerationWatch

CONSTANTS a1, a2, a3

ASSUME AccountsDiffer == Cardinality({a1, a2, a3}) = 3

VARIABLE mode

Overlap == INSTANCE ModerationWatch WITH
    Newcomers <- {a2, a3}, Posted <- {a1}, Followed <- {a1}, PolledBefore <- TRUE,
    StatusPage <- 1, AccountPages <- 1, BatchSize <- 1, MaxWelcomes <- 0, AutoWatch <- FALSE,
    MaxFaults <- 1, MaxClicks <- 1
Queue == INSTANCE ModerationWatch WITH
    Newcomers <- {a3}, Posted <- {a1, a2}, Followed <- {a1, a2}, PolledBefore <- TRUE,
    StatusPage <- 2, AccountPages <- 1, BatchSize <- 1, MaxWelcomes <- 0, AutoWatch <- FALSE,
    MaxFaults <- 2, MaxClicks <- 1
Greet == INSTANCE ModerationWatch WITH
    Newcomers <- {a2, a3}, Posted <- {a1}, Followed <- {}, PolledBefore <- TRUE,
    StatusPage <- 1, AccountPages <- 1, BatchSize <- 1, MaxWelcomes <- 1, AutoWatch <- FALSE,
    MaxFaults <- 1, MaxClicks <- 1

MCInit ==
    /\ mode \in {"overlap", "queue", "greet", "first", "silent"}
    /\ \/ mode = "overlap" /\ Overlap!Init
       \/ mode = "queue" /\ Queue!Init
       \/ mode = "greet" /\ Greet!Init
       \/ mode \in {"first", "silent"} /\ Init

\* What takes part in each mode.
NoSignUps == UNCHANGED signups
NoPosts == UNCHANGED posts
NoButton == poll'["now"].pc = "idle"
NoSilentScan == ~settings'.silentDue
NoWelcome == sender' = sender
InMode ==
    /\ UNCHANGED mode
    /\ mode = "overlap" => /\ NoSignUps /\ NoSilentScan /\ NoWelcome
                           /\ alerts \subseteq alerts'
                           /\ \A p \in Pollers : ~poll'[p].short /\ ~poll'[p].limited
    /\ mode = "queue" => /\ NoSignUps /\ NoSilentScan /\ NoWelcome /\ NoButton
                         /\ posts'[a1] <= 2 /\ posts'[a2] = 1
    /\ mode = "greet" => /\ NoPosts /\ NoSilentScan /\ UNCHANGED <<watch, gone>>
                         /\ alerts \subseteq alerts'
                         /\ Len(signups') <= 2
                         /\ pace' # pace => clicks' = clicks
    /\ mode = "first" => /\ NoButton /\ alerts \subseteq alerts' /\ keys \subseteq keys'
                         /\ settings'.silentDue => settings.silentDue
                         /\ posts'[a1] = 0 /\ posts'[a2] <= 1 /\ posts'[a3] = 0
    /\ mode = "silent" => NoSignUps /\ NoPosts

MCNext ==
    /\ \/ mode = "overlap" /\ Overlap!Next
       \/ mode = "queue" /\ Queue!Next
       \/ mode = "greet" /\ Greet!Next
       \/ mode \in {"first", "silent"} /\ Next
    /\ InMode

MCVars == <<mode, vars>>

\* In the modes liveness is checked in, a poll goes on, the scheduler starts the
\* next one, and a back-off ends.
PollAdvances(p) ==
    /\ UNCHANGED mode
    /\ \/ mode = "queue" /\ p = "cron" /\ Queue!Step(p)
       \/ mode = "silent" /\ Step(p)
CronStarts == mode \in {"queue", "silent"} /\ Start("cron") /\ UNCHANGED mode
BackoffEnds == mode \in {"queue", "silent"} /\ BackoffOver /\ UNCHANGED mode

MCSpec ==
    /\ MCInit /\ [][MCNext]_MCVars
    /\ \A p \in Pollers : WF_MCVars(PollAdvances(p))
    /\ WF_MCVars(CronStarts) /\ WF_MCVars(BackoffEnds)

----------------------------------------------------------------------------
\* Watches catch up however many are queued, polls end and the pace is restored
\* (_check_watched, _run_moderation_watch_poll).
PollsProgress ==
    mode \in {"queue", "silent"} => CatchesUp /\ PollsEnd /\ PaceRestored
=============================================================================
