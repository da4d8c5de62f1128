---------------------------- MODULE UpgradeJobs ----------------------------
(***************************************************************************)
(* Background jobs of the application blueprints.                          *)
(*                                                                         *)
(* An operator's POST starts a job in a background greenlet (or a thread,  *)
(* where gevent is not installed); the scheduler's release check may start *)
(* an upgrade of the same application on its own.  Both drive the same     *)
(* remote host.  Three pieces of state keep them apart: the in-memory job  *)
(* trackers of the blueprint (JobTracker), the process-wide upgrade lock   *)
(* of the application, and the <app>_installed setting.  What a job did is *)
(* kept in the <app>_last_* settings.                                      *)
(*                                                                         *)
(* With gevent a request handler that does no network I/O runs without     *)
(* being preempted, so its checks and its updates are one step; with       *)
(* threads another handler can run between them.  Which of the two, and     *)
(* whether the database answers every handler, is the setting, chosen when *)
(* the process is deployed.                                                *)
(***************************************************************************)
EXTENDS Integers, FiniteSets

CONSTANTS
    Apps,         \* the applications
    Kinds,        \* the kinds of job a blueprint may offer
    Threads,      \* background greenlets, and the scheduler's pool threads
    Routes,       \* Routes[a][k]: the guard of job k, see AppRoutes
    Checks,       \* Checks[a]: the scheduled release check of a, if any
    Detects,      \* Detects[a]: what detect-versions may write
    SelfRecorded, \* applications whose upgrade records its own success
    Settings,     \* the settings considered, see setting
    MaxRuns       \* bound on the number of jobs started per application

ASSUME KindsAssumption == "upgrade" \in Kinds /\ "install" \in Kinds
ASSUME RoutesAssumption ==
    \A a \in Apps : \A k \in DOMAIN Routes[a] :
        /\ k \in Kinds
        /\ Routes[a][k].refused \subseteq DOMAIN Routes[a]
        /\ Routes[a][k].locked \in BOOLEAN
        /\ Routes[a][k].needsInstalled \in BOOLEAN
        /\ Routes[a][k].stores \in BOOLEAN
ASSUME ChecksAssumption ==
    /\ DOMAIN Checks \subseteq Apps
    /\ \A a \in DOMAIN Checks : /\ "upgrade" \in DOMAIN Routes[a]
                                /\ Checks[a].locked \in BOOLEAN
\* only an upgrade takes the upgrade lock
ASSUME LockedAssumption ==
    \A a \in Apps : \A k \in DOMAIN Routes[a] : Routes[a][k].locked => k = "upgrade"
ASSUME DetectsAssumption == \A a \in Apps : Detects[a] \subseteq BOOLEAN
\* gevent   handlers are not interrupted, the database always answers
\* faults   as gevent, but a database call of a handler may raise
\* threads  handlers are interrupted anywhere
ASSUME SettingsAssumption == Settings \subseteq {"gevent", "faults", "threads"}
\* no job runs twice at once: its handler looks at its own tracker, or the lock
\* keeps a second one out
ASSUME SelfRefusalAssumption ==
    \A a \in Apps : \A k \in DOMAIN Routes[a] :
        k \in Routes[a][k].refused \/ Routes[a][k].locked
ASSUME MaxRunsAssumption == MaxRuns \in Nat

VARIABLES
    setting,    \* how the process was deployed; never changes
    lock,       \* lock[a]: the threading.Lock in _UPGRADE_LOCKS is held
    job,        \* job[a][k]: the JobTracker of the blueprint
    pc,         \* where each background thread is
    task,       \* task[t]: the job it carries out
    installed,  \* installed[a]: Setting <app>_installed is "true"
    last,       \* last[a][k]: the <app>_last_<kind>_* settings
    runs        \* runs[a]: number of jobs started so far

vars == <<setting, lock, job, pc, task, installed, last, runs>>

Cooperative == setting # "threads"
DbFaults == setting = "faults"

(***************************************************************************)
(* A tracker holds the log of the run that last reset it.  A stored record *)
(* holds the run whose status was written and the run whose log was.       *)
(***************************************************************************)
Tracker == [running : BOOLEAN, success : {"none", "ok", "failed"}, run : 0..MaxRuns]
NewTracker == [running |-> FALSE, success |-> "none", run |-> 0]
Record == [run : 0..MaxRuns, log : 0..MaxRuns]
NoRecord == [run |-> 0, log |-> 0]
Task == [app : Apps, kind : Kinds, run : 0..MaxRuns, ok : BOOLEAN]
NoTask == [app |-> "none", kind |-> "none", run |-> 0, ok |-> FALSE]

ManualPcs == {"spawned", "working", "ended", "halfway", "stored"}
AutoPcs == {"auto_started", "auto_working", "auto_released", "auto_halfway"}

Init ==
    /\ setting \in Settings
    /\ lock = [a \in Apps |-> FALSE]
    /\ job = [a \in Apps |-> [k \in DOMAIN Routes[a] |-> NewTracker]]
    /\ pc = [t \in Threads |-> "idle"]
    /\ task = [t \in Threads |-> NoTask]
    /\ installed = [a \in Apps |-> FALSE]
    /\ last = [a \in Apps |-> [k \in DOMAIN Routes[a] |-> NoRecord]]
    /\ runs = [a \in Apps |-> 0]

Outcome(ok) == IF ok THEN "ok" ELSE "failed"
RouteOf(t) == Routes[task[t].app][task[t].kind]

\* A record is two settings, each a commit of its own: the status, then the log.
StatusSet(a, k, r) == [last EXCEPT ![a][k].run = r]
LogSet(a, k, r) == [last EXCEPT ![a][k].log = r]
BothSet(a, k, r) == [last EXCEPT ![a][k] = [run |-> r, log |-> r]]
\* What is left of the record of an upgrade whose commits may raise one by one.
Records(t, whole) ==
    LET a == task[t].app
        r == task[t].run
    IN  {BothSet(a, "upgrade", r)} \cup
            (IF whole THEN {} ELSE {last, StatusSet(a, "upgrade", r)})
Finish(t) == pc' = [pc EXCEPT ![t] = "idle"] /\ task' = [task EXCEPT ![t] = NoTask]

----------------------------------------------------------------------------
(* The request handlers. *)

\* variant: a handler that looks at its own tracker only
AllowedOwnOnly(a, k) ==
    /\ Routes[a][k].needsInstalled => installed[a]
    /\ ~job[a][k].running

\* the early returns: a running tracker, or an application not installed
Allowed(a, k) ==
    /\ Routes[a][k].needsInstalled => installed[a]
    /\ \A r \in Routes[a][k].refused : ~job[a][r].running

\* variant: the result of acquire_upgrade_lock is ignored
LaunchIgnoringLock(t, a, k) ==
    /\ runs[a] < MaxRuns
    /\ lock' = [lock EXCEPT ![a] = @ \/ Routes[a][k].locked]
    /\ runs' = [runs EXCEPT ![a] = @ + 1]
    /\ job' = [job EXCEPT ![a][k] =
                  [running |-> TRUE, success |-> "none", run |-> runs[a] + 1]]
    /\ pc' = [pc EXCEPT ![t] = "spawned"]
    /\ task' = [task EXCEPT ![t] =
                  [app |-> a, kind |-> k, run |-> runs[a] + 1, ok |-> FALSE]]
    /\ UNCHANGED <<installed, last>>

\* acquire_upgrade_lock (upgrades only), reset of the tracker, spawn
Launch(t, a, k) ==
    /\ runs[a] < MaxRuns
    /\ Routes[a][k].locked => ~lock[a]
    /\ lock' = [lock EXCEPT ![a] = @ \/ Routes[a][k].locked]
    /\ runs' = [runs EXCEPT ![a] = @ + 1]
    /\ job' = [job EXCEPT ![a][k] =
                  [running |-> TRUE, success |-> "none", run |-> runs[a] + 1]]
    /\ pc' = [pc EXCEPT ![t] = "spawned"]
    /\ task' = [task EXCEPT ![t] =
                  [app |-> a, kind |-> k, run |-> runs[a] + 1, ok |-> FALSE]]
    /\ UNCHANGED <<installed, last>>

\* a handler that runs without a switch from its checks to the spawn
StartJob(t, a, k) ==
    /\ Cooperative
    /\ pc[t] = "idle"
    /\ Allowed(a, k)
    /\ Launch(t, a, k)

\* the same handler on a preemptive thread: first its checks ...
CheckJob(t, a, k) ==
    /\ ~Cooperative
    /\ pc[t] = "idle"
    /\ runs[a] < MaxRuns
    /\ Allowed(a, k)
    /\ pc' = [pc EXCEPT ![t] = "checked"]
    /\ task' = [task EXCEPT ![t] = [app |-> a, kind |-> k, run |-> 0, ok |-> FALSE]]
    /\ UNCHANGED <<lock, job, installed, last, runs>>

\* ... then the lock, the tracker and the spawn ...
CommitJob(t) ==
    /\ pc[t] = "checked"
    /\ Launch(t, task[t].app, task[t].kind)

\* ... or "already in progress", when the lock was not free (MaxRuns: bound)
TurnedAway(t) ==
    /\ pc[t] = "checked"
    /\ \/ RouteOf(t).locked /\ lock[task[t].app]
       \/ runs[task[t].app] = MaxRuns
    /\ Finish(t)
    /\ UNCHANGED <<lock, job, installed, last, runs>>

\* An upgrade handler reads the database between taking the lock and spawning
\* the job: current_user.is_super_admin, before it resets the tracker, and
\* Setting.get("<app>_latest_version"), after.  An exception there ends the
\* request with the lock taken and nothing spawned.
HandlerRaises(a, k) ==
    /\ DbFaults
    /\ Routes[a][k].locked
    /\ ~lock[a]
    /\ Allowed(a, k)
    /\ lock' = [lock EXCEPT ![a] = TRUE]
    /\ job' \in {job, [job EXCEPT ![a][k] =
                          [running |-> TRUE, success |-> "none", run |-> job[a][k].run]]}
    /\ UNCHANGED <<pc, task, installed, last, runs>>

----------------------------------------------------------------------------
(* The background job of a handler: _bg, inside _bg_locked for upgrades. *)

\* send_upgrade_started_notification returned; run_<app>_<kind> begins
BeginWork(t) ==
    /\ pc[t] = "spawned"
    /\ pc' = [pc EXCEPT ![t] = "working"]
    /\ UNCHANGED <<lock, job, task, installed, last, runs>>

\* variant: the lock is released with the tracker, before the record is stored
EndWorkUnlocking(t, ok) ==
    LET a == task[t].app
        k == task[t].kind
    IN  /\ pc[t] = "working" \/ (pc[t] = "spawned" /\ ~ok)
        /\ job' = [job EXCEPT ![a][k] = [@ EXCEPT !.running = FALSE, !.success = Outcome(ok)]]
        /\ pc' = [pc EXCEPT ![t] = "ended"]
        /\ task' = [task EXCEPT ![t].ok = ok]
        /\ lock' = [lock EXCEPT ![a] = @ /\ ~RouteOf(t).locked]
        /\ UNCHANGED <<installed, last, runs>>

\* variant: an exception outside run_<app>_<kind> leaves "running" set
EndWorkForgetting(t, ok) ==
    LET a == task[t].app
        k == task[t].kind
    IN  /\ pc[t] = "working" \/ (pc[t] = "spawned" /\ ~ok)
        /\ job' = [job EXCEPT ![a][k] = [@ EXCEPT !.running = (pc[t] = "spawned"),
                                                 !.success = Outcome(ok)]]
        /\ pc' = [pc EXCEPT ![t] = "ended"]
        /\ task' = [task EXCEPT ![t].ok = ok]
        /\ UNCHANGED <<lock, installed, last, runs>>

\* The record run_mastodon_upgrade writes at its end; when one of its commits
\* raises, the run has failed and those before it stay.
OwnRecords(t, ok) ==
    IF task[t].app \in SelfRecorded /\ task[t].kind = "upgrade" THEN Records(t, ok) ELSE {last}

\* run_<app>_<kind> returned or raised (ok FALSE), or the notification before
\* it raised: running is cleared and the outcome published.  A successful
\* install has set <app>_installed.
EndWork(t, ok) ==
    LET a == task[t].app
        k == task[t].kind
    IN  /\ pc[t] = "working" \/ (pc[t] = "spawned" /\ ~ok)
        /\ job' = [job EXCEPT ![a][k] = [@ EXCEPT !.running = FALSE, !.success = Outcome(ok)]]
        /\ pc' = [pc EXCEPT ![t] = "ended"]
        /\ task' = [task EXCEPT ![t].ok = ok]
        /\ installed' = [installed EXCEPT ![a] = @ \/ (k = "install" /\ ok)]
        /\ last' \in IF pc[t] = "working" THEN OwnRecords(t, ok) ELSE {last}
        /\ UNCHANGED <<lock, runs>>

\* the last_* settings, each committed by Setting.set: the status is this run's ...
StoreStatus(t) ==
    /\ pc[t] = "ended"
    /\ last' = IF RouteOf(t).stores THEN StatusSet(task[t].app, task[t].kind, task[t].run) ELSE last
    /\ pc' = [pc EXCEPT ![t] = "halfway"]
    /\ UNCHANGED <<lock, job, task, installed, runs>>

\* ... the log is whatever the tracker holds by now
StoreLog(t) ==
    LET a == task[t].app
        k == task[t].kind
    IN  /\ pc[t] = "halfway"
        /\ last' = IF RouteOf(t).stores THEN LogSet(a, k, job[a][k].run) ELSE last
        /\ installed' = [installed EXCEPT ![a] = @ \/ (k = "install" /\ task[t].ok)]
        /\ pc' = [pc EXCEPT ![t] = "stored"]
        /\ UNCHANGED <<lock, job, task, runs>>

\* a database call raised before the record was written, or between its parts
StoreRaises(t) ==
    /\ pc[t] \in {"ended", "halfway"}
    /\ pc' = [pc EXCEPT ![t] = "stored"]
    /\ UNCHANGED <<lock, job, task, installed, last, runs>>

\* variant: no finally block, a failed upgrade keeps the lock
EndThreadOnSuccess(t) ==
    /\ pc[t] = "stored"
    /\ lock' = [lock EXCEPT ![task[t].app] = @ /\ ~(RouteOf(t).locked /\ task[t].ok)]
    /\ Finish(t)
    /\ UNCHANGED <<job, installed, last, runs>>

\* the finally block of _bg_locked; other jobs simply end
EndThread(t) ==
    /\ pc[t] = "stored"
    /\ IF RouteOf(t).locked
       THEN /\ lock' = [lock EXCEPT ![task[t].app] = FALSE]
            /\ job' = [job EXCEPT ![task[t].app][task[t].kind].running = FALSE]
       ELSE UNCHANGED <<lock, job>>
    /\ Finish(t)
    /\ UNCHANGED <<installed, last, runs>>

----------------------------------------------------------------------------
(* The scheduler's release check with auto-upgrade. *)

\* the release check found an update; APScheduler's max_instances = 1 keeps
\* a second run of the same check out; upgrade_lock for the locked ones
StartAuto(t, a) ==
    /\ pc[t] = "idle"
    /\ a \in DOMAIN Checks
    /\ runs[a] < MaxRuns
    /\ \A u \in Threads : pc[u] \in AutoPcs => task[u].app # a
    /\ Checks[a].needsInstalled => installed[a]
    /\ Checks[a].locked => ~lock[a]
    /\ lock' = [lock EXCEPT ![a] = @ \/ Checks[a].locked]
    /\ runs' = [runs EXCEPT ![a] = @ + 1]
    /\ pc' = [pc EXCEPT ![t] = "auto_started"]
    /\ task' = [task EXCEPT ![t] =
                  [app |-> a, kind |-> "upgrade", run |-> runs[a] + 1, ok |-> FALSE]]
    /\ UNCHANGED <<job, installed, last>>

\* the started notification was sent and run_<app>_upgrade begins
AutoBegin(t) ==
    /\ pc[t] = "auto_started"
    /\ pc' = [pc EXCEPT ![t] = "auto_working"]
    /\ UNCHANGED <<lock, job, task, installed, last, runs>>

\* leaving "with upgrade_lock(...)"
AutoUnlock(t) ==
    lock' = IF Checks[task[t].app].locked
            THEN [lock EXCEPT ![task[t].app] = FALSE] ELSE lock

\* the started notification raised: the job ends through the context manager
AutoRaises(t) ==
    /\ pc[t] = "auto_started"
    /\ AutoUnlock(t)
    /\ Finish(t)
    /\ UNCHANGED <<job, installed, last, runs>>

\* what the release check's commits leave: all of the record, or what was
\* written before one of them raised
AutoRecords(t, ok) == Records(t, ok /\ task[t].app \in SelfRecorded)

\* run_<app>_upgrade returned or raised; the lock is released first and the
\* record written after it, without a switch in between under gevent
AutoEnd(t, ok) ==
    LET a == task[t].app
    IN  /\ pc[t] = "auto_working"
        /\ AutoUnlock(t)
        /\ \/ /\ Checks[a].stores
              /\ Cooperative
              /\ last' \in AutoRecords(t, ok)
              /\ Finish(t)
           \/ /\ Checks[a].stores
              /\ ~Cooperative
              /\ last' \in OwnRecords(t, ok)
              /\ pc' = [pc EXCEPT ![t] = "auto_released"]
              /\ UNCHANGED task
           \/ /\ ~Checks[a].stores
              /\ last' = last
              /\ Finish(t)
        /\ UNCHANGED <<job, installed, runs>>

\* on a thread of its own the record is written commit by commit
AutoStoreStatus(t) ==
    /\ pc[t] = "auto_released"
    /\ last' = StatusSet(task[t].app, "upgrade", task[t].run)
    /\ pc' = [pc EXCEPT ![t] = "auto_halfway"]
    /\ UNCHANGED <<lock, job, task, installed, runs>>

AutoStoreLog(t) ==
    /\ pc[t] = "auto_halfway"
    /\ last' = LogSet(task[t].app, "upgrade", task[t].run)
    /\ Finish(t)
    /\ UNCHANGED <<lock, job, installed, runs>>

AutoStoreRaises(t) ==
    /\ pc[t] \in {"auto_released", "auto_halfway"}
    /\ Finish(t)
    /\ UNCHANGED <<lock, job, installed, last, runs>>

----------------------------------------------------------------------------
(* Everything else that touches this state. *)

\* POST detect-versions
DetectVersions(a) ==
    /\ \E found \in Detects[a] : installed' = [installed EXCEPT ![a] = found]
    /\ UNCHANGED <<lock, job, pc, task, last, runs>>

\* The process restarts: trackers, locks and threads are gone, settings stay.
\* Between two commits of a record that is a commit that raises, then this.
Restart ==
    /\ lock' = [a \in Apps |-> FALSE]
    /\ job' = [a \in Apps |-> [k \in DOMAIN Routes[a] |-> NewTracker]]
    /\ pc' = [t \in Threads |-> "idle"]
    /\ task' = [t \in Threads |-> NoTask]
    /\ UNCHANGED <<installed, last, runs>>

ThreadStep(t) ==
    \/ CommitJob(t) \/ TurnedAway(t)
    \/ BeginWork(t) \/ StoreStatus(t) \/ StoreLog(t) \/ StoreRaises(t) \/ EndThread(t)
    \/ AutoBegin(t) \/ AutoRaises(t)
    \/ AutoStoreStatus(t) \/ AutoStoreLog(t) \/ AutoStoreRaises(t)
    \/ \E ok \in BOOLEAN : EndWork(t, ok) \/ AutoEnd(t, ok)

Next ==
    /\ \/ \E t \in Threads : ThreadStep(t)
       \/ \E t \in Threads, a \in Apps :
             \/ StartAuto(t, a)
             \/ \E k \in DOMAIN Routes[a] : StartJob(t, a, k) \/ CheckJob(t, a, k)
       \/ \E a \in Apps : \E k \in DOMAIN Routes[a] : HandlerRaises(a, k)
       \/ \E a \in Apps : DetectVersions(a)
       \/ Restart
    /\ UNCHANGED setting

\* Every remote command and every notification has a timeout, so a thread that
\* was started goes on; nobody is obliged to start one.
Fairness == \A t \in Threads : WF_vars(ThreadStep(t) /\ UNCHANGED setting)

Spec == Init /\ [][Next]_vars
FairSpec == Spec /\ Fairness

----------------------------------------------------------------------------
(* Properties. *)

\* Type correctness of the trackers, the lock and the stored records.
TypeOK ==
    /\ setting \in Settings
    /\ lock \in [Apps -> BOOLEAN]
    /\ DOMAIN job = Apps
    /\ \A a \in Apps : job[a] \in [DOMAIN Routes[a] -> Tracker]
    /\ pc \in [Threads -> {"idle", "checked"} \cup ManualPcs \cup AutoPcs]
    /\ task \in [Threads -> Task \cup {NoTask}]
    /\ \A t \in Threads :
          pc[t] # "idle" => /\ task[t] \in Task
                            /\ task[t].kind \in DOMAIN Routes[task[t].app]
    /\ installed \in [Apps -> BOOLEAN]
    /\ DOMAIN last = Apps
    /\ \A a \in Apps : last[a] \in [DOMAIN Routes[a] -> Record]
    /\ runs \in [Apps -> 0..MaxRuns]

\* the thread owns the upgrade lock of its application
Holds(t) ==
    \/ pc[t] \in ManualPcs /\ RouteOf(t).locked
    \/ pc[t] \in {"auto_started", "auto_working"} /\ Checks[task[t].app].locked

\* the thread is driving the remote host, or about to
OnHost(t) == pc[t] \in {"spawned", "working", "auto_started", "auto_working"}

\* The lock is what its comment says: whoever owns it has it marked taken, and
\* no two threads own the lock of one application (apps/utils.py,
\* acquire_upgrade_lock and upgrade_lock).
LockDiscipline ==
    /\ \A t \in Threads : Holds(t) => lock[task[t].app]
    /\ \A t, u \in Threads :
          Holds(t) /\ Holds(u) /\ task[t].app = task[u].app => t = u

\* The inductive invariant: types and the discipline of the lock.
IInv == TypeOK /\ LockDiscipline

\* an upgrade path that takes the lock
Upgrading(t) == OnHost(t) /\ task[t].kind = "upgrade"

\* The comment above the lock: manual upgrades and scheduled auto-upgrades
\* drive the same host and never run concurrently.
UpgradesExclusive ==
    \A t, u \in Threads :
        Upgrading(t) /\ Upgrading(u) /\ task[t].app = task[u].app => t = u

\* the handler and the release check of the application both take the lock
Guarded(a) ==
    /\ "upgrade" \in DOMAIN Routes[a] /\ Routes[a]["upgrade"].locked
    /\ a \in DOMAIN Checks /\ Checks[a].locked

\* who upgrades the hosts of those applications
Upgraders ==
    {<<t, task[t].app>> : t \in {u \in Threads : Upgrading(u) /\ Guarded(task[u].app)}}

Serial == INSTANCE OneAtATime WITH
    Workers <- Threads, Hosts <- Apps, at <- Upgraders

\* The handlers, the background jobs, the release check and the restart of the
\* process implement the promise of the lock for the applications whose two
\* upgrade paths take it: one upgrade at a time, and a new one only once the
\* one before has left the host (apps/utils.py, upgrade_lock).
UpgradesSerialized == Serial!Spec

\* the job of a handler is under way, as its tracker has it
Underway(t) == pc[t] \in {"spawned", "working"}

\* Two jobs whose handlers refuse each other never drive the host together,
\* whatever was started, finished or restarted before.
RefusalRespected ==
    \A t, u \in Threads :
        /\ t # u /\ Underway(t) /\ Underway(u) /\ task[t].app = task[u].app
        => ~ (task[t].kind \in RouteOf(u).refused /\ task[u].kind \in RouteOf(t).refused)

\* Where a handler is not interrupted, jobs whose handlers refuse one another
\* never overlap, even if a database call of a handler raises (the early
\* returns of the handlers in routes/<app>.py).
RefusalsWork == Cooperative => RefusalRespected

\* The page polls the tracker: it shows "running" exactly while a job of that
\* kind is under way, and an outcome only of a job that ended.
TrackerTruthful ==
    \A a \in Apps : \A k \in DOMAIN Routes[a] :
        /\ job[a][k].running <=>
              \E t \in Threads : Underway(t) /\ task[t].app = a /\ task[t].kind = k
        /\ job[a][k].success # "none" => ~job[a][k].running

\* The tracker that the page polls is right where handlers are not interrupted
\* and the database answers (JobTracker and its users).
TrackersTruthful == setting = "gevent" => TrackerTruthful

\* A step on the record of an application's upgrades: neither part gets older,
\* and the log, which is written last, is put beside the status of its own run.
RecordAdvances(a) ==
    LET old == last[a]["upgrade"]
        new == last'[a]["upgrade"]
    IN  /\ new.run >= old.run /\ new.log >= old.log /\ new.run >= new.log
        /\ new.log # old.log => new.log = new.run

\* With gevent the stored record of an upgrade never goes back to an older run,
\* and no log is stored beside the status of another run, whichever commit
\* raises and whenever the process restarts (the last_* settings of _bg and of
\* the release checks).
RecordsAdvance == [][Cooperative => \A a \in Apps : Guarded(a) => RecordAdvances(a)]_vars

(***************************************************************************)
(* What these three rest on.                                               *)
(***************************************************************************)

\* handlers and release checks are never found between two of their steps
NoSwitch == \A t \in Threads : pc[t] \notin {"checked", "auto_released", "auto_halfway"}

\* a job that is under way has its tracker marked, and no job runs twice
JobsMarked ==
    \A t \in Threads : Underway(t) => job[task[t].app][task[t].kind].running
JobsSingle ==
    \A t, u \in Threads :
        Underway(t) /\ Underway(u) /\ task[t].app = task[u].app /\ task[t].kind = task[u].kind
            => t = u

\* run numbers of guarded upgrades: a stored one belongs to a run that started,
\* the owner of the lock has the newest, its tracker holds its log, and half
\* way through its record the status is its own
RecordsOrdered ==
    \A a \in Apps : Guarded(a) =>
        /\ last[a]["upgrade"].run <= runs[a]
        /\ last[a]["upgrade"].log <= last[a]["upgrade"].run
        /\ \A t \in Threads :
              Holds(t) /\ task[t].app = a =>
                  /\ last[a]["upgrade"].run <= task[t].run /\ task[t].run <= runs[a]
                  /\ pc[t] \in ManualPcs => job[a]["upgrade"].run = task[t].run
                  /\ pc[t] = "halfway" /\ Routes[a]["upgrade"].stores =>
                        last[a]["upgrade"].run = task[t].run

\* the inductive invariant of the two cooperative settings
CoopInv ==
    /\ IInv
    /\ Cooperative =>
          NoSwitch /\ JobsMarked /\ JobsSingle /\ RefusalRespected /\ RecordsOrdered
    /\ TrackersTruthful
=============================================================================
