---------------------------- MODULE ProxmoxTasks ----------------------------
(***************************************************************************)
(* The Proxmox tasks the application starts on a guest (backup, snapshot,  *)
(* rollback, clone, migration, restore) and follows: the routes and the    *)
(* assistant's tools that start one, the ProxmoxJob each gets, the thread  *)
(* that polls it (_poll_proxmox_task) and the cancel button.               *)
(*                                                                         *)
(* A job is put in _proxmox_jobs under its type and guest without a look   *)
(* at what is there, and the polling thread looks its job up there when it *)
(* first runs: a thread started for an earlier job may find a later one.   *)
(***************************************************************************)
EXTENDS Naturals, FiniteSets

CONSTANTS
    Guests,           \* the guests' ids
    Linked,           \* those with a Proxmox host and a VMID
    Stored,           \* those for which a backup storage is configured
    MaxTasks,         \* bound: the tasks ever started
    Deadline,         \* the deadline of a poller, in rounds of polling
    MaxStatusErrors,  \* status errors in a row that end the polling
    Faults            \* whether a commit of the database may raise

VARIABLES
    task,    \* each task on its node: external
    key,     \* the type and guest each task was started for
    job,     \* the ProxmoxJob made for each task
    slot,    \* _proxmox_jobs: the task whose job is kept for each key, 0 when none
    poller   \* the polling thread started for each task

vars == <<task, key, job, slot, poller>>

Ids == 1..MaxTasks
JobTypes == {"backup", "snapshot", "snapshot_delete", "rollback", "clone", "migrate", "restore"}
Keys == JobTypes \X Guests
NoKey == <<"none", "none">>

(* ProxmoxJob.__init__.  `blind' is history: the last to end the job did   *)
(* not know how the task ended.                                            *)
NoJob == [running |-> FALSE, success |-> "none", cancelRequested |-> FALSE,
          cancelled |-> FALSE, blind |-> FALSE]
NewJob == [NoJob EXCEPT !.running = TRUE]

NoPoller == [pc |-> "none", at |-> 0, rounds |-> 0, errors |-> 0]

TypeOK ==
    /\ task \in [Ids -> {"none", "running", "OK", "failed"}]
    /\ key \in [Ids -> Keys \cup {NoKey}]
    /\ job \in [Ids -> [running: BOOLEAN, success: {"none", "yes", "no"}, cancelRequested: BOOLEAN,
                        cancelled: BOOLEAN, blind: BOOLEAN]]
    /\ slot \in [Keys -> {0} \cup Ids]
    /\ poller \in [Ids -> [pc: {"none", "begin", "sleep", "status"}, at: {0} \cup Ids,
                           rounds: 0..Deadline, errors: 0..MaxStatusErrors]]

Init ==
    /\ task = [u \in Ids |-> "none"]
    /\ key = [u \in Ids |-> NoKey]
    /\ job = [u \in Ids |-> NoJob]
    /\ slot = [k \in Keys |-> 0]
    /\ poller = [u \in Ids |-> NoPoller]

-----------------------------------------------------------------------------
(* start_proxmox_job: the job replaces what the key held, and its thread   *)
(* is started.                                                             *)
StartProxmoxJob(u, k) ==
    /\ job' = [job EXCEPT ![u] = NewJob]
    /\ slot' = [slot EXCEPT ![k] = u]
    /\ poller' = [poller EXCEPT ![u] = [NoPoller EXCEPT !.pc = "begin"]]

(* A handler's common end: the node accepted the task, the audit row is    *)
(* committed and the job is started; a commit that raises leaves the task  *)
(* without a job.                                                          *)
Started(u, k) ==
    /\ task[u] = "none"
    /\ \A v \in Ids : v < u => task[v] # "none"
    /\ task' = [task EXCEPT ![u] = "running"]
    /\ key' = [key EXCEPT ![u] = k]
    /\ \/ StartProxmoxJob(u, k)
       \/ Faults /\ UNCHANGED <<job, slot, poller>>

CloneGuest(u, g) == g \in Linked /\ Started(u, <<"clone", g>>)
MigrateGuest(u, g) == g \in Linked /\ Started(u, <<"migrate", g>>)
CreateSnapshot(u, g) == g \in Linked /\ Started(u, <<"snapshot", g>>)
DeleteSnapshot(u, g) == g \in Linked /\ Started(u, <<"snapshot_delete", g>>)
RollbackSnapshot(u, g) == g \in Linked /\ Started(u, <<"rollback", g>>)
CreateBackup(u, g) == g \in Linked /\ g \in Stored /\ Started(u, <<"backup", g>>)
RestoreBackup(u, g) == g \in Linked /\ Started(u, <<"restore", g>>)

(* The assistant's manage_snapshot and manage_backup, confirmed. *)
ManageSnapshot(u, g) == CreateSnapshot(u, g) \/ DeleteSnapshot(u, g) \/ RollbackSnapshot(u, g)
ManageBackup(u, g) == CreateBackup(u, g) \/ RestoreBackup(u, g)

(* External: the task ends. *)
TaskEnds(u) ==
    /\ task[u] = "running"
    /\ \E exit \in {"OK", "failed"} : task' = [task EXCEPT ![u] = exit]
    /\ UNCHANGED <<key, job, slot, poller>>

-----------------------------------------------------------------------------
(* ProxmoxJob.finish *)
Finished(j, success, blind) ==
    [j EXCEPT !.running = FALSE, !.success = success, !.blind = blind,
              !.cancelled = @ \/ (success = "no" /\ j.cancelRequested)]

(* The poller ends the job it follows, and itself. *)
PollerEnds(p, success, blind) ==
    /\ job' = [job EXCEPT ![poller[p].at] = Finished(@, success, blind)]
    /\ poller' = [poller EXCEPT ![p] = NoPoller]
    /\ UNCHANGED <<task, key, slot>>

(* It looks its job up.  The host may be gone, or no client can be made    *)
(* for it.                                                                 *)
PollBegin(p) ==
    /\ poller[p].pc = "begin"
    /\ LET u == slot[key[p]] IN
       \/ /\ poller' = [poller EXCEPT ![p].pc = "sleep", ![p].at = u]
          /\ UNCHANGED job
       \/ /\ job' = [job EXCEPT ![u] = Finished(@, "no", TRUE)]
          /\ poller' = [poller EXCEPT ![p] = NoPoller]
    /\ UNCHANGED <<task, key, slot>>

(* The sleep without the deadline. *)
PollSleepEndless(p) ==
    /\ poller[p].pc = "sleep"
    /\ poller' = [poller EXCEPT ![p].pc = "status",
                                ![p].rounds = IF @ < Deadline THEN @ + 1 ELSE @]
    /\ UNCHANGED <<task, key, job, slot>>

(* A round: two seconds pass; the deadline ends the polling, otherwise the *)
(* new lines of the log are fetched, errors there being ignored.           *)
PollSleep(p) ==
    /\ poller[p].pc = "sleep"
    /\ IF poller[p].rounds >= Deadline
       THEN PollerEnds(p, "no", TRUE)
       ELSE /\ poller' = [poller EXCEPT ![p].pc = "status", ![p].rounds = @ + 1]
            /\ UNCHANGED <<task, key, job, slot>>

(* The status: of a task that runs, ... *)
PollRunning(p) ==
    /\ poller[p].pc = "status"
    /\ task[poller[p].at] = "running"
    /\ poller' = [poller EXCEPT ![p].pc = "sleep", ![p].errors = 0]
    /\ UNCHANGED <<task, key, job, slot>>

(* ... of one that is stopped, taken for a success whatever its exit, ... *)
PollStoppedUnread(p) ==
    /\ poller[p].pc = "status"
    /\ task[poller[p].at] \in {"OK", "failed"}
    /\ PollerEnds(p, "yes", FALSE)

(* ... of one that is stopped, with its exit status, ... *)
PollStopped(p) ==
    /\ poller[p].pc = "status"
    /\ task[poller[p].at] \in {"OK", "failed"}
    /\ PollerEnds(p, IF task[poller[p].at] = "OK" THEN "yes" ELSE "no", FALSE)

(* ... or an error: the node does not answer, or no longer knows the task. *)
PollError(p) ==
    /\ poller[p].pc = "status"
    /\ IF poller[p].errors + 1 >= MaxStatusErrors
       THEN PollerEnds(p, "no", TRUE)
       ELSE /\ poller' = [poller EXCEPT ![p].pc = "sleep", ![p].errors = @ + 1]
            /\ UNCHANGED <<task, key, job, slot>>

-----------------------------------------------------------------------------
(* task_cancel: the job in the slot is marked before the node is asked to  *)
(* stop the task; whether that call works, the task's end tells.           *)
TaskCancel(k) ==
    /\ slot[k] # 0
    /\ job[slot[k]].running
    /\ ~job[slot[k]].cancelRequested
    /\ job' = [job EXCEPT ![slot[k]].cancelRequested = TRUE]
    /\ UNCHANGED <<task, key, slot, poller>>

Poll(p) == PollBegin(p) \/ PollSleep(p) \/ PollRunning(p) \/ PollStopped(p) \/ PollError(p)

Next ==
    \/ \E u \in Ids, g \in Guests :
          \/ CloneGuest(u, g) \/ MigrateGuest(u, g)
          \/ ManageSnapshot(u, g) \/ ManageBackup(u, g)
    \/ \E u \in Ids : TaskEnds(u) \/ Poll(u)
    \/ \E k \in Keys : TaskCancel(k)

Spec == Init /\ [][Next]_vars

(* A polling thread goes on: its calls time out.  Tasks need not end. *)
FairSpec == Spec /\ \A p \in Ids : WF_vars(Poll(p))

-----------------------------------------------------------------------------
(* What a job shows is how its task ended, whichever threads polled it: a  *)
(* success is the node's own "OK", a failure either the node's or one      *)
(* the poller declared for want of an answer, and "cancelled" was asked    *)
(* for by a user and is never shown before the end (ProxmoxJob.finish,     *)
(* _poll_proxmox_task).                                                    *)
OutcomeTrue ==
    \A u \in Ids :
        /\ job[u].success = "yes" => task[u] = "OK"
        /\ job[u].success = "no" => job[u].blind \/ task[u] = "failed"
        /\ job[u].cancelled => job[u].cancelRequested /\ ~job[u].running
        /\ job[u].running <=> job[u].success = "none" /\ job[u] # NoJob

(* The job of the task is the one the pages of its key show. *)
Shown(u) == key[u] # NoKey /\ slot[key[u]] = u

(* The job a page shows as running has a thread that will end it: one that *)
(* follows it, or one that has yet to look it up (start_proxmox_job,       *)
(* _poll_proxmox_task).                                                    *)
RunningIsPolled ==
    \A u \in Ids : Shown(u) /\ job[u].running =>
        \E p \in Ids : \/ poller[p].pc \in {"sleep", "status"} /\ poller[p].at = u
                       \/ poller[p].pc = "begin" /\ key[p] = key[u]

(* "A task that never reports `stopped' must not pin this thread forever"  *)
(* (routes/api.py, 1033-1034): every thread ends, and with it every job a  *)
(* page shows, whether or not the task or the node ever answers.           *)
PollingEnds ==
    /\ \A p \in Ids : poller[p].pc # "none" ~> poller[p].pc = "none"
    /\ \A u \in Ids : (Shown(u) /\ job[u].running) ~> (~Shown(u) \/ ~job[u].running)

-----------------------------------------------------------------------------
(* What OutcomeTrue and RunningIsPolled rest on.  A job is made once, with *)
(* its task;                                                               *)
JobsHaveTasks ==
    /\ \A u \in Ids : task[u] = "none" => job[u] = NoJob /\ poller[u] = NoPoller
    /\ \A k \in Keys : slot[k] # 0 => task[slot[k]] # "none" /\ job[slot[k]] # NoJob

(* a thread that has yet to look its job up will find one, and one that    *)
(* has follows a job that was started.                                     *)
PollersFollow ==
    \A p \in Ids :
        /\ poller[p].pc = "begin" => key[p] \in Keys /\ slot[key[p]] # 0
        /\ poller[p].pc \in {"sleep", "status"} =>
               /\ poller[p].at # 0
               /\ task[poller[p].at] # "none" /\ job[poller[p].at] # NoJob

IInv == TypeOK /\ JobsHaveTasks /\ PollersFollow /\ OutcomeTrue /\ RunningIsPolled
=============================================================================
