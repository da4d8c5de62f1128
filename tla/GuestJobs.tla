------------------------------ MODULE GuestJobs ------------------------------
(***************************************************************************)
(* The update jobs of guests (routes/api.py): `apply' starts one guest's   *)
(* update, `apply_all' starts the orchestrator that updates several guests *)
(* one after another, `update_cancel' asks a job to stop, and              *)
(* _run_update_background is the worker both of them run.                  *)
(*                                                                         *)
(* What the code shares between threads is kept as it is: the dictionary   *)
(* _update_jobs is `slot', its values are references to job objects        *)
(* (members of JobIds), and the single _bulk_update record is `bulk'.      *)
(* Every action is what a thread does between two points at which another  *)
(* one may run: a remote command, a notification, an SSH connection being  *)
(* closed, or a database commit.                                           *)
(***************************************************************************)
EXTENDS Naturals, FiniteSets

CONSTANTS
    Guests,       \* the guests' ids
    AgentGuests,  \* the guests that also have a QEMU agent to fall back on
    Requests,     \* threads that serve `apply' and then run its worker
    Bulks,        \* threads that serve `apply_all' and then orchestrate
    MaxJobs,      \* job objects alive at once; an object nobody refers to is collected
    Faults        \* whether a query or a commit of the database may raise

VARIABLES
    jobs,   \* the UpdateJob objects
    slot,   \* _update_jobs: the job of each guest, 0 when there is none
    bulk,   \* _bulk_update: running, done, items
    thr     \* each thread's program counter, guest, job and remaining guests

vars == <<jobs, slot, bulk, thr>>

Threads == Requests \cup Bulks

JobIds == 1..MaxJobs

NoGuest == "none"

(* UpdateJob.__init__ *)
NewJob == [running |-> TRUE, success |-> "none", cancel |-> FALSE, cancelled |-> FALSE]

(* What is left of an object nobody refers to. *)
Collected == [running |-> FALSE, success |-> "none", cancel |-> FALSE, cancelled |-> FALSE]

Outcomes == {"none", "yes", "no"}
ItemStates == {"absent", "pending", "running", "skipped", "success", "failed"}
Settled == {"skipped", "success", "failed"}

(* The program counters at which a worker is inside _run_update_background *)
(* and may have a command running on the guest.                            *)
AtWork == {"begin", "lists", "upgrade", "agent", "record", "notify"}

Counters == AtWork \cup {"idle", "reserved", "closing", "loop", "gate"}

TypeOK ==
    /\ jobs \in [JobIds -> [running: BOOLEAN, success: Outcomes, cancel: BOOLEAN, cancelled: BOOLEAN]]
    /\ slot \in [Guests -> 0..MaxJobs]
    /\ bulk \in [running: BOOLEAN, done: 0..Cardinality(Guests), items: [Guests -> ItemStates]]
    /\ thr \in [Threads -> [pc: Counters, g: Guests \cup {NoGuest}, job: 0..MaxJobs,
                            agent: BOOLEAN, todo: SUBSET Guests]]

Idle == [pc |-> "idle", g |-> NoGuest, job |-> 0, agent |-> FALSE, todo |-> {}]

Init ==
    /\ jobs = [j \in JobIds |-> Collected]
    /\ slot = [g \in Guests |-> 0]
    /\ bulk = [running |-> FALSE, done |-> 0, items |-> [g \in Guests |-> "absent"]]
    /\ thr = [t \in Threads |-> Idle]

-----------------------------------------------------------------------------
(* `existing and existing.running' *)
InFlight(g) == slot[g] # 0 /\ jobs[slot[g]].running

(* UpdateJob.finish *)
Finished(job, ok) ==
    [job EXCEPT !.running = FALSE,
                !.success = IF ok THEN "yes" ELSE "no",
                !.cancelled = @ \/ (~ok /\ job.cancel)]

(* Put a fresh job in the guest's slot, in the place of the one there. *)
Reserve(g) ==
    LET others == {slot[h] : h \in Guests \ {g}} \cup {thr[t].job : t \in Threads}
        new == CHOOSE j \in JobIds : j \notin others
    IN  /\ jobs' = [j \in JobIds |-> IF j = new THEN NewJob
                                     ELSE IF j \in others THEN jobs[j] ELSE Collected]
        /\ slot' = [slot EXCEPT ![g] = new]

Goto(t, pc) == thr' = [thr EXCEPT ![t].pc = pc]

(* The worker ends its own job and leaves: the SSH connection and the      *)
(* application context are still to be closed.                             *)
Finish(t, ok) ==
    /\ jobs' = [jobs EXCEPT ![thr[t].job] = Finished(@, ok)]
    /\ Goto(t, "closing")
    /\ UNCHANGED <<slot, bulk>>

-----------------------------------------------------------------------------
(* `apply' as it would be without the check. *)
ApplyUnchecked(t, g) ==
    /\ thr[t].pc = "idle"
    /\ Reserve(g)
    /\ thr' = [thr EXCEPT ![t] = [Idle EXCEPT !.pc = "reserved", !.g = g]]
    /\ UNCHANGED bulk

(* `apply': the check and the reservation happen under one hold of         *)
(* _jobs_lock; a running job turns the request away.  The snapshot gate    *)
(* before them only decides whether the handler gets here.                 *)
Apply(t, g) ==
    /\ thr[t].pc = "idle"
    /\ ~InFlight(g)
    /\ Reserve(g)
    /\ thr' = [thr EXCEPT ![t] = [Idle EXCEPT !.pc = "reserved", !.g = g]]
    /\ UNCHANGED bulk

(* `apply_all': the authoritative check and the reservation of the bulk    *)
(* slot, again under one hold.  The guests are those with pending updates  *)
(* that the user may act on: any of them.                                  *)
ApplyAll(t, targets) ==
    /\ thr[t].pc = "idle"
    /\ ~bulk.running
    /\ bulk' = [running |-> TRUE, done |-> 0,
                items |-> [g \in Guests |-> IF g \in targets THEN "pending" ELSE "absent"]]
    /\ thr' = [thr EXCEPT ![t] = [Idle EXCEPT !.pc = "reserved", !.todo = targets]]
    /\ UNCHANGED <<jobs, slot>>

(* The audit rows are committed and the background thread is started. *)
Spawn(t) ==
    /\ thr[t].pc = "reserved"
    /\ Goto(t, IF t \in Bulks THEN "loop" ELSE "begin")
    /\ UNCHANGED <<jobs, slot, bulk>>

(* The commit raises: the request fails and no thread is started. *)
HandlerRaises(t) ==
    /\ Faults
    /\ thr[t].pc = "reserved"
    /\ thr' = [thr EXCEPT ![t] = Idle]
    /\ UNCHANGED <<jobs, slot, bulk>>

-----------------------------------------------------------------------------
(* _run_update_background *)

(* It looks its job up in the dictionary and loads the guest; a guest      *)
(* without a usable address and credential goes to the agent.              *)
Begin(t) ==
    /\ thr[t].pc = "begin"
    /\ LET job == slot[thr[t].g] IN
       \/ \* the guest row is gone, or there is no way to reach the guest
          /\ jobs' = [jobs EXCEPT ![job] = Finished(@, FALSE)]
          /\ thr' = [thr EXCEPT ![t].job = job, ![t].pc = "closing"]
       \/ /\ thr' = [thr EXCEPT ![t].job = job, ![t].pc = "lists"]
          /\ UNCHANGED jobs
       \/ /\ thr[t].g \in AgentGuests
          /\ thr' = [thr EXCEPT ![t].job = job, ![t].pc = "agent", ![t].agent = TRUE]
          /\ UNCHANGED jobs
    /\ UNCHANGED <<slot, bulk>>

(* Loading the guest raises, outside every try of the worker. *)
BeginRaises(t) ==
    /\ Faults
    /\ thr[t].pc = "begin"
    /\ Goto(t, "closing")
    /\ UNCHANGED <<jobs, slot, bulk>>

Cancelled(t) == thr[t].job # 0 /\ jobs[thr[t].job].cancel

(* SSH raised: a guest with an agent is tried again through it. *)
SshRaises(t) ==
    /\ thr[t].pc \in {"lists", "upgrade"} \/ (Faults /\ thr[t].pc = "record" /\ ~thr[t].agent)
    /\ IF thr[t].g \in AgentGuests
       THEN /\ thr' = [thr EXCEPT ![t].pc = "agent", ![t].agent = TRUE]
            /\ UNCHANGED <<jobs, slot, bulk>>
       ELSE Finish(t, FALSE)

(* The same without the check of cancel_requested. *)
ListsDeaf(t) ==
    /\ thr[t].pc = "lists"
    /\ \/ Finish(t, FALSE)
       \/ Goto(t, "upgrade") /\ UNCHANGED <<jobs, slot, bulk>>

(* apt-get update returned.  A failure other than a sudo refusal is only   *)
(* logged.                                                                 *)
Lists(t) ==
    /\ thr[t].pc = "lists"
    /\ \/ Finish(t, FALSE)
       \/ ~Cancelled(t) /\ Goto(t, "upgrade") /\ UNCHANGED <<jobs, slot, bulk>>

(* The upgrade command returned, over SSH or through the agent. *)
Upgrade(t) ==
    /\ thr[t].pc \in {"upgrade", "agent"}
    /\ \/ Finish(t, FALSE)
       \/ ~Cancelled(t) /\ Goto(t, "record") /\ UNCHANGED <<jobs, slot, bulk>>

(* The pending rows are marked applied and committed. *)
Record(t) ==
    /\ thr[t].pc = "record"
    /\ Goto(t, "notify")
    /\ UNCHANGED <<jobs, slot, bulk>>

(* The commit raises on the agent's path. *)
RecordRaises(t) ==
    /\ Faults
    /\ thr[t].pc = "record"
    /\ thr[t].agent
    /\ Finish(t, FALSE)

(* The notification was sent, or failed: either way the job succeeded. *)
Notify(t) ==
    /\ thr[t].pc = "notify"
    /\ Finish(t, TRUE)

(* A single update's thread ends. *)
Close(t) ==
    /\ t \in Requests
    /\ thr[t].pc = "closing"
    /\ thr' = [thr EXCEPT ![t] = Idle]
    /\ UNCHANGED <<jobs, slot, bulk>>

-----------------------------------------------------------------------------
(* _run_bulk_update *)

(* A skip that forgets to count the item. *)
SettleUncounted(g, state) ==
    bulk' = [bulk EXCEPT !.items[g] = state,
                         !.done = IF state = "skipped" THEN @ ELSE @ + 1]

(* Settle the guest's item and count it. *)
Settle(g, state) == bulk' = [bulk EXCEPT !.items[g] = state, !.done = @ + 1]

(* The next guest of the list. *)
BulkTake(t, g) ==
    /\ t \in Bulks
    /\ thr[t].pc = "loop"
    /\ g \in thr[t].todo
    /\ bulk' = [bulk EXCEPT !.items[g] = "running"]
    /\ thr' = [thr EXCEPT ![t].pc = "gate", ![t].g = g, ![t].todo = @ \ {g}]
    /\ UNCHANGED <<jobs, slot>>

(* The guest is gone, its snapshot could not be taken, or a single update  *)
(* of it is in flight: it is skipped.                                      *)
BulkSkip(t) ==
    /\ t \in Bulks
    /\ thr[t].pc = "gate"
    /\ Settle(thr[t].g, "skipped")
    /\ Goto(t, "loop")
    /\ UNCHANGED <<jobs, slot>>

(* Otherwise its slot is reserved, under the hold of _jobs_lock that       *)
(* looked for a job in flight, and the worker runs in this thread.         *)
BulkReserve(t) ==
    /\ t \in Bulks
    /\ thr[t].pc = "gate"
    /\ ~InFlight(thr[t].g)
    /\ Reserve(thr[t].g)
    /\ Goto(t, "begin")
    /\ UNCHANGED bulk

(* Loading the guest raises and escapes the loop: the finally frees the    *)
(* bulk slot.                                                              *)
BulkEscapes(t) ==
    /\ Faults
    /\ t \in Bulks
    /\ thr[t].pc = "gate"
    /\ bulk' = [bulk EXCEPT !.running = FALSE]
    /\ thr' = [thr EXCEPT ![t] = Idle]
    /\ UNCHANGED <<jobs, slot>>

(* The finally without its clean-up. *)
CollectLeaving(t) ==
    /\ t \in Bulks
    /\ thr[t].pc = "closing"
    /\ Settle(thr[t].g, IF jobs[slot[thr[t].g]].success = "yes" THEN "success" ELSE "failed")
    /\ thr' = [thr EXCEPT ![t].pc = "loop", ![t].job = 0, ![t].agent = FALSE]
    /\ UNCHANGED <<jobs, slot>>

(* The worker came back: the outcome is read from the job now in the       *)
(* guest's slot, and the finally ends that job if it still runs.           *)
Collect(t) ==
    /\ t \in Bulks
    /\ thr[t].pc = "closing"
    /\ LET job == slot[thr[t].g] IN
       /\ Settle(thr[t].g, IF jobs[job].success = "yes" THEN "success" ELSE "failed")
       /\ jobs' = IF jobs[job].running
                  THEN [jobs EXCEPT ![job] = Finished(@, FALSE)]
                  ELSE jobs
    /\ thr' = [thr EXCEPT ![t].pc = "loop", ![t].job = 0, ![t].agent = FALSE]
    /\ UNCHANGED slot

(* The loop is over, and the finally frees the bulk slot. *)
BulkEnd(t) ==
    /\ t \in Bulks
    /\ thr[t].pc = "loop"
    /\ thr[t].todo = {}
    /\ bulk' = [bulk EXCEPT !.running = FALSE]
    /\ thr' = [thr EXCEPT ![t] = Idle]
    /\ UNCHANGED <<jobs, slot>>

-----------------------------------------------------------------------------
(* `update_cancel': only a running job can be asked to stop. *)
Cancel(g) ==
    /\ InFlight(g)
    /\ ~jobs[slot[g]].cancel
    /\ jobs' = [jobs EXCEPT ![slot[g]].cancel = TRUE]
    /\ UNCHANGED <<slot, bulk, thr>>

Start ==
    \/ \E t \in Requests, g \in Guests : Apply(t, g)
    \/ \E t \in Bulks, targets \in (SUBSET Guests) \ {{}} : ApplyAll(t, targets)
    \/ \E g \in Guests : Cancel(g)

(* One step of a thread that is under way. *)
Advance(t) ==
    \/ Spawn(t) \/ HandlerRaises(t)
    \/ Begin(t) \/ BeginRaises(t)
    \/ Lists(t) \/ Upgrade(t) \/ SshRaises(t)
    \/ Record(t) \/ RecordRaises(t) \/ Notify(t) \/ Close(t)
    \/ \E g \in Guests : BulkTake(t, g)
    \/ BulkSkip(t) \/ BulkReserve(t) \/ BulkEscapes(t) \/ Collect(t) \/ BulkEnd(t)

Next == Start \/ \E t \in Threads : Advance(t)

Spec == Init /\ [][Next]_vars

(* A started thread keeps running: every remote command has a timeout. *)
FairSpec == Spec /\ \A t \in Threads : WF_vars(Advance(t))

-----------------------------------------------------------------------------
(* routes/api.py, 648-650: the slot is reserved under a single lock hold,  *)
(* so that duplicate apt runs are never started on the same guest.         *)
OneRunPerGuest ==
    \A t, u \in Threads :
        thr[t].pc \in AtWork /\ thr[u].pc \in AtWork /\ thr[t].g = thr[u].g => t = u

(* One bulk update at a time (routes/api.py, 62-64): from the reservation  *)
(* to the finally at most one thread serves or runs `apply_all', and it    *)
(* does so with the bulk slot taken.                                       *)
BulkExclusive ==
    \A t \in Bulks : thr[t].pc # "idle" =>
        /\ bulk.running
        /\ \A u \in Bulks : thr[u].pc # "idle" => t = u

(* The progress page counts right: `done' is the number of guests settled, *)
(* the orchestrator's own list is what is left of the items, and a         *)
(* finished run has left no guest unsettled (_run_bulk_update, 740-802).   *)
BulkAccounted ==
    /\ bulk.done = Cardinality({g \in Guests : bulk.items[g] \in Settled})
    /\ ~bulk.running => \A g \in Guests : bulk.items[g] \in Settled \cup {"absent"}
    /\ \A t \in Bulks : thr[t].pc # "idle" =>
           thr[t].todo = {g \in Guests : bulk.items[g] = "pending"}

(* A job that was asked to stop starts no upgrade over SSH and records     *)
(* none that had not come back.  It does start one through the agent, and  *)
(* one only, when SSH raises after the request: nothing is asked on that   *)
(* way (239-269), the command is launched and then told to end, and its    *)
(* outcome is not recorded (_run_update_background, 166-189 and 270-273).  *)
CancelHeeded ==
    [][\A t \in Threads : Cancelled(t) =>
          /\ thr'[t].pc \in {"upgrade", "record"} => thr'[t].pc = thr[t].pc
          /\ thr[t].pc = "agent" => thr'[t].pc \in {"agent", "closing"}]_vars

(* A job that says it is running and that no thread serves any more. *)
Served(g) == \E t \in Threads : thr[t].g = g /\ thr[t].pc \in AtWork \cup {"reserved", "closing"}
Orphaned(g) == InFlight(g) /\ ~Served(g)

(* No job stays running, unless the database raised and nobody serves it:  *)
(* `apply' reserves before it commits (657-661), and the worker loads the  *)
(* guest outside its try (130).                                            *)
JobsEnd == \A g \in Guests : InFlight(g) ~> (~InFlight(g) \/ (Faults /\ Orphaned(g)))

(* Only a single update loses its job so, before it has looked it up:      *)
(* whatever raises in an orchestrator's worker, "the job we reserved above *)
(* must never stay running" (routes/api.py, 789).                          *)
OnlySinglesLost ==
    [][\A g \in Guests : ~Orphaned(g) /\ Orphaned(g)' =>
          \E t \in Requests : /\ thr[t].g = g /\ thr[t].job = 0
                              /\ thr[t].pc \in {"reserved", "closing"}]_vars

(* The bulk slot is always released, "otherwise the feature is wedged      *)
(* until the process restarts" (routes/api.py, 799-800); not so when the   *)
(* commit before the start raises (README, Limits of the results).         *)
BulkSlotReleased == bulk.running ~> ~bulk.running

=============================================================================
