----------------------------- MODULE HostUpdates -----------------------------
(***************************************************************************)
(* The update jobs of Proxmox VE and Backup Server hosts (routes/hosts.py, *)
(* and the assistant's manage_host_updates tool, which mirrors them).      *)
(*                                                                         *)
(* Unlike the guests' jobs, a host's job is a plain record in _apply_jobs  *)
(* that the worker looks up by the host's id each time it needs it, and    *)
(* the orchestrator of `apply_all_updates' puts a new record there without *)
(* looking at the old one.                                                 *)
(***************************************************************************)
EXTENDS Naturals, FiniteSets

CONSTANTS
    Hosts,       \* the hosts' ids
    Pbs,         \* those that are backup servers
    Requests,    \* threads that serve `apply_updates' and then run its worker
    Bulks,       \* threads that serve `apply_all_updates' and then orchestrate
    Preemptive,  \* TRUE: operating-system threads; FALSE: gevent greenlets
    Faults       \* whether a query or a commit of the database may raise

VARIABLES
    job,   \* _apply_jobs: each host's job record
    bulk,  \* _bulk_apply
    thr    \* each thread's program counter, host, outcome and remaining hosts

vars == <<job, bulk, thr>>

Threads == Requests \cup Bulks

NoHost == "none"

Outcomes == {"none", "yes", "no"}
ItemStates == {"absent", "pending", "running", "skipped", "success", "failed"}
Settled == {"skipped", "success", "failed"}

(* The program counters inside _run_apply. *)
AtWork == {"begin", "apt", "record", "end"}

NoJob == [running |-> FALSE, success |-> "none", cancelled |-> FALSE]
NewJob == [running |-> TRUE, success |-> "none", cancelled |-> FALSE]

TypeOK ==
    /\ job \in [Hosts -> [running: BOOLEAN, success: Outcomes, cancelled: BOOLEAN]]
    /\ bulk \in [running: BOOLEAN, done: 0..Cardinality(Hosts), items: [Hosts -> ItemStates]]
    /\ thr \in [Threads -> [pc: AtWork \cup {"idle", "checked", "spawned", "loop", "gate", "collect"},
                            h: Hosts \cup {NoHost}, ok: BOOLEAN, todo: SUBSET Hosts]]

Idle == [pc |-> "idle", h |-> NoHost, ok |-> FALSE, todo |-> {}]

Init ==
    /\ job = [h \in Hosts |-> NoJob]
    /\ bulk = [running |-> FALSE, done |-> 0, items |-> [h \in Hosts |-> "absent"]]
    /\ thr = [t \in Threads |-> Idle]

Goto(t, pc) == thr' = [thr EXCEPT ![t].pc = pc]

-----------------------------------------------------------------------------
(* `apply_updates' without the check. *)
ApplyUnchecked(t, h) ==
    /\ thr[t].pc = "idle"
    /\ job' = [job EXCEPT ![h] = NewJob]
    /\ thr' = [thr EXCEPT ![t] = [Idle EXCEPT !.pc = "begin", !.h = h]]
    /\ UNCHANGED bulk

(* `apply_updates', and the assistant's confirmed `apply': check and       *)
(* reservation under one hold of _apply_lock, then the thread is started,  *)
(* before anything is written to the database.                             *)
Apply(t, h) ==
    /\ thr[t].pc = "idle"
    /\ ~job[h].running
    /\ job' = [job EXCEPT ![h] = NewJob]
    /\ thr' = [thr EXCEPT ![t] = [Idle EXCEPT !.pc = "begin", !.h = h]]
    /\ UNCHANGED bulk

(* `apply_cancel', and the assistant's `cancel'. *)
Cancel(h) ==
    /\ job[h].running
    /\ ~job[h].cancelled
    /\ job' = [job EXCEPT ![h].cancelled = TRUE]
    /\ UNCHANGED <<bulk, thr>>

-----------------------------------------------------------------------------
(* _run_apply *)

(* The host and its credential are loaded and the connection is made; any  *)
(* failure is caught and ends the job as failed.                           *)
Begin(t) ==
    /\ thr[t].pc = "begin"
    /\ \/ Goto(t, "apt")
       \/ thr' = [thr EXCEPT ![t].pc = "end", ![t].ok = FALSE]
    /\ UNCHANGED <<job, bulk>>

(* apt-get returned, or the connection was lost: only a zero exit that     *)
(* nobody cancelled is a success.                                          *)
Apt(t) ==
    /\ thr[t].pc = "apt"
    /\ \/ thr' = [thr EXCEPT ![t].pc = "end", ![t].ok = FALSE]
       \/ /\ ~job[thr[t].h].cancelled
          /\ thr' = [thr EXCEPT ![t].pc = "record", ![t].ok = TRUE]
    /\ UNCHANGED <<job, bulk>>

(* The rows are reconciled and the notification is sent; an error there is *)
(* rolled back and does not change the outcome.                            *)
Record(t) ==
    /\ thr[t].pc = "record"
    /\ Goto(t, "end")
    /\ UNCHANGED <<job, bulk>>

(* The outcome is written by the worker that failed only. *)
EndOnFailure(t) ==
    /\ thr[t].pc = "end"
    /\ job' = IF thr[t].ok THEN job
              ELSE [job EXCEPT ![thr[t].h].running = FALSE, ![thr[t].h].success = "no"]
    /\ thr' = IF t \in Bulks THEN [thr EXCEPT ![t].pc = "collect"]
              ELSE [thr EXCEPT ![t] = Idle]
    /\ UNCHANGED bulk

(* The outcome is written to the record now kept for the host. *)
End(t) ==
    /\ thr[t].pc = "end"
    /\ job' = [job EXCEPT ![thr[t].h].running = FALSE,
                          ![thr[t].h].success = IF thr[t].ok THEN "yes" ELSE "no"]
    /\ thr' = IF t \in Bulks THEN [thr EXCEPT ![t].pc = "collect"]
              ELSE [thr EXCEPT ![t] = Idle]
    /\ UNCHANGED bulk

-----------------------------------------------------------------------------
(* `apply_all_updates' *)

SetBulk(t, targets) ==
    /\ bulk' = [running |-> TRUE, done |-> 0,
                items |-> [h \in Hosts |-> IF h \in targets THEN "pending" ELSE "absent"]]
    /\ Goto(t, "spawned")
    /\ UNCHANGED job

(* The handler without its check. *)
ApplyAllUnchecked(t, targets) ==
    /\ ~Preemptive
    /\ thr[t].pc = "idle"
    /\ SetBulk(t, targets)

(* With greenlets nothing runs between the check and the reservation, made *)
(* under two holds of _bulk_apply_lock.                                    *)
ApplyAll(t, targets) ==
    /\ ~Preemptive
    /\ thr[t].pc = "idle"
    /\ ~bulk.running
    /\ SetBulk(t, targets)

(* With threads another request may run while the targets are queried. *)
BulkCheck(t) ==
    /\ Preemptive
    /\ thr[t].pc = "idle"
    /\ ~bulk.running
    /\ Goto(t, "checked")
    /\ UNCHANGED <<job, bulk>>

BulkSet(t, targets) ==
    /\ thr[t].pc = "checked"
    /\ SetBulk(t, targets)

(* The orchestrator takes the list of items kept at that time. *)
BulkBegin(t) ==
    /\ thr[t].pc = "spawned"
    /\ thr' = [thr EXCEPT ![t].pc = "loop",
                          ![t].todo = {h \in Hosts : bulk.items[h] # "absent"}]
    /\ UNCHANGED <<job, bulk>>

(* A list in the order of the hosts' names. *)
ReadyByName(t, h) == h \in thr[t].todo

(* The list is sorted with the backup servers last. *)
Ready(t, h) == h \in thr[t].todo /\ (h \in Pbs => thr[t].todo \subseteq Pbs)

BulkTake(t, h) ==
    /\ thr[t].pc = "loop"
    /\ Ready(t, h)
    /\ bulk' = [bulk EXCEPT !.items[h] = "running"]
    /\ thr' = [thr EXCEPT ![t].pc = "gate", ![t].h = h, ![t].todo = @ \ {h}]
    /\ UNCHANGED job

Settle(t, state) ==
    /\ bulk' = [bulk EXCEPT !.items[thr[t].h] = state, !.done = @ + 1]
    /\ Goto(t, "loop")

(* The host or its credential is gone. *)
BulkSkip(t) ==
    /\ thr[t].pc = "gate"
    /\ Settle(t, "skipped")
    /\ UNCHANGED job

(* A new record replaces whatever the host's slot held. *)
BulkReserve(t) ==
    /\ thr[t].pc = "gate"
    /\ job' = [job EXCEPT ![thr[t].h] = NewJob]
    /\ Goto(t, "begin")
    /\ UNCHANGED bulk

(* A query raises and escapes the loop. *)
BulkEscapes(t) ==
    /\ Faults
    /\ thr[t].pc = "gate"
    /\ bulk' = [bulk EXCEPT !.running = FALSE]
    /\ thr' = [thr EXCEPT ![t] = Idle]
    /\ UNCHANGED job

(* The worker came back; the finally ends a record that is still running. *)
Collect(t) ==
    /\ thr[t].pc = "collect"
    /\ LET kept == job[thr[t].h] IN
       /\ Settle(t, IF kept.success = "yes" THEN "success" ELSE "failed")
       /\ job' = IF kept.running
                 THEN [job EXCEPT ![thr[t].h].running = FALSE,
                                  ![thr[t].h].success = IF @ = "none" THEN "no" ELSE @]
                 ELSE job

(* The orchestrator without its finally. *)
BulkEndHolding(t) ==
    /\ thr[t].pc = "loop"
    /\ thr[t].todo = {}
    /\ thr' = [thr EXCEPT ![t] = Idle]
    /\ UNCHANGED <<job, bulk>>

BulkEnd(t) ==
    /\ thr[t].pc = "loop"
    /\ thr[t].todo = {}
    /\ bulk' = [bulk EXCEPT !.running = FALSE]
    /\ thr' = [thr EXCEPT ![t] = Idle]
    /\ UNCHANGED job

-----------------------------------------------------------------------------
Targets == (SUBSET Hosts) \ {{}}

Start ==
    \/ \E t \in Requests, h \in Hosts : Apply(t, h)
    \/ \E t \in Bulks, targets \in Targets : ApplyAll(t, targets)
    \/ \E t \in Bulks : BulkCheck(t)
    \/ \E h \in Hosts : Cancel(h)

Advance(t) ==
    \/ Begin(t) \/ Apt(t) \/ Record(t) \/ End(t)
    \/ \E targets \in Targets : BulkSet(t, targets)
    \/ BulkBegin(t)
    \/ \E h \in Hosts : BulkTake(t, h)
    \/ BulkSkip(t) \/ BulkReserve(t) \/ BulkEscapes(t) \/ Collect(t) \/ BulkEnd(t)

Next == Start \/ \E t \in Threads : Advance(t)

Spec == Init /\ [][Next]_vars

(* A started thread keeps running: apt-get has a timeout of 1800 s. *)
FairSpec == Spec /\ \A t \in Threads : WF_vars(Advance(t))

-----------------------------------------------------------------------------
(* Two single updates never run on one host (apply_updates, 864-869).      *)
OneRunPerHost ==
    \A t, u \in Threads :
        thr[t].pc \in AtWork /\ thr[u].pc \in AtWork /\ thr[t].h = thr[u].h => t = u

(* "The existing per-host /updates/apply/status endpoint keeps reflecting  *)
(* live output for the host currently being updated" (hosts.py, 922-924):  *)
(* as long as a worker is on a host, the host's record says so.            *)
StatusReflectsRun ==
    \A t \in Threads : thr[t].pc \in AtWork => job[thr[t].h].running

(* "One run at a time" (hosts.py, 19): one orchestrator from the           *)
(* reservation of the bulk slot to its release.                            *)
BulkExclusive ==
    \A t, u \in Bulks :
        thr[t].pc \notin {"idle", "checked"} /\ thr[u].pc \notin {"idle", "checked"} => t = u

(* apply_all_updates, 977-979: the backup servers come last, so that none  *)
(* of them is updated while a node of the same run is, or is still to be.  *)
PbsAfterNodes ==
    \A t \in Bulks : thr[t].pc \in AtWork /\ thr[t].h \in Pbs =>
        \A h \in Hosts \ Pbs :
            /\ bulk.items[h] \in Settled \cup {"absent"}
            /\ ~job[h].running

(* The progress page counts right, and a run that ended has settled every  *)
(* host (_run_bulk_apply, 930-970).                                        *)
BulkAccounted ==
    /\ bulk.done = Cardinality({h \in Hosts : bulk.items[h] \in Settled})
    /\ ~bulk.running => \A h \in Hosts : bulk.items[h] \in Settled \cup {"absent"}

(* Whatever raises, no host's job stays running (hosts.py, 955) and the    *)
(* bulk slot is released (hosts.py, 967-968).                              *)
JobsEnd ==
    /\ \A h \in Hosts : job[h].running ~> ~job[h].running
    /\ bulk.running ~> ~bulk.running

=============================================================================
