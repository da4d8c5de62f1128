------------------------------ MODULE ScanJobs ------------------------------
(***************************************************************************)
(* The scans of guests for updates: the single scan a user asks for        *)
(* (routes/api.py, scan_single), the bulk scan (scan_all) and the          *)
(* scheduled one (core/scanner.py, scan_all_guests).  They meet at the     *)
(* per-guest lock of scan_guest; the first two also have slots that turn   *)
(* a second request away.                                                  *)
(*                                                                         *)
(* What a scan writes is the subject of GuestPackages; here a scan only    *)
(* ends well, ends with an error, or raises.  An action is what a greenlet *)
(* does between two remote commands or waits for a lock.                   *)
(***************************************************************************)
EXTENDS Naturals, FiniteSets

CONSTANTS
    Guests,   \* the guests' ids
    Singles,  \* threads that run _run_scan_background
    Bulks,    \* threads that run _run_bulk_scan
    Crons,    \* threads of the scheduler that run scan_all_guests
    Faults    \* whether a query or a commit of the database may raise

VARIABLES
    job,     \* _scan_jobs: each guest's ScanJob
    bulk,    \* _bulk_scan
    lock,    \* _guest_scan_locks: the holder of each guest's lock
    thr,     \* each thread's program counter, guest, remaining guests and session
    wedged   \* history: the slots whose thread died of a database fault

vars == <<job, bulk, lock, thr, wedged>>

Threads == Singles \cup Bulks \cup Crons

Nobody == "nobody"
BulkSlot == "bulk"

ASSUME ThreadsAssumption ==
    /\ Singles \cap Bulks = {} /\ Singles \cap Crons = {} /\ Bulks \cap Crons = {}
    /\ Nobody \notin Threads
ASSUME GuestsAssumption ==
    IsFiniteSet(Guests) /\ Nobody \notin Guests /\ BulkSlot \notin Guests
ASSUME FaultsAssumption == Faults \in BOOLEAN

NoJob == [running |-> FALSE, success |-> "none"]
NewJob == [running |-> TRUE, success |-> "none"]

ItemStates == {"absent", "pending", "running", "skipped", "success", "failed"}
Settled == {"skipped", "success", "failed"}

Idle == [pc |-> "idle", g |-> Nobody, todo |-> {}, poisoned |-> FALSE]

TypeOK ==
    /\ job \in [Guests -> [running: BOOLEAN, success: {"none", "yes", "no"}]]
    /\ bulk \in [running: BOOLEAN, done: Nat, items: [Guests -> ItemStates]]
    /\ lock \in [Guests -> Threads \cup {Nobody}]
    /\ thr \in [Threads -> [pc: {"idle", "begin", "waiting", "scanning", "loop"},
                            g: Guests \cup {Nobody}, todo: SUBSET Guests, poisoned: BOOLEAN]]
    /\ wedged \subseteq Guests \cup {BulkSlot}

Init ==
    /\ job = [g \in Guests |-> NoJob]
    /\ bulk = [running |-> FALSE, done |-> 0, items |-> [g \in Guests |-> "absent"]]
    /\ lock = [g \in Guests |-> Nobody]
    /\ thr = [t \in Threads |-> Idle]
    /\ wedged = {}

Goto(t, pc) == thr' = [thr EXCEPT ![t].pc = pc]

-----------------------------------------------------------------------------
(* scan_single: check and reservation under one hold of _scan_jobs_lock,   *)
(* which also covers the commit of the audit row and the thread's start.   *)
ScanSingle(t, g) ==
    /\ t \in Singles
    /\ thr[t].pc = "idle"
    /\ ~job[g].running
    /\ job' = [job EXCEPT ![g] = NewJob]
    /\ thr' = [thr EXCEPT ![t] = [Idle EXCEPT !.pc = "begin", !.g = g]]
    /\ UNCHANGED <<bulk, lock, wedged>>

(* The commit raises after the job was put in its slot: no thread runs it. *)
ScanSingleRaises(g) ==
    /\ Faults
    /\ ~job[g].running
    /\ job' = [job EXCEPT ![g] = NewJob]
    /\ wedged' = wedged \cup {g}
    /\ UNCHANGED <<bulk, lock, thr>>

(* ScanJob.finish; a scan that gave no result counts as failed. *)
FinishJob(g, success) == job' = [job EXCEPT ![g] = [running |-> FALSE, success |-> success]]

(* A finish that keeps `running' until the result was a success. *)
FinishIfGood(g, success) == job' = [job EXCEPT ![g] = [running |-> success # "yes", success |-> success]]

(* _run_scan_background loads the guest; it may be gone by now. *)
SingleBegin(t) ==
    /\ t \in Singles
    /\ thr[t].pc = "begin"
    /\ \/ /\ Goto(t, "waiting")
          /\ UNCHANGED job
       \/ /\ FinishJob(thr[t].g, "no")
          /\ thr' = [thr EXCEPT ![t] = Idle]
    /\ UNCHANGED <<bulk, lock, wedged>>

(* Loading the guest raises, outside the worker's try. *)
SingleBeginRaises(t) ==
    /\ Faults
    /\ t \in Singles
    /\ thr[t].pc = "begin"
    /\ wedged' = wedged \cup {thr[t].g}
    /\ thr' = [thr EXCEPT ![t] = Idle]
    /\ UNCHANGED <<job, bulk, lock>>

(* scan_guest without the lock of the guest. *)
ScanUnlocked(t) ==
    /\ thr[t].pc = "waiting"
    /\ lock' = [lock EXCEPT ![thr[t].g] = t]
    /\ Goto(t, "scanning")
    /\ UNCHANGED <<job, bulk, wedged>>

(* scan_guest waits for the lock of the guest. *)
ScanTakesLock(t) ==
    /\ thr[t].pc = "waiting"
    /\ lock[thr[t].g] = Nobody
    /\ lock' = [lock EXCEPT ![thr[t].g] = t]
    /\ Goto(t, "scanning")
    /\ UNCHANGED <<job, bulk, wedged>>

(* The with statement gives the lock back however _scan_guest_locked ends. *)
Unlocked(t) == lock' = [lock EXCEPT ![thr[t].g] = Nobody]

(* The scan of a single job returned or raised: both end the job. *)
SingleScanned(t) ==
    /\ t \in Singles
    /\ thr[t].pc = "scanning"
    /\ Unlocked(t)
    /\ \E success \in {"yes", "no"} : FinishJob(thr[t].g, success)
    /\ thr' = [thr EXCEPT ![t] = Idle]
    /\ UNCHANGED <<bulk, wedged>>

-----------------------------------------------------------------------------
(* scan_all without the check of the slot. *)
ScanAllUnchecked(t, targets) ==
    /\ t \in Bulks
    /\ thr[t].pc = "idle"
    /\ bulk' = [running |-> TRUE, done |-> 0,
                items |-> [g \in Guests |-> IF g \in targets THEN "pending" ELSE "absent"]]
    /\ thr' = [thr EXCEPT ![t] = [Idle EXCEPT !.pc = "loop", !.todo = targets]]
    /\ UNCHANGED <<job, lock, wedged>>

(* scan_all: the audit row is committed before the slot is taken.  The     *)
(* check and the reservation are two holds of _bulk_scan_lock with only    *)
(* database calls between them, where no greenlet gives way.               *)
ScanAll(t, targets) ==
    /\ t \in Bulks
    /\ thr[t].pc = "idle"
    /\ ~bulk.running
    /\ bulk' = [running |-> TRUE, done |-> 0,
                items |-> [g \in Guests |-> IF g \in targets THEN "pending" ELSE "absent"]]
    /\ thr' = [thr EXCEPT ![t] = [Idle EXCEPT !.pc = "loop", !.todo = targets]]
    /\ UNCHANGED <<job, lock, wedged>>

Settle(g, state) == bulk' = [bulk EXCEPT !.items[g] = state, !.done = @ + 1]

(* _run_bulk_scan takes the next guest; one that is gone is skipped. *)
BulkTake(t, g) ==
    /\ t \in Bulks
    /\ thr[t].pc = "loop"
    /\ g \in thr[t].todo
    /\ ~thr[t].poisoned
    /\ \/ /\ bulk' = [bulk EXCEPT !.items[g] = "running"]
          /\ thr' = [thr EXCEPT ![t].pc = "waiting", ![t].g = g, ![t].todo = @ \ {g}]
       \/ /\ Settle(g, "skipped")
          /\ thr' = [thr EXCEPT ![t].todo = @ \ {g}]
    /\ UNCHANGED <<job, lock, wedged>>

(* Loading the guest raises, outside the try of the loop: because the      *)
(* database does, or because the session still waits for the rollback of   *)
(* an earlier guest's failed write.  There is no finally: the thread ends  *)
(* with the slot taken.                                                    *)
BulkTakeRaises(t, g) ==
    /\ t \in Bulks
    /\ thr[t].pc = "loop"
    /\ g \in thr[t].todo
    /\ thr[t].poisoned \/ Faults
    /\ bulk' = [bulk EXCEPT !.items[g] = "running"]
    /\ wedged' = wedged \cup {BulkSlot}
    /\ thr' = [thr EXCEPT ![t] = Idle]
    /\ UNCHANGED <<job, lock>>

(* The scan returned a result, or raised: the item is settled, and a write *)
(* that failed leaves the session to be rolled back.                       *)
BulkScanned(t) ==
    /\ t \in Bulks
    /\ thr[t].pc = "scanning"
    /\ Unlocked(t)
    /\ \E state \in {"success", "failed"}, broken \in BOOLEAN :
          /\ broken => Faults /\ state = "failed"
          /\ Settle(thr[t].g, state)
          /\ thr' = [thr EXCEPT ![t].pc = "loop", ![t].g = Nobody, ![t].poisoned = @ \/ broken]
    /\ UNCHANGED <<job, wedged>>

(* The loop is over and the notification is sent; its errors are caught.   *)
(* A broken session only fails the notification.                           *)
BulkEnd(t) ==
    /\ t \in Bulks
    /\ thr[t].pc = "loop"
    /\ thr[t].todo = {}
    /\ bulk' = [bulk EXCEPT !.running = FALSE]
    /\ thr' = [thr EXCEPT ![t] = Idle]
    /\ UNCHANGED <<job, lock, wedged>>

-----------------------------------------------------------------------------
(* scan_all_guests: the scheduler's run over the guests that are up. *)
CronStart(t, targets) ==
    /\ t \in Crons
    /\ thr[t].pc = "idle"
    /\ thr' = [thr EXCEPT ![t] = [Idle EXCEPT !.pc = "loop", !.todo = targets]]
    /\ UNCHANGED <<job, bulk, lock, wedged>>

CronTake(t, g) ==
    /\ t \in Crons
    /\ thr[t].pc = "loop"
    /\ g \in thr[t].todo
    /\ thr' = [thr EXCEPT ![t].pc = "waiting", ![t].g = g, ![t].todo = @ \ {g}]
    /\ UNCHANGED <<job, bulk, lock, wedged>>

(* An exception is rolled back, "a failed guest must not poison every      *)
(* later guest", and the run goes on.                                      *)
CronScanned(t) ==
    /\ t \in Crons
    /\ thr[t].pc = "scanning"
    /\ Unlocked(t)
    /\ thr' = IF thr[t].todo = {} THEN [thr EXCEPT ![t] = Idle]
              ELSE [thr EXCEPT ![t].pc = "loop", ![t].g = Nobody]
    /\ UNCHANGED <<job, bulk, wedged>>

-----------------------------------------------------------------------------
Targets == (SUBSET Guests) \ {{}}

Start ==
    \/ \E t \in Singles, g \in Guests : ScanSingle(t, g)
    \/ \E g \in Guests : ScanSingleRaises(g)
    \/ \E t \in Bulks, targets \in Targets : ScanAll(t, targets)
    \/ \E t \in Crons, targets \in Targets : CronStart(t, targets)

Advance(t) ==
    \/ SingleBegin(t) \/ SingleBeginRaises(t) \/ SingleScanned(t)
    \/ ScanTakesLock(t)
    \/ \E g \in Guests : BulkTake(t, g) \/ BulkTakeRaises(t, g) \/ CronTake(t, g)
    \/ BulkScanned(t) \/ BulkEnd(t) \/ CronScanned(t)

Next == Start \/ \E t \in Threads : Advance(t)

Spec == Init /\ [][Next]_vars

(* A started thread keeps running (every remote command has a timeout),    *)
(* and the lock, whose waiters gevent wakes in their order, is not given   *)
(* to others for ever; every other step of a thread stays enabled until it *)
(* is taken.                                                               *)
FairSpec == Spec /\ \A t \in Threads : SF_vars(Advance(t))

-----------------------------------------------------------------------------
(* "A single-guest scan and the scheduled/bulk scan can never run          *)
(* concurrently for the same guest" (routes/api.py, 343-345).              *)
OneScanPerGuest ==
    \A t, u \in Threads :
        thr[t].pc = "scanning" /\ thr[u].pc = "scanning" /\ thr[t].g = thr[u].g => t = u

(* What the pages show is what goes on: a job shown as running is in the   *)
(* hands of one thread, a bulk scan shown as running of one orchestrator,  *)
(* and one that ended has settled and counted each of its guests           *)
(* (ScanJob, _bulk_scan).  A slot whose thread died of a database fault is *)
(* the exception, and stays taken.                                         *)
SlotsTruthful ==
    /\ \A g \in Guests :
          job[g].running <=>
              \/ g \in wedged
              \/ \E t \in Singles : thr[t].pc # "idle" /\ thr[t].g = g
    /\ \A t, u \in Bulks : thr[t].pc # "idle" /\ thr[u].pc # "idle" => t = u
    /\ bulk.running <=> BulkSlot \in wedged \/ \E t \in Bulks : thr[t].pc # "idle"
    /\ bulk.done = Cardinality({g \in Guests : bulk.items[g] \in Settled})
    /\ ~bulk.running => \A g \in Guests : bulk.items[g] \in Settled \cup {"absent"}

(* There is one scan of a guest at a time, whoever asked for it, and the   *)
(* scan pages show what goes on (core/scanner.py, scan_guest;              *)
(* routes/api.py, ScanJob and _bulk_scan).                                 *)
ScansSound == TypeOK /\ OneScanPerGuest /\ SlotsTruthful

(* Every scan ends, a bulk scan with a guest that raises included, unless  *)
(* its thread died of a database fault (_run_scan_background,              *)
(* _run_bulk_scan).                                                        *)
ScansEnd ==
    /\ \A g \in Guests : job[g].running ~> (~job[g].running \/ g \in wedged)
    /\ bulk.running ~> (~bulk.running \/ BulkSlot \in wedged)

-----------------------------------------------------------------------------
(* What ScansSound rests on.  A thread at work has a guest, and one that   *)
(* scans holds the guest's lock;                                           *)
Underway == {"begin", "waiting", "scanning"}
LocksHeld ==
    \A t \in Threads :
        /\ thr[t].pc \in Underway => thr[t].g \in Guests
        /\ thr[t].pc = "scanning" => lock[thr[t].g] = t

(* a single job that runs has one thread, and none once it is wedged;      *)
SinglesApart ==
    /\ \A t \in Singles : thr[t].pc \in Underway \cup {"idle"}
    /\ \A t \in Singles : thr[t].pc # "idle" => thr[t].g \notin wedged
    /\ \A t, u \in Singles :
          thr[t].pc # "idle" /\ thr[u].pc # "idle" /\ thr[t].g = thr[u].g => t = u

(* and the orchestrator's guests are the ones the bulk slot shows.         *)
ItemsTracked ==
    \A t \in Bulks :
        thr[t].pc # "idle" =>
            /\ BulkSlot \notin wedged /\ thr[t].pc # "begin"
            /\ \A g \in Guests :
                  /\ bulk.items[g] = "pending" <=> g \in thr[t].todo
                  /\ bulk.items[g] = "running" <=>
                        thr[t].pc \in {"waiting", "scanning"} /\ thr[t].g = g

IInv == ScansSound /\ LocksHeld /\ SinglesApart /\ ItemsTracked
=============================================================================
