---------------------------- MODULE GuestPackages ----------------------------
(***************************************************************************)
(* The rows of update_packages that belong to one guest, and the three     *)
(* things that write them: a scan (core/scanner.py, scan_guest), the       *)
(* maintenance-window update (core/scheduler.py, _run_auto_updates, with   *)
(* core/scanner.py, apply_updates) and the update a user started           *)
(* (routes/api.py, _run_update_background).                                *)
(*                                                                         *)
(* Rows have the ids SQLite gives them: one more than the largest in the   *)
(* table, so that the id of a deleted row may be given again.  The         *)
(* scheduler's session loads the guest's rows once, before apt runs, and   *)
(* writes them back by id afterwards.                                      *)
(***************************************************************************)
EXTENDS Integers, FiniteSets, Functions

CONSTANTS
    Pkgs,      \* package names
    MaxId,     \* bound: the largest row id
    Scanners,  \* threads that scan: requests, the bulk scan, the scheduler
    Auto,      \* whether the guest has auto_update and a window that is open
    Manual     \* whether users update the guest

VARIABLES
    outdated,  \* what `apt list --upgradable' would print on the guest
    rows,      \* update_packages: id -> row
    status,    \* guests.status
    lock,      \* the holder of the guest's scan lock
    scan,      \* each scan's program counter, loaded status and what it read
    auto,      \* the scheduler: program counter, loaded rows and status, re-check
    job        \* the user's update: program counter and loaded status

vars == <<outdated, rows, status, lock, scan, auto, job>>

Ids == 1..MaxId
Free == [pkg |-> "none", state |-> "free"]
Pending == {i \in Ids : rows[i].state = "pending"}

Statuses == {"unknown", "up-to-date", "updates-available", "error"}

TypeOK ==
    /\ outdated \subseteq Pkgs
    /\ rows \in [Ids -> {Free} \cup [pkg: Pkgs, state: {"pending", "applied"}]]
    /\ status \in Statuses
    /\ lock \in Scanners \cup {"none"}
    /\ scan \in [Scanners -> [pc: {"idle", "waiting", "reading", "writing"},
                            status: Statuses, seen: SUBSET Pkgs]]
    /\ auto.pc \in {"idle", "apt", "recheck", "reconcile"}
    /\ auto.cache \subseteq (Ids \X Pkgs) /\ auto.status \in Statuses
    /\ auto.seen \subseteq Pkgs
    /\ job \in [pc: {"idle", "apt", "record"}, status: Statuses]

NoScan == [pc |-> "idle", status |-> "unknown", seen |-> {}]
NoAuto == [pc |-> "idle", cache |-> {}, status |-> "unknown", seen |-> {}]
NoJob == [pc |-> "idle", status |-> "unknown"]

(* The table after the pending rows were deleted and one row per package   *)
(* of `seen' was inserted: consecutive ids, after the rows that stay and   *)
(* after those that other guests may have.                                 *)
Placed(old, seen) ==
    LET n == Cardinality(seen)
        Bases == {b \in 0..(MaxId - n) : \A i \in Ids : old[i].state = "applied" => i <= b}
    IN  UNION {{[i \in Ids |-> IF i \in (b + 1)..(b + n) THEN [pkg |-> f[i - b], state |-> "pending"]
                               ELSE IF old[i].state = "applied" THEN old[i] ELSE Free] :
                f \in Bijection(1..n, seen)} : b \in Bases}

(* The rows that were pending are not deleted. *)
InsertedBeside(seen) ==
    {[i \in Ids |-> IF placed[i] = Free THEN rows[i] ELSE placed[i]] : placed \in Placed(rows, seen)}

Inserted(seen) == Placed(rows, seen)

(* The guest was never scanned, or its last scan found some of the         *)
(* packages that are outdated now.                                         *)
Init ==
    /\ outdated \in SUBSET Pkgs
    /\ \/ rows = [i \in Ids |-> Free] /\ status = "unknown"
       \/ \E known \in SUBSET outdated :
             /\ rows \in Placed([i \in Ids |-> Free], known)
             /\ status = IF known = {} THEN "up-to-date" ELSE "updates-available"
    /\ lock = "none"
    /\ scan = [s \in Scanners |-> NoScan]
    /\ auto = NoAuto
    /\ job = NoJob

(* A new version is published: external. *)
Publish(p) ==
    /\ p \notin outdated
    /\ outdated' = outdated \cup {p}
    /\ UNCHANGED <<rows, status, lock, scan, auto, job>>

(* A package is installed by somebody else, or its new version withdrawn:  *)
(* external.                                                               *)
InstalledElsewhere(p) ==
    /\ p \in outdated
    /\ outdated' = outdated \ {p}
    /\ UNCHANGED <<rows, status, lock, scan, auto, job>>

(* The session only writes guest.status when it differs from what it       *)
(* loaded.                                                                 *)
Assign(loaded, new) == IF new = loaded THEN status ELSE new

-----------------------------------------------------------------------------
(* scan_guest *)

(* The caller has loaded the guest and waits for the guest's scan lock. *)
ScanBegin(s) ==
    /\ scan[s].pc = "idle"
    /\ scan' = [scan EXCEPT ![s] = [pc |-> "waiting", status |-> status, seen |-> {}]]
    /\ UNCHANGED <<outdated, rows, status, lock, auto, job>>

ScanTake(s) ==
    /\ scan[s].pc = "waiting"
    /\ lock = "none"
    /\ lock' = s
    /\ scan' = [scan EXCEPT ![s].pc = "reading"]
    /\ UNCHANGED <<outdated, rows, status, auto, job>>

(* `apt list --upgradable' on the guest. *)
ScanRead(s) ==
    /\ scan[s].pc = "reading"
    /\ scan' = [scan EXCEPT ![s].pc = "writing", ![s].seen = outdated]
    /\ UNCHANGED <<outdated, rows, status, lock, auto, job>>

(* The remote command failed: the rows stay, the guest is marked. *)
ScanFails(s) ==
    /\ scan[s].pc = "reading"
    /\ scan' = [scan EXCEPT ![s] = NoScan]
    /\ status' = Assign(scan[s].status, "error")
    /\ lock' = "none"
    /\ UNCHANGED <<outdated, rows, auto, job>>

(* The pending rows are deleted and one row per package is inserted, in    *)
(* one transaction.  The service detection and the reboot check that       *)
(* follow write other columns.                                             *)
ScanWrite(s) ==
    /\ scan[s].pc = "writing"
    /\ rows' \in Inserted(scan[s].seen)
    /\ status' = Assign(scan[s].status,
                        IF scan[s].seen = {} THEN "up-to-date" ELSE "updates-available")
    /\ lock' = "none"
    /\ scan' = [scan EXCEPT ![s] = NoScan]
    /\ UNCHANGED <<outdated, auto, job>>

-----------------------------------------------------------------------------
(* _run_auto_updates and apply_updates *)

(* The pending rows are loaded into the scheduler's session. *)
AutoStart ==
    /\ Auto
    /\ auto.pc = "idle"
    /\ Pending # {}
    /\ auto' = [pc |-> "apt", cache |-> {<<i, rows[i].pkg>> : i \in Pending},
                status |-> status, seen |-> {}]
    /\ UNCHANGED <<outdated, rows, status, lock, scan, job>>

AutoInstall(p) ==
    /\ auto.pc = "apt"
    /\ p \in outdated
    /\ outdated' = outdated \ {p}
    /\ UNCHANGED <<rows, status, lock, scan, auto, job>>

(* apt exits with 0, whatever it kept back, or fails. *)
AutoExit ==
    /\ auto.pc = "apt"
    /\ \/ auto' = [auto EXCEPT !.pc = "recheck"]
       \/ auto' = NoAuto
    /\ UNCHANGED <<outdated, rows, status, lock, scan, job>>

(* `apt list --upgradable' again; without an answer nothing is marked. *)
AutoRecheck ==
    /\ auto.pc = "recheck"
    /\ \/ auto' = [auto EXCEPT !.pc = "reconcile", !.seen = outdated]
       \/ auto' = NoAuto
    /\ UNCHANGED <<outdated, rows, status, lock, scan, job>>

(* Every loaded row, because apt exited with 0. *)
RetiredAll == {c[1] : c \in auto.cache}

(* The loaded rows whose package is no longer upgradable. *)
Retired == {c[1] : c \in {d \in auto.cache : d[2] \notin auto.seen}}

(* _reconcile_applied_updates: the loaded rows are updated by id; when one *)
(* of them is no longer there the commit fails and nothing is written.     *)
AutoReconcile ==
    /\ auto.pc = "reconcile"
    /\ IF \E i \in Retired : rows[i] = Free
       THEN UNCHANGED <<rows, status>>
       ELSE /\ rows' = [i \in Ids |-> IF i \in Retired THEN [rows[i] EXCEPT !.state = "applied"]
                                      ELSE rows[i]]
            /\ status' = Assign(auto.status,
                                IF \E c \in auto.cache : c[2] \in auto.seen
                                THEN "updates-available" ELSE "up-to-date")
    /\ auto' = NoAuto
    /\ UNCHANGED <<outdated, lock, scan, job>>

-----------------------------------------------------------------------------
(* _run_update_background *)

JobStart ==
    /\ Manual
    /\ job.pc = "idle"
    /\ job' = [pc |-> "apt", status |-> status]
    /\ UNCHANGED <<outdated, rows, status, lock, scan, auto>>

JobInstall(p) ==
    /\ job.pc = "apt"
    /\ p \in outdated
    /\ outdated' = outdated \ {p}
    /\ UNCHANGED <<rows, status, lock, scan, auto, job>>

JobExit ==
    /\ job.pc = "apt"
    /\ \/ job' = [job EXCEPT !.pc = "record"]
       \/ job' = NoJob
    /\ UNCHANGED <<outdated, rows, status, lock, scan, auto>>

(* Every row pending now is marked applied. *)
JobRecord ==
    /\ job.pc = "record"
    /\ rows' = [i \in Ids |-> IF i \in Pending THEN [rows[i] EXCEPT !.state = "applied"]
                              ELSE rows[i]]
    /\ status' = Assign(job.status, "up-to-date")
    /\ job' = NoJob
    /\ UNCHANGED <<outdated, lock, scan, auto>>

-----------------------------------------------------------------------------
Next ==
    \/ \E p \in Pkgs : Publish(p) \/ InstalledElsewhere(p) \/ AutoInstall(p) \/ JobInstall(p)
    \/ \E s \in Scanners : ScanBegin(s) \/ ScanTake(s) \/ ScanRead(s) \/ ScanFails(s) \/ ScanWrite(s)
    \/ AutoStart \/ AutoExit \/ AutoRecheck \/ AutoReconcile
    \/ JobStart \/ JobExit \/ JobRecord

Spec == Init /\ [][Next]_vars

-----------------------------------------------------------------------------
(* "A user-triggered scan and the scheduled scan_all_guests() run can      *)
(* never race on the same guest" (scanner.py, 2584-2586): one scan at a    *)
(* time, and it holds the lock until its rows are committed.               *)
OneScan ==
    \A s \in Scanners : scan[s].pc \in {"reading", "writing"} => lock = s

(* However scans and updates overlap, no package is listed twice as        *)
(* pending (scanner.py, 2650-2668).                                        *)
OneRowPerPackage ==
    \A i, j \in Pending : rows[i].pkg = rows[j].pkg => i = j

(* _reconcile_applied_updates, 2730-2734: the maintenance-window update    *)
(* only retires rows whose package is no longer upgradable; anything still *)
(* listed stays pending.  With a scan beside it this does not hold         *)
(* (README, Limits of the results).                                        *)
KeptBackStayPending ==
    [][auto.pc = "reconcile" /\ auto' = NoAuto =>
          \A i \in Pending : rows'[i].state = "applied" => rows[i].pkg \notin auto.seen]_vars

(* The same for the update a user started (routes/api.py, 215-219): "a     *)
(* zero exit is not proof that everything was installed".  It does not     *)
(* hold (README, Limits of the results).                                   *)
AppliedWasInstalled ==
    [][job.pc = "record" /\ job' = NoJob =>
          \A i \in Pending : rows'[i].state = "applied" => rows[i].pkg \notin outdated]_vars

(* The per-guest lock is there "so a user-triggered scan and the scheduled *)
(* scan_all_guests() run can never race on the same guest" (scanner.py,    *)
(* 2584-2586): what a guest shows is what its last scan found, so that one *)
(* shown as up to date has no pending rows.  It does not hold when the     *)
(* second of two scans waited (README, Limits of the results).             *)
UpToDateIsClean == status = "up-to-date" => Pending = {}

=============================================================================
