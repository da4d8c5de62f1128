---------------------------- MODULE MCBackground ----------------------------
(***************************************************************************)
(* The scans of guests and the Proxmox tasks, for TLC: the jobs that run   *)
(* behind a progress page besides the updates.  They share no state; a     *)
(* behaviour is one of the kind chosen at the start, and the other rests.  *)
(* The modes:                                                              *)
(*   scans   a single, a scheduled and two bulk scans of two guests; the   *)
(*           database answers                                              *)
(*   faults  the same without the scheduled scan, and the database may     *)
(*           raise                                                         *)
(*   tasks   a task of each type, and a second backup beside a first       *)
(***************************************************************************)
EXTENDS ScanJobs

CONSTANTS TaskGuests, Linked, Stored, MaxTasks, Deadline, MaxStatusErrors

ASSUME TasksAssumption ==
    MaxTasks \in Nat /\ Deadline \in Nat \ {0} /\ MaxStatusErrors \in Nat \ {0}

VARIABLES
    mode,
    task, key, taskJob, slot, poller

tasks == <<task, key, taskJob, slot, poller>>

Faultless == INSTANCE ScanJobs WITH Faults <- FALSE
Tasks == INSTANCE ProxmoxTasks WITH
             job <- taskJob, Guests <- TaskGuests, Faults <- TRUE

MCInit == Init /\ Tasks!Init /\ mode \in {"scans", "faults", "tasks"}

ScanNext ==
    /\ UNCHANGED <<mode, tasks>>
    /\ \/ mode = "scans" /\ Faultless!Next
       \/ mode = "faults" /\ Next /\ \A t \in Crons : thr'[t] = thr[t]

\* Tasks of different keys do not meet: a second one has the key of the first.
TaskNext ==
    /\ mode = "tasks"
    /\ UNCHANGED <<mode, vars>>
    /\ Tasks!Next
    /\ \A u \in 2..MaxTasks : key'[u] # Tasks!NoKey => key'[u] = key'[1] /\ key'[u][1] = "backup"

MCNext == ScanNext \/ TaskNext

MCVars == <<mode, vars, tasks>>

\* The threads that are under way go on.
ScanAdvances(t) ==
    /\ UNCHANGED <<mode, tasks>>
    /\ \/ mode = "scans" /\ Faultless!Advance(t)
       \/ mode = "faults" /\ Advance(t)
PollAdvances(p) == mode = "tasks" /\ Tasks!Poll(p) /\ UNCHANGED <<mode, vars>>

MCSpec ==
    /\ MCInit /\ [][MCNext]_MCVars
    /\ \A t \in Threads : SF_MCVars(ScanAdvances(t))
    /\ \A p \in 1..MaxTasks : WF_MCVars(PollAdvances(p))

----------------------------------------------------------------------------
\* What a Proxmox job shows is how its task ended, whichever threads polled it,
\* and a job shown as running has a thread to end it (_poll_proxmox_task).
OutcomeTrue == Tasks!TypeOK /\ Tasks!OutcomeTrue /\ Tasks!RunningIsPolled

\* Every scan ends unless its thread died of a database fault, and every
\* polling ends even if the task or its node never answers (_run_bulk_scan,
\* _poll_proxmox_task).
WorkEnds == ScansEnd /\ Tasks!PollingEnds
=============================================================================
