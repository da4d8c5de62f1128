--------------------------- MODULE GuestProcedure ---------------------------
(***************************************************************************)
(* The machine that carries out an application procedure on a guest: a     *)
(* pre-flight if the operator asks for one, then the install, upgrade or   *)
(* configuration itself, started again after a failure.  The procedures    *)
(* are data (module Steps); what can go wrong on the way is not: commands  *)
(* that fail or time out with none, half or all of their effect done, a    *)
(* connection lost in the middle of a run, and an end of the process.      *)
(***************************************************************************)
EXTENDS Naturals, Sequences

CONSTANTS
    Goals,      \* name -> what is run and what is expected of it
    MaxFaults   \* bound: faults in one behaviour

VARIABLES
    goal,       \* the procedure the operator wants done
    run,        \* which of its parts runs
    pc,         \* the step of that part
    facts,      \* what holds on the guest, in the records and in the run
    phase,      \* "idle", "running", "ok" or "failed"
    faults,     \* faults that may still happen
    cleared     \* the pre-flight was all clear and no fault happened since

vars == << goal, run, pc, facts, phase, faults, cleared >>

\* "served" and "complete" say how the behaviour began: the service was up, the
\* guest had all that the procedure needs.

\* Facts that are local variables of a run: they do not outlive it.
Local == {"link", "protected", "check failed", "no asset", "not running",
          "inactive", "not read", "not found", "no corepack", "stashed",
          "pull failed", "update failed", "no range", "no reload", "db link",
          "dump failed", "dumped", "unhealthy", "warned", "no ssh",
          "missing", "no chrome", "prom link", "rejected", "install failed",
          "files failed", "already", "rolled back"}

Parts == {"preflight", "check", "detect", "health", "main"}

Steps(g, r) == Goals[g].parts[r]

Row == Steps(goal, run)[pc]

AtStep == phase = "running" /\ pc \in DOMAIN Steps(goal, run)

Applies(s) == s.when \subseteq facts /\ s.unless \cap facts = {}
Works(s)   == s.need \subseteq facts /\ s.bar \cap facts = {}

Init ==
    /\ goal \in DOMAIN Goals
    /\ \E s \in Goals[goal].start :
           facts = s \cup {f \in {"served"} : "up" \in s}
                     \cup {f \in {"complete"} : Goals[goal].ready \subseteq s}
    /\ run = "main" /\ pc = 0 /\ phase = "idle"
    /\ faults = MaxFaults /\ cleared = FALSE

\* The operator presses Pre-flight, Check, Detect, Install or Upgrade.
Begin(r) ==
    /\ \/ phase \in {"idle", "failed"}
       \/ phase = "ok" /\ run # "main"
    /\ Goals[goal].parts[r] # << >>
    /\ r # "main" => phase = "idle"
    /\ run' = r /\ pc' = 1 /\ phase' = "running"
    /\ facts' = facts \ Local
    /\ cleared' = (cleared /\ phase = "ok")
    /\ UNCHANGED << goal, faults >>

Goto == pc' = pc + 1 /\ UNCHANGED << goal, run, phase, faults, cleared >>

\* The condition around the step is false.
Skip == AtStep /\ ~Applies(Row) /\ Goto /\ UNCHANGED facts

Succeed ==
    /\ AtStep /\ Applies(Row) /\ Works(Row)
    /\ facts' = (facts \ Row.del) \cup Row.add
    /\ Goto

\* Where the code goes when a step did not succeed.
OnFailure ==
    /\ IF Row.halt THEN phase' = "failed" /\ pc' = pc
                   ELSE phase' = phase /\ pc' = pc + 1
    /\ UNCHANGED << goal, run >>

\* What the step needs is not there: it fails and changes nothing.
Fail ==
    /\ AtStep /\ Applies(Row) /\ ~Works(Row)
    /\ facts' = facts \cup Row.mark
    /\ OnFailure
    /\ UNCHANGED << faults, cleared >>

\* Bound: what can go wrong is explored on guests that lack nothing.
Fault ==
    /\ faults > 0 /\ "complete" \in facts
    /\ faults' = faults - 1 /\ cleared' = FALSE

\* A command exits with an error, or its time runs out, with none, half or all
\* of its effect done: what it replaces in place (a build, a service that is
\* restarted) may be gone and not yet back.
Break ==
    /\ AtStep /\ Applies(Row) /\ Works(Row) /\ ~Row.sure
    /\ Fault
    /\ \E left \in {facts, facts \ (Row.del \cap Row.add),
                    (facts \ Row.del) \cup Row.add} :
           facts' = left \cup Row.mark
    /\ OnFailure

\* The SSH connection is gone: every later command of the run returns -1.
LinkLost ==
    /\ AtStep /\ "link" \in facts
    /\ Fault
    /\ facts' = facts \ {"link"}
    /\ UNCHANGED << goal, run, pc, phase >>

\* The tool's process ends in the middle of a run.
Killed ==
    /\ AtStep /\ Fault
    /\ phase' = "failed" /\ facts' = facts \cup {"killed"}
    /\ UNCHANGED << goal, run, pc >>

\* The end of the procedure: return True, or the pre-flight's all clear.
Finish ==
    /\ phase = "running" /\ pc = Len(Steps(goal, run)) + 1
    /\ phase' = "ok"
    /\ cleared' = IF run = "preflight" THEN faults = MaxFaults ELSE cleared /\ run = "main"
    /\ UNCHANGED << goal, run, pc, facts, faults >>

Step == Skip \/ Succeed \/ Fail \/ Finish

Next == \/ \E r \in Parts : Begin(r)
        \/ Step
        \/ Break \/ LinkLost \/ Killed

\* A run is a thread that the interpreter schedules, so its steps go on; the
\* operator starts a failed procedure again.
Spec == Init /\ [][Next]_vars /\ WF_vars(Step) /\ WF_vars(Begin("main"))
-----------------------------------------------------------------------------
TypeOK ==
    /\ goal \in DOMAIN Goals /\ run \in Parts
    /\ pc \in 0 .. Len(Steps(goal, run)) + 1
    /\ phase \in {"idle", "running", "ok", "failed"}
    /\ faults \in 0 .. MaxFaults /\ cleared \in BOOLEAN

\* A procedure that returns True leaves on the guest what it was run for: the
\* service runs, from the new code, with its files in place.  It may be excused
\* by a step whose failure the code only warns about, and by nothing else.
SuccessHonest ==
    phase = "ok" /\ run = "main" =>
        \/ Goals[goal].promise \subseteq facts
        \/ Goals[goal].excuse \cap facts # {}

\* The step about to run changes a guest over SSH.
Changes(s) == /\ {"link", "db link"} \cap s.need # {}
              /\ (s.add \cup s.del) \ Local # {}

\* No command that changes a guest is sent before the run's snapshot or backup
\* is complete, and none before the database is dumped where the procedure
\* dumps it, except by the procedures that take none and by the super-admin's
\* request to skip protection.
ProtectedBeforeChange ==
    AtStep /\ run = "main" /\ Applies(Row) /\ Changes(Row) =>
        \/ "skip" \in facts \/ Goals[goal].unprotected
        \/ /\ "protected" \in facts
           /\ Goals[goal].dumps # {} /\ Goals[goal].dumps \subseteq facts => "dumped" \in facts

\* An all-clear pre-flight predicts the run that follows it: without a fault in
\* between, that run fails only on a guest that lacks something the pre-flight
\* does not look at, or has something the run refuses to work on.
PreflightPredicts ==
    phase = "failed" /\ run = "main" /\ cleared =>
        \/ ~(Goals[goal].unseen \subseteq facts)
        \/ Goals[goal].stuck \cap facts # {}

\* What must not get lost whatever fails: at each moment one of the places that
\* may hold it does (local changes in the tree or in the stash, the old
\* configuration or its backup).
NothingLost == \A places \in Goals[goal].kept : places \cap facts # {}

\* A run records a version only for the code that is running, and a run or a
\* check of the releases that ends well leaves an update on offer only while the
\* record is behind the newest release.  A row says "installing" after a run only
\* if the process ended in the middle of a run.
RecordsHonest ==
    /\ "version" \in facts => ({"live"} \cup Goals[goal].excuse) \cap facts # {}
    /\ phase = "ok" /\ run \in {"check", "main"} /\ "offer" \in facts =>
           "behind" \in facts
    /\ phase \in {"ok", "failed"} /\ "in progress" \in facts => "killed" \in facts

\* A run that is refused, because the guest lacks something and not because
\* anything failed on the way, does no harm: a service that was up before it is
\* up after it.
RefusalsHarmless ==
    phase = "failed" /\ faults = MaxFaults /\ "served" \in facts => "up" \in facts

\* Failures can be retried: on a guest that has what the procedure needs, an
\* operator who starts it again after each failure sees it succeed once the
\* faults are over, unless an earlier failure left something the code refuses
\* to work on, or took away a file that only a person can bring back.
RetriesSucceed ==
    "complete" \in facts =>
        <>(\/ phase = "ok" /\ run = "main"
           \/ Goals[goal].stuck \cap facts # {}
           \/ ~(Goals[goal].vital \subseteq facts))
=============================================================================
