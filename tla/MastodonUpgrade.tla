-------------------------- MODULE MastodonUpgrade --------------------------
(***************************************************************************)
(* run_mastodon_upgrade: the upgrade of a Mastodon guest over SSH, one     *)
(* remote command per step.  The guest keeps its state between runs: the   *)
(* working tree with the operator's local changes, the git stash, the      *)
(* database settings in .env.production, what the running services were    *)
(* started with, and the schema.  A command may exit non-zero, may be      *)
(* half done, and the SSH connection may drop with the command carried out *)
(* or not.  A second application guest only gets the code.                 *)
(***************************************************************************)
EXTENDS Integers

CONSTANTS
    SecondGuest,  \* whether mastodon_guest_id_2 names another guest
    FaultSets,    \* the combinations of failures considered, sets of FaultKinds
    MaxRuns       \* bound on the number of upgrades

\* exit      a command exits non-zero and has done nothing
\* partial   _swap_env_db reports failure after changing the file
\* conflict  git stash pop ends in conflicts
\* drop      the SSH connection fails, before or after the command ran
\* restart   systemctl restart exits non-zero
\* checkout  git checkout --theirs fails on a conflicted file
FaultKinds == {"exit", "partial", "conflict", "drop", "restart", "checkout"}

ASSUME SecondGuestAssumption == SecondGuest \in BOOLEAN
ASSUME FaultSetsAssumption == FaultSets \subseteq SUBSET FaultKinds
ASSUME MaxRunsAssumption == MaxRuns \in Nat

VARIABLES
    faults,   \* the failures that may occur; never changes
    pc,       \* the step of run_mastodon_upgrade, "idle" between runs
    g,        \* the application guest
    g2,       \* the second application guest
    skip,     \* skip_protection
    snap,     \* the guests protected by this run
    swapped,  \* the local env_swapped
    pending,  \* the local stash_pending
    pending2, \* the local stashed of _run_second_guest_sync
    restore,  \* the argument restore_env of _abort
    again,    \* the abort runs over the reconnected session
    warned,   \* what the log told the operator to repair by hand; "unread" once
              \* git add or git stash drop failed unnoticed (no guard reads it)
    result,   \* the outcome of the last run
    runs      \* number of runs so far

vars == <<faults, pc, g, g2, skip, snap, swapped, pending, pending2, restore, again,
          warned, result, runs>>
flags == <<swapped, pending, restore, again>>
rest == <<g2, skip, snap, pending2, result, runs>>

\* code: what is checked out; local: the tree carries local changes;
\* stash: entries on the stash; unmerged: conflicted files in the tree;
\* host, port: DB_HOST and DB_PORT of .env.production; built: dependencies and
\* assets of the new code; srvCode, srvPool: the code the services run and
\* whether they connect through PGBouncer
GuestState ==
    [code : {"old", "new"}, local : BOOLEAN, stash : Nat,
     unmerged : BOOLEAN, host : {"pgb", "direct"}, port : {"pgb", "direct"},
     built : BOOLEAN, srvCode : {"old", "new"}, srvPool : BOOLEAN,
     schema : {"old", "pre", "post"}]

Fresh(local) ==
    [code |-> "old", local |-> local, stash |-> 0, unmerged |-> FALSE,
     host |-> "pgb", port |-> "pgb", built |-> FALSE,
     srvCode |-> "old", srvPool |-> TRUE, schema |-> "old"]

Pool(h) == h.host = "pgb" /\ h.port = "pgb"
Targets == IF SecondGuest THEN {"app", "app2", "db"} ELSE {"app", "db"}

Init ==
    /\ faults \in FaultSets
    /\ pc = "idle"
    /\ g \in {Fresh(l) : l \in BOOLEAN}
    /\ g2 \in {Fresh(l) : l \in BOOLEAN}
    /\ skip = FALSE /\ snap = {} /\ swapped = FALSE
    /\ pending = FALSE /\ pending2 = FALSE
    /\ restore = FALSE /\ again = FALSE
    /\ warned = {} /\ result = "none" /\ runs = 0

----------------------------------------------------------------------------
(* How a remote command ends. *)

\* exit 0; non-zero exit; connection lost before or after it took effect
Exec(step, after, next, onFail) ==
    /\ pc = step
    /\ \/ g' = after /\ pc' = next
       \/ "exit" \in faults /\ g' = g /\ pc' = onFail
       \/ "drop" \in faults /\ g' \in {g, after} /\ pc' = "dropped"

\* return False, "\n".join(log_lines)
Fail == pc' = "idle" /\ result' = "error"

\* what git does to the guest
Stashed(h) == IF h.local THEN [h EXCEPT !.local = FALSE, !.stash = @ + 1] ELSE h
\* git stash pop applies and drops the newest entry; on a conflict the entry
\* stays; without an entry it exits non-zero
PopResults(h) ==
    IF h.stash > 0 THEN {[h EXCEPT !.local = TRUE, !.stash = @ - 1]} ELSE {}
PopConflicts(h) ==
    IF h.stash > 0 /\ "conflict" \in faults
    THEN {[h EXCEPT !.local = TRUE, !.unmerged = TRUE]} ELSE {}
PopMayFail(h) == h.stash = 0 \/ "exit" \in faults

\* _swap_env_db: two sed commands, then the file is read back
Swapped(h, to) == [h EXCEPT !.host = to, !.port = to]
HalfSwapped(h, to) == [h EXCEPT !.host = to]

SwapEnvDb(step, to, next, onFail) ==
    /\ pc = step
    /\ \/ g' = Swapped(g, to) /\ pc' = next
       \/ "exit" \in faults /\ g' = g /\ pc' = onFail
       \/ "partial" \in faults /\ g' \in {HalfSwapped(g, to), Swapped(g, to)} /\ pc' = onFail
       \/ "drop" \in faults /\ g' \in {g, HalfSwapped(g, to), Swapped(g, to)}
                            /\ pc' = "dropped"

----------------------------------------------------------------------------
(* Before the guest is touched. *)

\* the configuration is read and validated; the local variables are fresh
StartRun ==
    /\ pc = "idle"
    /\ runs < MaxRuns
    /\ pc' = "check"
    /\ skip' \in BOOLEAN
    /\ snap' = {} /\ swapped' = FALSE /\ pending' = FALSE /\ pending2' = FALSE
    /\ restore' = TRUE /\ again' = FALSE
    /\ result' = "none" /\ runs' = runs + 1
    /\ UNCHANGED <<g, g2, warned>>

\* _check_env_compliance, _check_memory_headroom: only too little memory ends
\* the run, an exception is logged and tolerated
CheckEnvironment ==
    /\ pc = "check"
    /\ \/ pc' = (IF skip THEN "unmerged" ELSE "protect") /\ UNCHANGED result
       \/ "exit" \in faults /\ Fail
    /\ UNCHANGED <<g, g2, skip, snap, pending2, flags, warned, runs>>

\* snapshot_guest or backup_guest, guest by guest: application, second, database
NextTarget ==
    IF "app" \notin snap THEN "app"
    ELSE IF SecondGuest /\ "app2" \notin snap THEN "app2" ELSE "db"

\* variant: a failed snapshot is logged and the run goes on
ProtectAnyway ==
    /\ pc = "protect"
    /\ pc' = "unmerged"
    /\ UNCHANGED <<g, g2, skip, snap, pending2, flags, warned, result, runs>>

Protect ==
    /\ pc = "protect"
    /\ \/ /\ snap' = snap \cup {NextTarget}
          /\ pc' = IF snap' = Targets THEN "dump" ELSE "protect"
          /\ UNCHANGED result
       \/ "exit" \in faults /\ Fail /\ UNCHANGED snap
    /\ UNCHANGED <<g, g2, skip, pending2, flags, warned, runs>>

\* pg_dump on the database guest: every failure is tolerated
PgDump ==
    /\ pc = "dump"
    /\ pc' = "unmerged"
    /\ UNCHANGED <<g, flags, warned, rest>>

----------------------------------------------------------------------------
(* The SSH session with the application guest. *)

\* unmerged files, or no connection: nothing has been touched yet
CheckUnmerged ==
    /\ pc = "unmerged"
    /\ \/ ~g.unmerged /\ pc' = "stash" /\ UNCHANGED result
       \/ (g.unmerged \/ "drop" \in faults) /\ Fail
    /\ UNCHANGED <<g, g2, skip, snap, pending2, flags, warned, runs>>

\* _git_stash; stash_pending is set once its output was read
GitStash ==
    /\ Exec("stash", Stashed(g), "swap", "failed")
    /\ pending' = IF pc' = "swap" THEN g.local ELSE pending
    /\ UNCHANGED <<swapped, restore, again, warned, rest>>

\* .env.production is pointed at the direct database for the migrations
SwapToDirect ==
    /\ \/ SwapEnvDb("swap", "direct", "pull", "abort_stash")
       \/ SwapEnvDb("reswap", "direct", "post", "abort_stash")
    /\ swapped' = (swapped \/ pc' \in {"pull", "post"})
    /\ restore' = (pc' # "abort_stash")
    /\ UNCHANGED <<pending, again, warned, rest>>

GitPull ==
    /\ Exec("pull", [g EXCEPT !.code = "new", !.built = @ /\ g.code = "new"],
            "pop", "abort_stash")
    /\ UNCHANGED <<flags, warned, rest>>

\* git stash pop, if one is owed; _resolve_stash_conflicts when it conflicts
StashPop ==
    /\ pc = "pop"
    /\ \/ ~pending /\ pc' = "runtime" /\ UNCHANGED <<g, pending, warned>>
       \/ /\ pending /\ g' \in PopResults(g)
          /\ pending' = FALSE /\ pc' = "runtime" /\ UNCHANGED warned
       \/ /\ pending /\ g' \in PopConflicts(g)
          /\ pc' = "resolve" /\ UNCHANGED <<pending, warned>>
       \/ /\ pending /\ PopMayFail(g)
          /\ pc' = "runtime" /\ warned' = warned \cup {"stash"} /\ UNCHANGED <<g, pending>>
       \/ /\ pending /\ "drop" \in faults
          /\ g' \in {g} \cup PopResults(g) \cup PopConflicts(g) /\ pc' = "dropped"
          /\ UNCHANGED <<pending, warned>>
    /\ UNCHANGED <<swapped, restore, again, rest>>

\* the conflicted files take the stashed version, are added, the entry dropped
Resolved(h) == [h EXCEPT !.unmerged = FALSE]
Dropped(h) == [h EXCEPT !.stash = @ - 1]
\* ... or not, if git add, git stash drop or both exit non-zero
HalfResolved(h) ==
    IF "exit" \in faults THEN {h, Resolved(h), Dropped(h)} ELSE {}

\* variant: git checkout --ours
ResolveWithOurs ==
    /\ pc = "resolve"
    /\ g' = [Dropped(Resolved(g)) EXCEPT !.local = FALSE] /\ pending' = FALSE
    /\ pc' = "runtime"
    /\ UNCHANGED <<swapped, restore, again, warned, rest>>

\* The exit codes of checkout, add and drop are not looked at: whatever they did,
\* the log says that the conflicts are resolved.  If git diff fails no conflicted
\* file is found, and the pop counts as failed.
ResolveStashConflicts ==
    /\ pc = "resolve"
    /\ \/ /\ g' = Dropped(Resolved(g))
          /\ pending' = FALSE /\ pc' = "runtime" /\ UNCHANGED warned
       \/ /\ g' \in HalfResolved(g)
          /\ pending' = FALSE /\ pc' = "runtime" /\ warned' = warned \cup {"unread"}
       \/ /\ "checkout" \in faults
          /\ g' = [Dropped(Resolved(g)) EXCEPT !.local = FALSE]
          /\ pending' = FALSE /\ pc' = "runtime" /\ UNCHANGED warned
       \/ /\ "exit" \in faults
          /\ pc' = "runtime" /\ warned' = warned \cup {"stash"} /\ UNCHANGED <<g, pending>>
       \/ /\ "drop" \in faults
          /\ g' \in {g, Resolved(g), Dropped(Resolved(g))}
          /\ pc' = "dropped" /\ UNCHANGED <<pending, warned>>
    /\ UNCHANGED <<swapped, restore, again, rest>>

\* _remediate_environment: Ruby, then Bundler, then Node.js; it aborts when one
\* of them cannot be brought to the version the new code asks for
RemediateEnvironment ==
    /\ Exec("runtime", g, "bundle", "abort_stash")
    /\ UNCHANGED <<flags, warned, rest>>

\* bundle install, yarn install, assets:precompile
Build ==
    /\ \/ Exec("bundle", g, "yarn", "abort_stash")
       \/ Exec("yarn", g, "pre", "abort_stash")
       \/ Exec("assets", [g EXCEPT !.built = TRUE], "restore1", "abort_stash")
    /\ UNCHANGED <<flags, warned, rest>>

PreMigrate ==
    /\ Exec("pre", [g EXCEPT !.schema = IF @ = "old" THEN "pre" ELSE @],
            "assets", "abort_stash")
    /\ UNCHANGED <<flags, warned, rest>>

\* variant: the result of _restore_env is not looked at
RestoreEnvAnyway ==
    /\ \/ SwapEnvDb("restore1", "pgb", "restart1", "restart1")
       \/ SwapEnvDb("restore2", "pgb", "restart2", "restart2")
    /\ swapped' = FALSE
    /\ UNCHANGED <<pending, restore, again, warned, rest>>

\* _restore_env before each restart: on failure the run aborts instead
RestoreEnv ==
    /\ \/ SwapEnvDb("restore1", "pgb", "restart1", "abort_stash")
       \/ SwapEnvDb("restore2", "pgb", "restart2", "abort_stash")
    /\ swapped' = (swapped /\ pc' \notin {"restart1", "restart2"})
    /\ restore' = (pc' # "abort_stash")
    /\ warned' = IF pc' = "abort_stash" THEN warned \cup {"env"} ELSE warned
    /\ UNCHANGED <<pending, again, rest>>

\* systemctl restart mastodon-*: its exit code is only logged
Restarted(h) == [h EXCEPT !.srvCode = h.code, !.srvPool = Pool(h)]

\* variant: the restart between the two migrations is missing
RestartOnlyOnce ==
    /\ \/ pc = "restart1" /\ g' = g /\ pc' = "cache"
       \/ pc = "restart2" /\ g' = Restarted(g) /\ pc' = "version"
    /\ UNCHANGED <<flags, warned, rest>>

RestartServices ==
    /\ \E step \in {"restart1", "restart2"} :
          /\ pc = step
          /\ \/ /\ g' \in {Restarted(g)} \cup (IF "restart" \in faults THEN {g} ELSE {})
                /\ pc' = IF step = "restart1" THEN "cache" ELSE "version"
             \/ "drop" \in faults /\ g' \in {g, Restarted(g)} /\ pc' = "dropped"
    /\ UNCHANGED <<flags, warned, rest>>

\* tootctl cache clear and reading version.rb: failures are ignored
ClearCache ==
    /\ Exec("cache", g, "reswap", "reswap")
    /\ UNCHANGED <<flags, warned, rest>>

ReadVersion ==
    /\ Exec("version", g, IF SecondGuest THEN "stash2" ELSE "record",
            IF SecondGuest THEN "stash2" ELSE "record")
    /\ UNCHANGED <<flags, warned, rest>>

PostMigrate ==
    /\ Exec("post", [g EXCEPT !.schema = "post"], "restore2", "abort_stash")
    /\ UNCHANGED <<flags, warned, rest>>

----------------------------------------------------------------------------
(* Failure paths. *)

\* a return False that owes nothing
Failed ==
    /\ pc = "failed"
    /\ Fail
    /\ UNCHANGED <<g, g2, skip, snap, pending2, flags, warned, runs>>

\* variant: stash_pending is cleared without popping when the upgrade aborts
AbortForgettingStash ==
    /\ pc = "abort_stash"
    /\ pc' = "abort_env"
    /\ pending' = FALSE
    /\ UNCHANGED <<g, swapped, restore, again, warned, rest>>

\* _abort, first half: _git_stash_pop if stash_pending
AbortStash ==
    /\ pc = "abort_stash"
    /\ \/ ~pending /\ pc' = "abort_env" /\ UNCHANGED <<g, pending, warned>>
       \/ /\ pending /\ g' \in PopResults(g)
          /\ pending' = FALSE /\ pc' = "abort_env" /\ UNCHANGED warned
       \/ /\ pending
          /\ g' \in PopConflicts(g) \cup (IF PopMayFail(g) THEN {g} ELSE {})
          /\ pending' = FALSE /\ pc' = "abort_env" /\ warned' = warned \cup {"stash"}
       \/ /\ pending /\ "drop" \in faults
          /\ g' \in {g} \cup PopResults(g) \cup PopConflicts(g)
          /\ pc' = "dropped" /\ UNCHANGED <<pending, warned>>
    /\ UNCHANGED <<swapped, restore, again, rest>>

\* _abort, second half: _restore_env if asked to and env_swapped
AbortEnv ==
    /\ \/ /\ ~(restore /\ swapped)
          /\ pc = "abort_env" /\ pc' = "failed"
          /\ UNCHANGED <<g, swapped, warned>>
       \/ /\ restore /\ swapped
          /\ SwapEnvDb("abort_env", "pgb", "failed", "env_lost")
          /\ swapped' = (pc' # "failed")
          /\ UNCHANGED warned
       \/ /\ pc = "env_lost" /\ pc' = "failed"
          /\ warned' = warned \cup {"env"}
          /\ UNCHANGED <<g, swapped>>
    /\ UNCHANGED <<pending, restore, again, rest>>

\* variant: reconnect as often as the connection drops
ReconnectAlways ==
    /\ pc = "dropped"
    /\ pc' = IF swapped \/ pending THEN "abort_stash" ELSE "failed"
    /\ UNCHANGED <<g, flags, warned, rest>>

\* except Exception: reconnect once if the stash or the environment is owed
Reconnect ==
    /\ pc = "dropped"
    /\ \/ /\ ~(swapped \/ pending)
          /\ pc' = "failed"
          /\ UNCHANGED <<restore, again, warned>>
       \/ /\ swapped \/ pending
          /\ ~again
          /\ pc' = "abort_stash" /\ restore' = TRUE /\ again' = TRUE
          /\ UNCHANGED warned
       \/ /\ swapped \/ pending
          /\ pc' = "failed" /\ warned' = warned \cup {"stash", "env"}
          /\ UNCHANGED <<restore, again>>
    /\ UNCHANGED <<g, swapped, pending, rest>>

----------------------------------------------------------------------------
(* The second application guest, and the end of the run. *)

\* any failure of a step ends the synchronisation with a warning
Exec2(step, after, next) ==
    /\ pc = step
    /\ \/ g2' = after /\ pc' = next
       \/ "exit" \in faults /\ g2' = g2 /\ pc' = "record"
       \/ "drop" \in faults /\ g2' \in {g2, after} /\ pc' = "record"

\* git stash, git pull with the pop after its failure, git stash pop, runtimes
\* and build, restart
SyncSecondGuest ==
    /\ \/ Exec2("stash2", Stashed(g2), "pull2")
          /\ pending2' = (pc' = "pull2" /\ g2.local)
       \/ Exec2("pull2", [g2 EXCEPT !.code = "new"], "pop2") /\ UNCHANGED pending2
       \/ /\ pc = "pull2" /\ "exit" \in faults /\ pending2
          /\ g2' \in PopResults(g2) \cup PopConflicts(g2)
          /\ pc' = "record" /\ UNCHANGED pending2
       \/ /\ pc = "pop2"
          /\ pc' \in {"build2"} \cup (IF "drop" \in faults THEN {"record"} ELSE {})
          /\ g2' \in IF ~pending2 THEN {g2}
                     ELSE PopResults(g2) \cup PopConflicts(g2)
                          \cup (IF PopMayFail(g2) \/ pc' = "record" THEN {g2} ELSE {})
          /\ UNCHANGED pending2
       \/ Exec2("build2", [g2 EXCEPT !.built = TRUE], "restart2nd") /\ UNCHANGED pending2
       \/ Exec2("restart2nd", Restarted(g2), "record") /\ UNCHANGED pending2
    /\ UNCHANGED <<g, skip, snap, flags, warned, result, runs>>

\* the version and the outcome are written to the settings
RecordSuccess ==
    /\ pc = "record"
    /\ pc' = "idle" /\ result' = "success"
    /\ UNCHANGED <<g, g2, skip, snap, pending2, flags, warned, runs>>

----------------------------------------------------------------------------
(* The operator, between runs. *)

\* edits files of the application on the guest
EditLocally ==
    /\ pc = "idle" /\ runs < MaxRuns /\ ~g.local
    /\ g' = [g EXCEPT !.local = TRUE]
    /\ UNCHANGED <<pc, flags, warned, rest>>

Step ==
    \/ CheckEnvironment \/ Protect \/ PgDump
    \/ CheckUnmerged \/ GitStash \/ SwapToDirect \/ GitPull
    \/ StashPop \/ ResolveStashConflicts
    \/ RemediateEnvironment \/ Build \/ PreMigrate \/ RestoreEnv \/ RestartServices
    \/ ClearCache \/ PostMigrate \/ ReadVersion
    \/ Failed \/ AbortStash \/ AbortEnv \/ Reconnect
    \/ SyncSecondGuest \/ RecordSuccess

Next == (Step \/ StartRun \/ EditLocally) /\ UNCHANGED faults

Spec == Init /\ [][Next]_vars

\* every remote command has a timeout, so a run that started goes on
FairSpec == Spec /\ WF_vars(Step /\ UNCHANGED faults)

----------------------------------------------------------------------------
(* Properties. *)

Pcs == {"idle", "check", "protect", "dump", "unmerged", "stash", "swap", "pull",
        "pop", "resolve", "runtime", "bundle", "yarn", "pre", "assets",
        "restore1", "restart1", "cache", "reswap", "post", "restore2",
        "restart2", "version", "failed", "abort_stash", "abort_env", "env_lost",
        "dropped", "stash2", "pull2", "pop2", "build2", "restart2nd", "record"}

\* Type correctness.
TypeOK ==
    /\ faults \in FaultSets
    /\ pc \in Pcs
    /\ g \in GuestState /\ g2 \in GuestState
    /\ skip \in BOOLEAN /\ snap \subseteq {"app", "app2", "db"}
    /\ swapped \in BOOLEAN /\ pending \in BOOLEAN /\ pending2 \in BOOLEAN
    /\ restore \in BOOLEAN /\ again \in BOOLEAN
    /\ warned \subseteq {"stash", "env", "unread"}
    /\ result \in {"none", "success", "error"}
    /\ runs \in 0..MaxRuns

\* Live traffic never bypasses the connection pool: the services are only ever
\* restarted with .env.production pointing at PGBouncer (run_mastodon_upgrade,
\* the two _restore_env calls), whatever failed before in this or another run.
ServesThroughPool == g.srvPool /\ g2.srvPool

\* The inductive invariant: between a successful _restore_env and the restart
\* that follows it the file points at the pool, and conflicts are only ever
\* resolved while their entry is still on the stash.
RestartsOnPool == pc \in {"restart1", "restart2"} => Pool(g)
ResolvesAnEntry == pc = "resolve" => g.stash > 0
IInv == TypeOK /\ RestartsOnPool /\ ResolvesAnEntry /\ Pool(g2) /\ ServesThroughPool

\* The services run the new code only after its dependencies and assets were
\* built and the pre-deployment migrations applied.
ServesOnlyBuilt == g.srvCode = "new" => g.built /\ g.schema # "old"

\* Post-deployment migrations, which may remove what the old code reads, run
\* only once the application guest serves the new code.  (A second guest is
\* synchronised after them and serves the old code until then.)
PostMigrationsOnNewCode == g.schema = "post" => g.srvCode = "new"

\* The code the services run fits what is built and migrated: new code only
\* after its build and the pre-deployment migrations and, unless systemctl
\* restart fails unnoticed, post-deployment migrations only once the new code
\* is served (run_mastodon_upgrade, the order of its steps).
CodeFitsSchema == ServesOnlyBuilt /\ ("restart" \notin faults => PostMigrationsOnNewCode)

\* the log spoke of what is left of the stash, or a command of
\* _resolve_stash_conflicts failed, which nothing speaks of
StashTold == "stash" \in warned \/ "unread" \in warned

\* A run that ends with the file off the pool, with local changes left on the
\* stash or with conflicts in the tree has told the operator, unless they are left
\* by a git add or git stash drop whose exit code nobody reads.
NoSilentDebt ==
    pc = "idle" => /\ ~Pool(g) => "env" \in warned
                   /\ g.stash > 0 \/ g.unmerged => StashTold

\* Success is recorded only for a guest that serves new code through the pool,
\* fully migrated, with .env.production restored.
SuccessTruthful ==
    pc = "idle" /\ result = "success" =>
        Pool(g) /\ g.srvCode = "new" /\ g.schema = "post"

\* What the operator is told is true: a recorded success is one unless a
\* restart failed unnoticed, and what a run leaves to repair is announced as
\* long as every command either does its work or nothing (_abort), the stash
\* only up to what _resolve_stash_conflicts leaves behind without a word.
OutcomeHonest ==
    /\ "restart" \notin faults => SuccessTruthful
    /\ {"partial", "drop"} \cap faults = {} => NoSilentDebt

\* The operator's local changes are never lost: they leave the tree only for
\* the stash and leave the stash only for the tree, unless git checkout fails
\* while conflicts are resolved (_git_stash, _resolve_stash_conflicts).
ChangesKept(h, r) ==
    /\ h.local /\ ~r.local => r.stash = h.stash + 1
    /\ r.stash < h.stash => r.local
LocalChangesKept ==
    [][ "checkout" \notin faults => ChangesKept(g, g') /\ ChangesKept(g2, g2') ]_vars

\* Unless a super-admin asked to skip it, no run changes a guest before every
\* guest involved has been snapshotted or backed up.
ProtectedBeforeChange ==
    [][pc # "idle" /\ <<g, g2>>' # <<g, g2>> => skip \/ snap = Targets]_vars

\* Every upgrade ends.
RunsEnd == pc # "idle" ~> pc = "idle"
----------------------------------------------------------------------------
(* What these rest on. *)

\* the steps after the build, and after each of the two restarts
Finishing == {"version", "stash2", "pull2", "pop2", "build2", "restart2nd", "record"}
AfterPost == {"restore2", "restart2"} \cup Finishing
AfterRestart == {"cache", "reswap", "post"} \cup AfterPost
AfterBuild == {"restore1", "restart1"} \cup AfterRestart
AfterPull == {"pop", "resolve", "runtime", "bundle", "yarn", "pre", "assets"} \cup AfterBuild

\* how far the guest is, step by step
Deployed ==
    /\ pc \in AfterPull => g.code = "new"
    /\ pc \in {"assets"} \cup AfterBuild => g.schema # "old"
    /\ pc \in AfterBuild => g.built
    /\ g.srvCode = "new" => g.code = "new" /\ g.built /\ g.schema # "old"
    /\ "restart" \notin faults =>
          (pc \in AfterRestart \/ g.schema = "post" => g.srvCode = "new")

\* what a run that is finishing, or a recorded success, has achieved
Complete ==
    /\ pc \in AfterPost \/ result = "success" => g.schema = "post"
    /\ pc \in Finishing \/ result = "success" => Pool(g)
    /\ result = "success" => pc = "idle"

\* with commands that do their work or nothing, an entry on the stash is owed
\* to the operator or announced, and so is a file off the pool
Clean == {"partial", "drop"} \cap faults = {}
StashOwed ==
    ~StashTold =>
        /\ g.stash > 0 => pending /\ g.stash = 1
        /\ g.unmerged => pc = "resolve"
        /\ pending => pc \in {"swap", "pull", "pop", "resolve", "abort_stash"}
EnvOwed ==
    ~Pool(g) /\ "env" \notin warned =>
        \/ pc = "env_lost"
        \/ /\ swapped /\ restore
           /\ pc \in {"pull", "pop", "resolve", "runtime", "bundle", "yarn", "pre",
                     "assets", "restore1", "post", "restore2", "abort_stash", "abort_env"}

\* the inductive invariant of CodeFitsSchema, OutcomeHonest and LocalChangesKept
DeepInv ==
    /\ IInv /\ Deployed /\ Complete
    /\ Clean => StashOwed /\ EnvOwed
    /\ pc = "resolve" => g.local
=============================================================================
