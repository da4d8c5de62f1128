----------------------- MODULE MastodonUpgradeProofs -----------------------
(***************************************************************************)
(* That the Mastodon upgrade never puts live traffic on the direct         *)
(* database and never touches a guest before it is protected, that the     *)
(* code the services run fits the schema, that the operator is told the    *)
(* truth about a run, and that local changes survive it, for any number of *)
(* runs and any combination of failures.                                   *)
(***************************************************************************)
EXTENDS MastodonUpgrade, TLAPS

\* Any update of the stash and of the local changes leaves a guest state.
LEMMA StashUpdate ==
    ASSUME NEW h \in GuestState, NEW l \in BOOLEAN, NEW n \in Nat
    PROVE  /\ [h EXCEPT !.local = l, !.stash = n] \in GuestState
           /\ [h EXCEPT !.local = l, !.stash = n].srvPool = h.srvPool
           /\ [h EXCEPT !.local = l, !.stash = n].host = h.host
           /\ [h EXCEPT !.local = l, !.stash = n].port = h.port
           /\ [h EXCEPT !.stash = n] \in GuestState
           /\ [h EXCEPT !.stash = n].srvPool = h.srvPool
  BY DEF GuestState

\* What each remote command makes of a guest is a guest state again, and
\* leaves alone what the services were started with.
LEMMA GuestOps ==
    ASSUME NEW h \in GuestState
    PROVE  /\ Stashed(h) \in GuestState /\ Stashed(h).srvPool = h.srvPool
           /\ Stashed(h).host = h.host /\ Stashed(h).port = h.port
           /\ \A r \in PopResults(h) \cup PopConflicts(h) :
                 /\ r \in GuestState /\ r.srvPool = h.srvPool
                 /\ r.host = h.host /\ r.port = h.port
           /\ \A r \in PopConflicts(h) : r.stash > 0
           /\ Resolved(h) \in GuestState /\ Resolved(h).srvPool = h.srvPool
           /\ Resolved(h).stash = h.stash
<1>1. /\ Stashed(h) \in GuestState /\ Stashed(h).srvPool = h.srvPool
      /\ Stashed(h).host = h.host /\ Stashed(h).port = h.port
  <2>1. h.stash + 1 \in Nat
    BY DEF GuestState
  <2>2. CASE h.local
    <3>1. Stashed(h) = [h EXCEPT !.local = FALSE, !.stash = h.stash + 1]
      BY <2>2 DEF Stashed, GuestState
    <3> QED
      BY <2>1, <3>1, StashUpdate, ZenonT(60)
  <2>3. CASE ~h.local
    BY <2>3 DEF Stashed
  <2> QED
    BY <2>2, <2>3
<1>2. \A r \in PopResults(h) :
         /\ r \in GuestState /\ r.srvPool = h.srvPool
         /\ r.host = h.host /\ r.port = h.port
  <2>1. CASE h.stash > 0
    <3>1. h.stash - 1 \in Nat
      BY <2>1 DEF GuestState
    <3>2. PopResults(h) = {[h EXCEPT !.local = TRUE, !.stash = h.stash - 1]}
      BY <2>1 DEF PopResults, GuestState
    <3> DEFINE u == [h EXCEPT !.local = TRUE, !.stash = h.stash - 1]
    <3>3. u \in GuestState /\ u.srvPool = h.srvPool /\ u.host = h.host /\ u.port = h.port
      BY <3>1, StashUpdate
    <3>4. PopResults(h) = {u}
      BY <3>2
    <3> HIDE DEF u
    <3> QED
      BY <3>3, <3>4
  <2>2. CASE ~(h.stash > 0)
    BY <2>2 DEF PopResults
  <2> QED
    BY <2>1, <2>2
<1>3. \A r \in PopConflicts(h) :
         /\ r \in GuestState /\ r.srvPool = h.srvPool
         /\ r.host = h.host /\ r.port = h.port /\ r.stash > 0
  BY DEF GuestState, PopConflicts
<1>4. /\ Resolved(h) \in GuestState /\ Resolved(h).srvPool = h.srvPool
      /\ Resolved(h).stash = h.stash
  BY DEF GuestState, Resolved
<1> QED
  BY <1>1, <1>2, <1>3, <1>4

\* Dropping the newest entry of a stash that has one.
LEMMA DropOps ==
    ASSUME NEW h \in GuestState, h.stash > 0
    PROVE  /\ Dropped(Resolved(h)) \in GuestState
           /\ Dropped(Resolved(h)).srvPool = h.srvPool
           /\ Dropped(h) \in GuestState /\ Dropped(h).srvPool = h.srvPool
           /\ [Dropped(Resolved(h)) EXCEPT !.local = FALSE] \in GuestState
           /\ [Dropped(Resolved(h)) EXCEPT !.local = FALSE].srvPool = h.srvPool
<1> DEFINE r == Resolved(h)
<1>1. r \in GuestState /\ r.srvPool = h.srvPool /\ r.stash = h.stash
  BY GuestOps
<1>2. h.stash - 1 \in Nat
  BY DEF GuestState
<1> HIDE DEF r
<1>3. Dropped(r) = [r EXCEPT !.stash = h.stash - 1]
  BY <1>1 DEF Dropped, GuestState
<1>4. [Dropped(r) EXCEPT !.local = FALSE] = [r EXCEPT !.local = FALSE, !.stash = h.stash - 1]
  BY <1>1 DEF Dropped, GuestState
<1>5. Dropped(h) \in GuestState /\ Dropped(h).srvPool = h.srvPool
  <2>1. Dropped(h) = [h EXCEPT !.stash = h.stash - 1]
    BY DEF Dropped
  <2> QED
    BY <1>2, <2>1, StashUpdate, ZenonT(60)
<1>6. Dropped(r) \in GuestState /\ Dropped(r).srvPool = r.srvPool
  BY <1>1, <1>2, <1>3, StashUpdate, ZenonT(60)
<1>7. /\ [Dropped(r) EXCEPT !.local = FALSE] \in GuestState
      /\ [Dropped(r) EXCEPT !.local = FALSE].srvPool = r.srvPool
  BY <1>1, <1>2, <1>4, StashUpdate
<1> QED
  BY <1>1, <1>5, <1>6, <1>7 DEF r

LEMMA FieldOps ==
    ASSUME NEW h \in GuestState
    PROVE  /\ \A to \in {"pgb", "direct"} :
                 /\ Swapped(h, to) \in GuestState /\ Swapped(h, to).srvPool = h.srvPool
                 /\ HalfSwapped(h, to) \in GuestState
                 /\ HalfSwapped(h, to).srvPool = h.srvPool
           /\ Pool(Swapped(h, "pgb"))
           /\ [h EXCEPT !.code = "new", !.built = @ /\ h.code = "new"] \in GuestState
           /\ [h EXCEPT !.code = "new", !.built = @ /\ h.code = "new"].srvPool = h.srvPool
           /\ \A s \in {"old", "pre", "post"} :
                 /\ [h EXCEPT !.schema = s] \in GuestState
                 /\ [h EXCEPT !.schema = s].srvPool = h.srvPool
           /\ [h EXCEPT !.local = TRUE] \in GuestState
           /\ [h EXCEPT !.local = TRUE].srvPool = h.srvPool
  BY DEF GuestState, Swapped, HalfSwapped, Pool

LEMMA CodeOps ==
    ASSUME NEW h \in GuestState
    PROVE  /\ [h EXCEPT !.code = "new"] \in GuestState
           /\ [h EXCEPT !.code = "new"].srvPool = h.srvPool
           /\ [h EXCEPT !.code = "new"].host = h.host
           /\ [h EXCEPT !.code = "new"].port = h.port
           /\ [h EXCEPT !.built = TRUE] \in GuestState
           /\ [h EXCEPT !.built = TRUE].srvPool = h.srvPool
           /\ [h EXCEPT !.built = TRUE].host = h.host
           /\ [h EXCEPT !.built = TRUE].port = h.port
           /\ Restarted(h) \in GuestState
           /\ Restarted(h).srvPool = Pool(h)
           /\ Restarted(h).host = h.host /\ Restarted(h).port = h.port
  BY DEF GuestState, Restarted, Pool

----------------------------------------------------------------------------
\* The part of the type invariant about the local variables of the run.
LocalsOK ==
    /\ faults \in FaultSets
    /\ skip \in BOOLEAN /\ snap \subseteq {"app", "app2", "db"}
    /\ swapped \in BOOLEAN /\ pending \in BOOLEAN /\ pending2 \in BOOLEAN
    /\ restore \in BOOLEAN /\ again \in BOOLEAN
    /\ warned \subseteq {"stash", "env", "unread"}
    /\ result \in {"none", "success", "error"}
    /\ runs \in 0..MaxRuns

LEMMA TypeParts ==
    TypeOK <=> pc \in Pcs /\ g \in GuestState /\ g2 \in GuestState /\ LocalsOK
  BY Zenon DEF TypeOK, LocalsOK

\* What a step that leaves the second guest alone has to show.
LEMMA FirstGuestStep ==
    ASSUME IInv, g2' = g2, g' \in GuestState, g'.srvPool = TRUE,
           pc' \in Pcs, RestartsOnPool', ResolvesAnEntry', LocalsOK'
    PROVE  IInv'
<1>1. TypeOK'
  BY Zenon DEF IInv, TypeOK, LocalsOK
<1>2. ServesThroughPool' /\ Pool(g2)'
  BY Zenon DEF IInv, ServesThroughPool, Pool
<1> QED
  BY <1>1, <1>2, Zenon DEF IInv

\* The initial states satisfy it.
LEMMA InitIInv == Init => IInv
<1> SUFFICES ASSUME Init PROVE IInv
  OBVIOUS
<1>1. \A l \in BOOLEAN : Fresh(l) \in GuestState /\ Fresh(l).srvPool = TRUE /\ Pool(Fresh(l))
  BY DEF Fresh, GuestState, Pool
<1>2. /\ g \in GuestState /\ g.srvPool = TRUE
      /\ g2 \in GuestState /\ g2.srvPool = TRUE /\ Pool(g2)
  BY <1>1 DEF Init
<1>3. runs \in 0..MaxRuns
  BY MaxRunsAssumption DEF Init
<1>4. pc \in Pcs /\ snap \subseteq {"app", "app2", "db"} /\ warned \subseteq {"stash", "env", "unread"}
  BY DEF Init, Pcs
<1>5. TypeOK
  BY <1>2, <1>3, <1>4, Zenon DEF Init, TypeOK
<1>6. RestartsOnPool /\ ResolvesAnEntry
  BY DEF Init, RestartsOnPool, ResolvesAnEntry
<1> QED
  BY <1>2, <1>5, <1>6 DEF IInv, ServesThroughPool

\* A run starts with fresh local variables.
LEMMA StartRunStep == ASSUME IInv, StartRun, faults' = faults PROVE IInv'
<1>1. runs' \in 0..MaxRuns
  BY MaxRunsAssumption DEF StartRun, IInv, TypeOK
<1>2. snap' \subseteq {"app", "app2", "db"} /\ warned' \subseteq {"stash", "env", "unread"}
      /\ result' \in {"none", "success", "error"} /\ pc' \in Pcs
  BY DEF StartRun, IInv, TypeOK, Pcs
<1>3. LocalsOK'
  BY <1>1, <1>2, Zenon DEF StartRun, LocalsOK, IInv, TypeOK
<1>4. RestartsOnPool' /\ ResolvesAnEntry'
  BY DEF StartRun, RestartsOnPool, ResolvesAnEntry
<1>5. g2' = g2 /\ g' = g /\ g \in GuestState /\ g.srvPool = TRUE
  BY DEF StartRun, IInv, TypeOK, ServesThroughPool, GuestState
<1> QED
  BY <1>2, <1>3, <1>4, <1>5, FirstGuestStep

\* A step that leaves the first guest's state alone.
LEMMA QuietSteps ==
    ASSUME IInv, faults' = faults,
           \/ StartRun \/ CheckEnvironment \/ Protect \/ PgDump \/ CheckUnmerged
           \/ Failed \/ Reconnect \/ RecordSuccess
    PROVE  IInv'
<1> USE DEF IInv, TypeOK, RestartsOnPool, ResolvesAnEntry, Pcs, rest, flags, ServesThroughPool
<1>1. CASE StartRun
  BY <1>1, StartRunStep
<1>2. CASE CheckEnvironment
  BY <1>2 DEF CheckEnvironment, Fail
<1>3. CASE Protect
  <2>1. NextTarget \in {"app", "app2", "db"}
    BY DEF NextTarget
  <2>2. snap' \subseteq {"app", "app2", "db"}
    BY <1>3, <2>1 DEF Protect
  <2>3. pc' \in Pcs \ {"restart1", "restart2", "resolve"}
    BY <1>3 DEF Protect, Fail
  <2>4. result' \in {"none", "success", "error"}
    BY <1>3 DEF Protect, Fail
  <2> QED
    BY <1>3, <2>2, <2>3, <2>4 DEF Protect
<1>4. CASE PgDump
  BY <1>4 DEF PgDump
<1>5. CASE CheckUnmerged
  BY <1>5 DEF CheckUnmerged, Fail
<1>6. CASE Failed
  BY <1>6 DEF Failed, Fail
<1>7. CASE Reconnect
  BY <1>7, ZenonT(60) DEF Reconnect
<1>8. CASE RecordSuccess
  BY <1>8 DEF RecordSuccess
<1> QED
  BY <1>1, <1>2, <1>3, <1>4, <1>5, <1>6, <1>7, <1>8
----------------------------------------------------------------------------
\* A command run with Exec leaves the guest as it was or as the command makes
\* it, and the run at one of the three places.
LEMMA ExecStep ==
    ASSUME NEW step, NEW after, NEW next, NEW onFail,
           IInv, after \in GuestState, after.srvPool = g.srvPool,
           Exec(step, after, next, onFail)
    PROVE  /\ pc = step /\ pc' \in {next, onFail, "dropped"}
           /\ g' \in GuestState /\ g'.srvPool = TRUE
<1>1. g' \in {g, after} /\ pc = step /\ pc' \in {next, onFail, "dropped"}
  BY DEF Exec
<1>2. g \in GuestState /\ g.srvPool = TRUE
  BY DEF IInv, TypeOK, ServesThroughPool, GuestState
<1> QED
  BY <1>1, <1>2

\* Commands between the two swaps: none of them is followed by a restart or by
\* the resolution of conflicts.
LEMMA PlainExec ==
    ASSUME NEW step, NEW after, NEW next \in Pcs, NEW onFail \in Pcs,
           IInv, after \in GuestState, after.srvPool = g.srvPool,
           Exec(step, after, next, onFail),
           {next, onFail} \cap {"restart1", "restart2", "resolve"} = {},
           g2' = g2, LocalsOK'
    PROVE  IInv'
<1>1. /\ pc' \in {next, onFail, "dropped"}
      /\ g' \in GuestState /\ g'.srvPool = TRUE
  BY ExecStep
<1>2. "dropped" \in Pcs
  BY DEF Pcs
<1>3. pc' \in Pcs /\ pc' \notin {"restart1", "restart2", "resolve"}
  BY <1>1, <1>2
<1>4. RestartsOnPool' /\ ResolvesAnEntry'
  BY <1>3 DEF RestartsOnPool, ResolvesAnEntry
<1> QED
  BY <1>1, <1>3, <1>4, FirstGuestStep

LEMMA ExecSteps ==
    ASSUME IInv, faults' = faults,
           \/ GitStash \/ GitPull \/ RemediateEnvironment \/ Build \/ PreMigrate
           \/ ClearCache \/ PostMigrate \/ ReadVersion
    PROVE  IInv'
<1>1. g \in GuestState /\ g.schema \in {"old", "pre", "post"}
  BY DEF IInv, TypeOK, GuestState
<1>2. LocalsOK
  BY Zenon DEF IInv, TypeOK, LocalsOK
<1>3. g2' = g2 /\ LocalsOK'
  <2>1. CASE GitStash
    <3>1. pending' \in BOOLEAN
      BY <2>1, <1>1, <1>2 DEF GitStash, LocalsOK, GuestState
    <3> QED
      BY <2>1, <3>1, <1>2 DEF GitStash, LocalsOK, rest
  <2>2. CASE GitPull
    BY <2>2, <1>2 DEF GitPull, LocalsOK, rest, flags
  <2>3. CASE RemediateEnvironment
    BY <2>3, <1>2 DEF RemediateEnvironment, LocalsOK, rest, flags
  <2>4. CASE Build
    BY <2>4, <1>2 DEF Build, LocalsOK, rest, flags
  <2>5. CASE PreMigrate
    BY <2>5, <1>2 DEF PreMigrate, LocalsOK, rest, flags
  <2>6. CASE ClearCache
    BY <2>6, <1>2 DEF ClearCache, LocalsOK, rest, flags
  <2>7. CASE PostMigrate
    BY <2>7, <1>2 DEF PostMigrate, LocalsOK, rest, flags
  <2>8. CASE ReadVersion
    BY <2>8, <1>2 DEF ReadVersion, LocalsOK, rest, flags
  <2> QED
    BY <2>1, <2>2, <2>3, <2>4, <2>5, <2>6, <2>7, <2>8
<1>4. CASE GitStash
  <2>1. Stashed(g) \in GuestState /\ Stashed(g).srvPool = g.srvPool
    BY <1>1, GuestOps
  <2> QED
    BY <1>3, <1>4, <2>1, PlainExec DEF GitStash, Pcs
<1>5. CASE GitPull
  <2> DEFINE u == [g EXCEPT !.code = "new", !.built = @ /\ g.code = "new"]
  <2>1. u \in GuestState /\ u.srvPool = g.srvPool
    BY <1>1, FieldOps
  <2>2. Exec("pull", u, "pop", "abort_stash")
    BY <1>5 DEF GitPull
  <2> HIDE DEF u
  <2> QED
    BY <1>3, <2>1, <2>2, PlainExec DEF Pcs
<1>6. CASE RemediateEnvironment
  BY <1>1, <1>3, <1>6, PlainExec DEF RemediateEnvironment, Pcs
<1>7. CASE Build
  <2> DEFINE u == [g EXCEPT !.built = TRUE]
  <2>1. u \in GuestState /\ u.srvPool = g.srvPool
    BY <1>1, CodeOps
  <2>2. \/ Exec("bundle", g, "yarn", "abort_stash")
        \/ Exec("yarn", g, "pre", "abort_stash")
        \/ Exec("assets", u, "restore1", "abort_stash")
    BY <1>7 DEF Build
  <2> HIDE DEF u
  <2>3. CASE Exec("bundle", g, "yarn", "abort_stash")
    BY <1>1, <1>3, <2>3, PlainExec DEF Pcs
  <2>4. CASE Exec("yarn", g, "pre", "abort_stash")
    BY <1>1, <1>3, <2>4, PlainExec DEF Pcs
  <2>5. CASE Exec("assets", u, "restore1", "abort_stash")
    BY <1>3, <2>1, <2>5, PlainExec DEF Pcs
  <2> QED
    BY <2>2, <2>3, <2>4, <2>5
<1>8. CASE PreMigrate
  <2> DEFINE s == IF g.schema = "old" THEN "pre" ELSE g.schema
             u == [g EXCEPT !.schema = s]
  <2>1. s \in {"old", "pre", "post"}
    BY <1>1
  <2>2. Exec("pre", u, "assets", "abort_stash")
    BY <1>8 DEF PreMigrate
  <2> HIDE DEF s
  <2>3. u \in GuestState /\ u.srvPool = g.srvPool
    BY <1>1, <2>1, FieldOps
  <2> HIDE DEF u
  <2> QED
    BY <1>3, <2>2, <2>3, PlainExec DEF Pcs
<1>9. CASE ClearCache
  BY <1>1, <1>3, <1>9, PlainExec DEF ClearCache, Pcs
<1>10. CASE PostMigrate
  <2> DEFINE u == [g EXCEPT !.schema = "post"]
  <2>1. u \in GuestState /\ u.srvPool = g.srvPool
    BY <1>1, FieldOps
  <2>2. Exec("post", u, "restore2", "abort_stash")
    BY <1>10 DEF PostMigrate
  <2> HIDE DEF u
  <2> QED
    BY <1>3, <2>1, <2>2, PlainExec DEF Pcs
<1>11. CASE ReadVersion
  <2> DEFINE n == IF SecondGuest THEN "stash2" ELSE "record"
  <2>1. n \in Pcs /\ n \notin {"restart1", "restart2", "resolve"}
    BY DEF Pcs
  <2>2. Exec("version", g, n, n)
    BY <1>11 DEF ReadVersion
  <2> HIDE DEF n
  <2> QED
    BY <1>1, <1>3, <2>1, <2>2, PlainExec
<1> QED
  BY <1>4, <1>5, <1>6, <1>7, <1>8, <1>9, <1>10, <1>11

\* _swap_env_db leaves every field but the two settings alone.
LEMMA SwapStep ==
    ASSUME NEW step, NEW to \in {"pgb", "direct"}, NEW next, NEW onFail,
           IInv, SwapEnvDb(step, to, next, onFail)
    PROVE  /\ pc = step /\ pc' \in {next, onFail, "dropped"}
           /\ g' \in GuestState /\ g'.srvPool = TRUE
<1>1. /\ g' \in {g, HalfSwapped(g, to), Swapped(g, to)}
      /\ pc = step /\ pc' \in {next, onFail, "dropped"}
  BY DEF SwapEnvDb
<1>2. g \in GuestState /\ g.srvPool = TRUE
  BY DEF IInv, TypeOK, ServesThroughPool, GuestState
<1>3. /\ Swapped(g, to) \in GuestState /\ Swapped(g, to).srvPool = TRUE
      /\ HalfSwapped(g, to) \in GuestState /\ HalfSwapped(g, to).srvPool = TRUE
  BY <1>2, FieldOps
<1> QED
  BY <1>1, <1>2, <1>3

\* The two swaps to the direct database and the two restores.
LEMMA SwapSteps ==
    ASSUME IInv, faults' = faults, SwapToDirect \/ RestoreEnv
    PROVE  IInv'
<1>1. LocalsOK
  BY Zenon DEF IInv, TypeOK, LocalsOK
<1>2. g2' = g2 /\ LocalsOK'
  <2>1. CASE SwapToDirect
    <3>1. swapped' \in BOOLEAN /\ restore' \in BOOLEAN
      BY <2>1, <1>1 DEF SwapToDirect, LocalsOK
    <3> QED
      BY <2>1, <3>1, <1>1 DEF SwapToDirect, LocalsOK, rest
  <2>2. CASE RestoreEnv
    <3>1. swapped' \in BOOLEAN /\ restore' \in BOOLEAN
      BY <2>2, <1>1 DEF RestoreEnv, LocalsOK
    <3>2. warned' \subseteq {"stash", "env", "unread"}
      BY <2>2, <1>1 DEF RestoreEnv, LocalsOK
    <3> QED
      BY <2>2, <3>1, <3>2, <1>1 DEF RestoreEnv, LocalsOK, rest
  <2> QED
    BY <2>1, <2>2
<1>3. CASE SwapToDirect
  <2>1. /\ pc' \in {"pull", "post", "abort_stash", "dropped"}
        /\ g' \in GuestState /\ g'.srvPool = TRUE
    <3>1. CASE SwapEnvDb("swap", "direct", "pull", "abort_stash")
      BY <3>1, SwapStep
    <3>2. CASE SwapEnvDb("reswap", "direct", "post", "abort_stash")
      BY <3>2, SwapStep
    <3> QED
      BY <1>3, <3>1, <3>2 DEF SwapToDirect
  <2>2. RestartsOnPool' /\ ResolvesAnEntry' /\ pc' \in Pcs
    BY <2>1 DEF RestartsOnPool, ResolvesAnEntry, Pcs
  <2> QED
    BY <1>2, <2>1, <2>2, FirstGuestStep
<1>4. CASE RestoreEnv
  <2>1. /\ pc' \in {"restart1", "restart2", "abort_stash", "dropped"}
        /\ g' \in GuestState /\ g'.srvPool = TRUE
        /\ pc' \in {"restart1", "restart2"} => g' = Swapped(g, "pgb")
    <3>1. CASE SwapEnvDb("restore1", "pgb", "restart1", "abort_stash")
      <4>1. /\ pc' \in {"restart1", "abort_stash", "dropped"}
            /\ g' \in GuestState /\ g'.srvPool = TRUE
        BY <3>1, SwapStep
      <4>2. pc' = "restart1" => g' = Swapped(g, "pgb")
        BY <3>1 DEF SwapEnvDb
      <4> QED
        BY <4>1, <4>2
    <3>2. CASE SwapEnvDb("restore2", "pgb", "restart2", "abort_stash")
      <4>1. /\ pc' \in {"restart2", "abort_stash", "dropped"}
            /\ g' \in GuestState /\ g'.srvPool = TRUE
        BY <3>2, SwapStep
      <4>2. pc' = "restart2" => g' = Swapped(g, "pgb")
        BY <3>2 DEF SwapEnvDb
      <4> QED
        BY <4>1, <4>2
    <3> QED
      BY <1>4, <3>1, <3>2 DEF RestoreEnv
  <2>2. Pool(Swapped(g, "pgb"))
    BY FieldOps DEF IInv, TypeOK
  <2>3. RestartsOnPool' /\ ResolvesAnEntry' /\ pc' \in Pcs
    BY <2>1, <2>2 DEF RestartsOnPool, ResolvesAnEntry, Pcs, Pool
  <2> QED
    BY <1>2, <2>1, <2>3, FirstGuestStep
<1> QED
  BY <1>3, <1>4

\* The restarts: they happen with the file on the pool.
LEMMA RestartStep == ASSUME IInv, faults' = faults, RestartServices PROVE IInv'
<1>1. pc \in {"restart1", "restart2"} /\ g' \in {g, Restarted(g)}
      /\ pc' \in {"cache", "version", "dropped"}
  BY DEF RestartServices
<1>2. g \in GuestState /\ g.srvPool = TRUE /\ Pool(g)
  BY <1>1 DEF IInv, TypeOK, ServesThroughPool, GuestState, RestartsOnPool
<1>3. Restarted(g) \in GuestState /\ Restarted(g).srvPool = TRUE
  BY <1>2, CodeOps DEF Pool
<1>4. RestartsOnPool' /\ ResolvesAnEntry' /\ pc' \in Pcs
  BY <1>1 DEF RestartsOnPool, ResolvesAnEntry, Pcs
<1>5. LocalsOK
  BY Zenon DEF IInv, TypeOK, LocalsOK
<1>6. g2' = g2 /\ LocalsOK'
  BY <1>5 DEF RestartServices, LocalsOK, rest, flags
<1>7. g' \in GuestState /\ g'.srvPool = TRUE
  BY <1>1, <1>2, <1>3
<1> QED
  BY <1>4, <1>6, <1>7, FirstGuestStep

\* Popping the stash, resolving its conflicts, and undoing both on an abort.
LEMMA StashSteps ==
    ASSUME IInv, faults' = faults,
           \/ StashPop \/ ResolveStashConflicts \/ AbortStash \/ AbortEnv \/ EditLocally
    PROVE  IInv'
<1>1. g \in GuestState /\ g.srvPool = TRUE
  BY DEF IInv, TypeOK, ServesThroughPool, GuestState
<1>2. LocalsOK
  BY Zenon DEF IInv, TypeOK, LocalsOK
<1>3. \A r \in {g} \cup PopResults(g) \cup PopConflicts(g) :
         r \in GuestState /\ r.srvPool = TRUE
  BY <1>1, GuestOps
<1>4. \A r \in PopConflicts(g) : r.stash > 0
  BY <1>1, GuestOps
<1>5. CASE StashPop
  <2>1. /\ g' \in {g} \cup PopResults(g) \cup PopConflicts(g)
        /\ pc' \in {"runtime", "resolve", "dropped"}
        /\ pc' = "resolve" => g' \in PopConflicts(g)
        /\ pending' \in BOOLEAN /\ warned' \subseteq {"stash", "env", "unread"}
    BY <1>5, <1>2 DEF StashPop, LocalsOK
  <2>2. g2' = g2 /\ LocalsOK'
    BY <1>5, <1>2, <2>1 DEF StashPop, LocalsOK, rest
  <2>3. RestartsOnPool' /\ ResolvesAnEntry' /\ pc' \in Pcs
    BY <2>1, <1>4 DEF RestartsOnPool, ResolvesAnEntry, Pcs
  <2> QED
    BY <1>3, <2>1, <2>2, <2>3, FirstGuestStep
<1>6. CASE ResolveStashConflicts
  <2> DEFINE a == Resolved(g)
             b == Dropped(Resolved(g))
             d == Dropped(g)
             c == [Dropped(Resolved(g)) EXCEPT !.local = FALSE]
  <2>1. g.stash > 0
    BY <1>6 DEF ResolveStashConflicts, IInv, ResolvesAnEntry
  <2>2. a \in GuestState /\ a.srvPool = TRUE
    BY <1>1, GuestOps
  <2>3. /\ b \in GuestState /\ b.srvPool = TRUE /\ c \in GuestState /\ c.srvPool = TRUE
        /\ d \in GuestState /\ d.srvPool = TRUE
    BY <1>1, <2>1, DropOps
  <2>4. /\ g' \in {g, a, b, c, d} /\ pc' \in {"runtime", "dropped"}
        /\ pending' \in BOOLEAN /\ warned' \subseteq {"stash", "env", "unread"}
    BY <1>6, <1>2 DEF ResolveStashConflicts, HalfResolved, LocalsOK
  <2>5. g2' = g2 /\ LocalsOK'
    BY <1>6, <1>2, <2>4 DEF ResolveStashConflicts, LocalsOK, rest
  <2>6. RestartsOnPool' /\ ResolvesAnEntry' /\ pc' \in Pcs
    BY <2>4 DEF RestartsOnPool, ResolvesAnEntry, Pcs
  <2> HIDE DEF a, b, c, d
  <2>7. g' \in GuestState /\ g'.srvPool = TRUE
    BY <1>1, <2>2, <2>3, <2>4
  <2> QED
    BY <2>5, <2>6, <2>7, FirstGuestStep
<1>7. CASE AbortStash
  <2>1. /\ g' \in {g} \cup PopResults(g) \cup PopConflicts(g)
        /\ pc' \in {"abort_env", "dropped"}
        /\ pending' \in BOOLEAN /\ warned' \subseteq {"stash", "env", "unread"}
    BY <1>7, <1>2 DEF AbortStash, LocalsOK
  <2>2. g2' = g2 /\ LocalsOK'
    BY <1>7, <1>2, <2>1 DEF AbortStash, LocalsOK, rest
  <2>3. RestartsOnPool' /\ ResolvesAnEntry' /\ pc' \in Pcs
    BY <2>1 DEF RestartsOnPool, ResolvesAnEntry, Pcs
  <2> QED
    BY <1>3, <2>1, <2>2, <2>3, FirstGuestStep
<1>8. CASE AbortEnv
  <2>1. /\ pc' \in {"failed", "env_lost", "dropped"}
        /\ g' \in GuestState /\ g'.srvPool = TRUE
    <3>1. CASE g' = g /\ pc' = "failed"
      BY <1>1, <3>1
    <3>2. CASE SwapEnvDb("abort_env", "pgb", "failed", "env_lost")
      BY <3>2, SwapStep
    <3> QED
      BY <1>8, <3>1, <3>2 DEF AbortEnv
  <2>2. swapped' \in BOOLEAN /\ warned' \subseteq {"stash", "env", "unread"}
    BY <1>8, <1>2 DEF AbortEnv, LocalsOK
  <2>3. g2' = g2 /\ LocalsOK'
    BY <1>8, <1>2, <2>2 DEF AbortEnv, LocalsOK, rest
  <2>4. RestartsOnPool' /\ ResolvesAnEntry' /\ pc' \in Pcs
    BY <2>1 DEF RestartsOnPool, ResolvesAnEntry, Pcs
  <2> QED
    BY <2>1, <2>3, <2>4, FirstGuestStep
<1>9. CASE EditLocally
  <2> DEFINE u == [g EXCEPT !.local = TRUE]
  <2>1. u \in GuestState /\ u.srvPool = TRUE
    BY <1>1, FieldOps
  <2>2. g' = u /\ pc' = pc /\ pc = "idle"
    BY <1>9 DEF EditLocally
  <2>3. g2' = g2 /\ LocalsOK'
    BY <1>9, <1>2 DEF EditLocally, LocalsOK, rest, flags
  <2>4. RestartsOnPool' /\ ResolvesAnEntry' /\ pc' \in Pcs
    BY <2>2 DEF RestartsOnPool, ResolvesAnEntry, Pcs
  <2> HIDE DEF u
  <2> QED
    BY <2>1, <2>2, <2>3, <2>4, FirstGuestStep
<1> QED
  BY <1>5, <1>6, <1>7, <1>8, <1>9

\* The second guest's settings are never swapped, so its restart is harmless.
LEMMA SecondGuestStep == ASSUME IInv, faults' = faults, SyncSecondGuest PROVE IInv'
<1> DEFINE u == [g2 EXCEPT !.code = "new"]
           v == [g2 EXCEPT !.built = TRUE]
           S == {g2, Stashed(g2), u, v, Restarted(g2)} \cup PopResults(g2) \cup PopConflicts(g2)
<1>1. g2 \in GuestState /\ g2.srvPool = TRUE /\ Pool(g2)
  BY DEF IInv, TypeOK, ServesThroughPool, GuestState
<1>2. \A r \in PopResults(g2) \cup PopConflicts(g2) :
         r \in GuestState /\ r.srvPool = TRUE /\ Pool(r)
  BY <1>1, GuestOps DEF Pool
<1>3. Stashed(g2) \in GuestState /\ Stashed(g2).srvPool = TRUE /\ Pool(Stashed(g2))
  BY <1>1, GuestOps DEF Pool
<1>4. u \in GuestState /\ u.srvPool = TRUE /\ Pool(u)
  BY <1>1, CodeOps DEF Pool
<1>5. v \in GuestState /\ v.srvPool = TRUE /\ Pool(v)
  BY <1>1, CodeOps DEF Pool
<1>6. Restarted(g2) \in GuestState /\ Restarted(g2).srvPool = TRUE /\ Pool(Restarted(g2))
  BY <1>1, CodeOps DEF Pool
<1>7. /\ g2' \in S /\ g' = g
      /\ pc' \in {"pull2", "pop2", "build2", "restart2nd", "record"}
      /\ pending2' \in BOOLEAN
  <2>1. pending2 \in BOOLEAN /\ g2.local \in BOOLEAN
    BY <1>1 DEF IInv, TypeOK, GuestState
  <2> QED
    BY <2>1 DEF SyncSecondGuest, Exec2
<1>8. LocalsOK
  BY Zenon DEF IInv, TypeOK, LocalsOK
<1>9. LocalsOK'
  BY <1>7, <1>8 DEF SyncSecondGuest, LocalsOK, flags
<1> HIDE DEF u, v
<1>10. g2' \in GuestState /\ g2'.srvPool = TRUE /\ Pool(g2')
  BY <1>1, <1>2, <1>3, <1>4, <1>5, <1>6, <1>7
<1>11. RestartsOnPool' /\ ResolvesAnEntry' /\ pc' \in Pcs
  BY <1>7 DEF RestartsOnPool, ResolvesAnEntry, Pcs
<1>12. TypeOK'
  BY <1>7, <1>9, <1>10, <1>11, Zenon DEF IInv, TypeOK, LocalsOK
<1>13. ServesThroughPool' /\ Pool(g2)'
  BY <1>7, <1>10 DEF IInv, ServesThroughPool, Pool
<1> QED
  BY <1>11, <1>12, <1>13, Zenon DEF IInv

\* The invariant is inductive.
LEMMA NextIInv == IInv /\ [Next]_vars => IInv'
<1> SUFFICES ASSUME IInv, [Next]_vars PROVE IInv'
  OBVIOUS
<1>1. CASE UNCHANGED vars
  BY <1>1 DEF vars, IInv, TypeOK, RestartsOnPool, ResolvesAnEntry, ServesThroughPool, Pool
<1>2. CASE Next
  BY <1>2, StartRunStep, QuietSteps, ExecSteps, SwapSteps, RestartStep, StashSteps,
     SecondGuestStep DEF Next, Step
<1> QED
  BY <1>1, <1>2

\* The inductive invariant: types, the file on the pool from a successful
\* _restore_env to the restart, a stash entry while its conflicts are resolved,
\* and services started on the pool.
THEOREM IInvHolds == Spec => []IInv
  BY InitIInv, NextIInv, PTL DEF Spec

\* Live traffic never bypasses the pool: every restart of the services, in
\* any run and after any failure, finds .env.production on PGBouncer.
THEOREM ServesThroughPoolHolds == Spec => []ServesThroughPool
<1>1. IInv => ServesThroughPool
  BY DEF IInv
<1> QED
  BY <1>1, IInvHolds, PTL

----------------------------------------------------------------------------
\* Past the snapshots a run has taken all of them, or was asked not to.
Protected == pc \notin {"idle", "check", "protect"} => skip \/ snap = Targets

\* Only starting a run and taking a snapshot change what Protected speaks of.
LEMMA NextProtected == Protected /\ [Next]_vars => Protected'
<1> SUFFICES ASSUME Protected, [Next]_vars PROVE Protected'
  OBVIOUS
<1>1. CASE StartRun
  BY <1>1 DEF StartRun, Protected
<1>2. CASE CheckEnvironment
  BY <1>2 DEF CheckEnvironment, Fail, Protected, Targets
<1>3. CASE Protect
  BY <1>3 DEF Protect, Fail, Protected, Targets
<1>4. CASE UNCHANGED <<skip, snap>> /\ pc \notin {"idle", "check", "protect"}
  BY <1>4 DEF Protected, Targets
<1>5. CASE EditLocally \/ UNCHANGED vars
  BY <1>5 DEF EditLocally, vars, rest, Protected, Targets
<1>6. Step /\ ~CheckEnvironment /\ ~Protect
        => UNCHANGED <<skip, snap>> /\ pc \notin {"idle", "check", "protect"}
  <2>1. PgDump \/ CheckUnmerged \/ Failed \/ RecordSuccess \/ RestartServices \/ StashPop
          => UNCHANGED <<skip, snap>> /\ pc \notin {"idle", "check", "protect"}
    BY DEF PgDump, CheckUnmerged, Failed, RecordSuccess, RestartServices, StashPop, rest
  <2>2. ResolveStashConflicts \/ AbortStash \/ Reconnect
          => UNCHANGED <<skip, snap>> /\ pc \notin {"idle", "check", "protect"}
    BY DEF ResolveStashConflicts, AbortStash, Reconnect, rest
  <2>3. GitStash \/ GitPull \/ RemediateEnvironment \/ Build \/ PreMigrate
          => UNCHANGED <<skip, snap>> /\ pc \notin {"idle", "check", "protect"}
    BY DEF GitStash, GitPull, RemediateEnvironment, Build, PreMigrate, Exec, rest
  <2>4. ClearCache \/ PostMigrate \/ ReadVersion
          => UNCHANGED <<skip, snap>> /\ pc \notin {"idle", "check", "protect"}
    BY DEF ClearCache, PostMigrate, ReadVersion, Exec, rest
  <2>5. SwapToDirect \/ RestoreEnv \/ AbortEnv
          => UNCHANGED <<skip, snap>> /\ pc \notin {"idle", "check", "protect"}
    BY DEF SwapToDirect, RestoreEnv, AbortEnv, SwapEnvDb, rest
  <2>6. SyncSecondGuest => UNCHANGED <<skip, snap>> /\ pc \notin {"idle", "check", "protect"}
    BY DEF SyncSecondGuest, Exec2
  <2> QED
    BY <2>1, <2>2, <2>3, <2>4, <2>5, <2>6 DEF Step
<1> QED
  BY <1>1, <1>2, <1>3, <1>4, <1>5, <1>6 DEF Next

\* No run changes a guest before every guest involved is protected, unless it
\* was asked to skip the protection.
THEOREM ProtectedBeforeChangeHolds == Spec => ProtectedBeforeChange
<1>1. Init => Protected
  BY DEF Init, Protected
<1>2. Protected /\ [Next]_vars
        => [pc # "idle" /\ <<g, g2>>' # <<g, g2>> => skip \/ snap = Targets]_vars
  <2> SUFFICES ASSUME Protected, Next, pc # "idle", <<g, g2>>' # <<g, g2>>
               PROVE  skip \/ snap = Targets
    BY DEF vars
  <2>1. ~StartRun /\ ~CheckEnvironment /\ ~Protect
    BY DEF StartRun, CheckEnvironment, Protect
  <2>2. pc \notin {"check", "protect"}
    <3>1. PgDump \/ CheckUnmerged \/ Failed \/ RecordSuccess \/ RestartServices \/ StashPop
            => pc \notin {"check", "protect"}
      BY DEF PgDump, CheckUnmerged, Failed, RecordSuccess, RestartServices, StashPop
    <3>2. ResolveStashConflicts \/ AbortStash \/ Reconnect \/ EditLocally
            => pc \notin {"check", "protect"}
      BY DEF ResolveStashConflicts, AbortStash, Reconnect, EditLocally
    <3>3. GitStash \/ GitPull \/ RemediateEnvironment \/ Build \/ PreMigrate
            => pc \notin {"check", "protect"}
      BY DEF GitStash, GitPull, RemediateEnvironment, Build, PreMigrate, Exec
    <3>4. ClearCache \/ PostMigrate \/ ReadVersion => pc \notin {"check", "protect"}
      BY DEF ClearCache, PostMigrate, ReadVersion, Exec
    <3>5. SwapToDirect \/ RestoreEnv \/ AbortEnv => pc \notin {"check", "protect"}
      BY DEF SwapToDirect, RestoreEnv, AbortEnv, SwapEnvDb
    <3>6. SyncSecondGuest => pc \notin {"check", "protect"}
      BY DEF SyncSecondGuest, Exec2
    <3> QED
      BY <2>1, <3>1, <3>2, <3>3, <3>4, <3>5, <3>6 DEF Next, Step
  <2> QED
    BY <2>2 DEF Protected
<1> QED
  BY <1>1, NextProtected, <1>2, PTL DEF Spec, ProtectedBeforeChange

----------------------------------------------------------------------------
(* Code and schema, outcomes and local changes.  The argument follows how  *)
(* far the guest is at each step of run_mastodon_upgrade (Deployed,        *)
(* Complete), and what the run owes the operator (StashOwed, EnvOwed).     *)

\* what an operation on a guest may leave alone
SameDeploy(h, r) ==
    r.code = h.code /\ r.built = h.built /\ r.srvCode = h.srvCode /\ r.schema = h.schema
SameFile(h, r) == r.host = h.host /\ r.port = h.port
SameTree(h, r) == r.local = h.local /\ r.stash = h.stash /\ r.unmerged = h.unmerged

\* Stashing moves the local changes to the stash and touches nothing else.
LEMMA StashedOp ==
    ASSUME NEW h \in GuestState
    PROVE  /\ SameDeploy(h, Stashed(h)) /\ SameFile(h, Stashed(h))
           /\ h.local => Stashed(h).stash = h.stash + 1 /\ ~Stashed(h).local
           /\ Stashed(h).unmerged = h.unmerged
           /\ ~h.local => Stashed(h) = h
  BY DEF GuestState, Stashed, SameDeploy, SameFile

\* A pop moves one entry back; a conflicting one keeps the entry.
LEMMA PopOps ==
    ASSUME NEW h \in GuestState
    PROVE  /\ \A r \in PopResults(h) :
                 /\ SameDeploy(h, r) /\ SameFile(h, r)
                 /\ h.stash > 0 /\ r.stash = h.stash - 1 /\ r.local
                 /\ r.unmerged = h.unmerged
           /\ \A r \in PopConflicts(h) :
                 /\ SameDeploy(h, r) /\ SameFile(h, r)
                 /\ h.stash > 0 /\ r.stash = h.stash /\ r.local
<1>1. ASSUME NEW r \in PopResults(h)
      PROVE  /\ SameDeploy(h, r) /\ SameFile(h, r)
             /\ h.stash > 0 /\ r.stash = h.stash - 1 /\ r.local
             /\ r.unmerged = h.unmerged
  <2>1. h.stash > 0 /\ r = [h EXCEPT !.local = TRUE, !.stash = h.stash - 1]
    BY <1>1 DEF PopResults, GuestState
  <2> QED
    BY <2>1 DEF GuestState, SameDeploy, SameFile
<1>2. ASSUME NEW r \in PopConflicts(h)
      PROVE  /\ SameDeploy(h, r) /\ SameFile(h, r)
             /\ h.stash > 0 /\ r.stash = h.stash /\ r.local
  <2>1. h.stash > 0 /\ r = [h EXCEPT !.local = TRUE, !.unmerged = TRUE]
    BY <1>2 DEF PopConflicts
  <2> QED
    BY <2>1 DEF GuestState, SameDeploy, SameFile
<1> QED
  BY <1>1, <1>2

\* what _resolve_stash_conflicts may make of a guest
Outcomes(h) ==
    {h, Resolved(h), Dropped(h), Dropped(Resolved(h)), [Dropped(Resolved(h)) EXCEPT !.local = FALSE]}

\* Resolving conflicts and dropping the entry leave the file and the code alone.
LEMMA ResolveOps ==
    ASSUME NEW h \in GuestState
    PROVE  /\ \A r \in Outcomes(h) : SameDeploy(h, r) /\ SameFile(h, r)
           /\ \A r \in {h, Resolved(h)} : r.local = h.local /\ r.stash = h.stash
           /\ \A r \in {Dropped(h), Dropped(Resolved(h))} : r.local = h.local /\ r.stash = h.stash - 1
           /\ Dropped(Resolved(h)).unmerged = FALSE
           /\ [Dropped(Resolved(h)) EXCEPT !.local = FALSE].stash = h.stash - 1
           /\ [Dropped(Resolved(h)) EXCEPT !.local = FALSE].unmerged = FALSE
<1>1. Resolved(h) = [h EXCEPT !.unmerged = FALSE]
  BY DEF Resolved
<1>2. Dropped(h) = [h EXCEPT !.stash = h.stash - 1]
  BY DEF Dropped
<1>3. Dropped(Resolved(h)) = [h EXCEPT !.unmerged = FALSE, !.stash = h.stash - 1]
  BY <1>1 DEF Dropped, GuestState
<1>4. [Dropped(Resolved(h)) EXCEPT !.local = FALSE]
        = [h EXCEPT !.unmerged = FALSE, !.stash = h.stash - 1, !.local = FALSE]
  BY <1>3 DEF GuestState
<1>5. /\ SameDeploy(h, Resolved(h)) /\ SameFile(h, Resolved(h))
      /\ Resolved(h).local = h.local /\ Resolved(h).stash = h.stash
  BY <1>1 DEF GuestState, SameDeploy, SameFile
<1>6. /\ SameDeploy(h, Dropped(h)) /\ SameFile(h, Dropped(h))
      /\ Dropped(h).local = h.local /\ Dropped(h).stash = h.stash - 1
  BY <1>2 DEF GuestState, SameDeploy, SameFile
<1>7. /\ SameDeploy(h, Dropped(Resolved(h))) /\ SameFile(h, Dropped(Resolved(h)))
      /\ Dropped(Resolved(h)).stash = h.stash - 1 /\ Dropped(Resolved(h)).local = h.local
      /\ Dropped(Resolved(h)).unmerged = FALSE
  BY <1>3 DEF GuestState, SameDeploy, SameFile
<1>8. /\ SameDeploy(h, [Dropped(Resolved(h)) EXCEPT !.local = FALSE])
      /\ SameFile(h, [Dropped(Resolved(h)) EXCEPT !.local = FALSE])
      /\ [Dropped(Resolved(h)) EXCEPT !.local = FALSE].stash = h.stash - 1
      /\ [Dropped(Resolved(h)) EXCEPT !.local = FALSE].unmerged = FALSE
  BY <1>4 DEF GuestState, SameDeploy, SameFile
<1>9. SameDeploy(h, h) /\ SameFile(h, h)
  BY DEF SameDeploy, SameFile
<1> QED
  BY <1>5, <1>6, <1>7, <1>8, <1>9 DEF Outcomes

\* The step ends in one of these.
LEMMA ResolveEnds == ASSUME ResolveStashConflicts PROVE g' \in Outcomes(g)
  BY DEF ResolveStashConflicts, HalfResolved, Outcomes

\* _swap_env_db touches the two settings only.
LEMMA SwapOps ==
    ASSUME NEW h \in GuestState, NEW to \in {"pgb", "direct"}
    PROVE  /\ SameDeploy(h, Swapped(h, to)) /\ SameTree(h, Swapped(h, to))
           /\ SameDeploy(h, HalfSwapped(h, to)) /\ SameTree(h, HalfSwapped(h, to))
           /\ to = "pgb" => Pool(Swapped(h, to))
  BY DEF GuestState, Swapped, HalfSwapped, SameDeploy, SameTree, Pool

\* The commands that deploy touch neither the file nor the tree.
LEMMA DeployOps ==
    ASSUME NEW h \in GuestState
    PROVE  /\ LET u == [h EXCEPT !.code = "new", !.built = @ /\ h.code = "new"]
              IN  /\ SameFile(h, u) /\ SameTree(h, u) /\ u.code = "new"
                  /\ u.built = (h.built /\ h.code = "new")
                  /\ u.srvCode = h.srvCode /\ u.schema = h.schema
           /\ LET u == [h EXCEPT !.built = TRUE]
              IN  /\ SameFile(h, u) /\ SameTree(h, u) /\ u.code = h.code
                  /\ u.built /\ u.srvCode = h.srvCode /\ u.schema = h.schema
           /\ \A s : LET u == [h EXCEPT !.schema = s]
                     IN  /\ SameFile(h, u) /\ SameTree(h, u) /\ u.code = h.code
                         /\ u.built = h.built /\ u.srvCode = h.srvCode /\ u.schema = s
           /\ LET u == Restarted(h)
              IN  /\ SameFile(h, u) /\ SameTree(h, u) /\ u.code = h.code
                  /\ u.built = h.built /\ u.srvCode = h.code /\ u.schema = h.schema
           /\ LET u == [h EXCEPT !.local = TRUE]
              IN  SameDeploy(h, u) /\ SameFile(h, u) /\ u.local /\ u.stash = h.stash
           /\ LET u == [h EXCEPT !.code = "new"]
              IN  SameTree(h, u)
  BY DEF GuestState, Restarted, SameFile, SameTree, SameDeploy

----------------------------------------------------------------------------
(* How far the guest is. *)

\* a step that does not get further
NoFurther ==
    /\ pc' \in AfterPull => pc \in AfterPull
    /\ pc' \in {"assets"} \cup AfterBuild => pc \in {"assets"} \cup AfterBuild
    /\ pc' \in AfterBuild => pc \in AfterBuild
    /\ pc' \in AfterRestart => pc \in AfterRestart

LEMMA KeepDeployed ==
    ASSUME Deployed, faults' = faults, SameDeploy(g, g'), NoFurther
    PROVE  Deployed'
  BY DEF Deployed, SameDeploy, NoFurther

\* The steps that leave the application guest alone.
LEMMA QuietDeployed ==
    ASSUME Deployed, faults' = faults,
           \/ StartRun \/ CheckEnvironment \/ Protect \/ PgDump \/ CheckUnmerged
           \/ Failed \/ Reconnect \/ RecordSuccess \/ SyncSecondGuest
    PROVE  Deployed'
<1> USE DEF NoFurther, AfterPull, AfterBuild, AfterRestart, AfterPost, Finishing, Fail
<1>1. g' = g
  BY DEF StartRun, CheckEnvironment, Protect, PgDump, CheckUnmerged, Failed, Reconnect,
         RecordSuccess, SyncSecondGuest
<1>2. CASE StartRun \/ CheckEnvironment \/ Protect \/ PgDump \/ CheckUnmerged
  <2>1. NoFurther
    BY <1>2 DEF StartRun, CheckEnvironment, Protect, PgDump, CheckUnmerged
  <2> QED
    BY <1>1, <2>1, KeepDeployed DEF SameDeploy
<1>3. CASE Failed \/ Reconnect \/ RecordSuccess
  <2>1. NoFurther
    BY <1>3 DEF Failed, Reconnect, RecordSuccess
  <2> QED
    BY <1>1, <2>1, KeepDeployed DEF SameDeploy
<1>4. CASE SyncSecondGuest
  <2>1. pc \in Finishing
    BY <1>4 DEF SyncSecondGuest, Exec2
  <2>2. NoFurther
    BY <2>1
  <2> QED
    BY <1>1, <2>2, KeepDeployed DEF SameDeploy
<1> QED
  BY <1>2, <1>3, <1>4

\* The steps about the stash, .env.production and the local changes.
LEMMA TreeDeployed ==
    ASSUME IInv, Deployed, faults' = faults,
           \/ GitStash \/ SwapToDirect \/ StashPop \/ ResolveStashConflicts \/ RestoreEnv
           \/ AbortStash \/ AbortEnv \/ EditLocally
    PROVE  Deployed'
<1>0. g \in GuestState
  BY DEF IInv, TypeOK
<1>0a. SameDeploy(g, g)
  BY DEF SameDeploy
<1>0b. \A step, to, next, onFail :
          to \in {"pgb", "direct"} /\ SwapEnvDb(step, to, next, onFail)
             => SameDeploy(g, g') /\ pc = step /\ pc' \in {next, onFail, "dropped"}
  BY <1>0, <1>0a, SwapOps DEF SwapEnvDb
<1>1. SameDeploy(g, g')
  <2>1. CASE GitStash
    BY <1>0, <1>0a, <2>1, StashedOp DEF GitStash, Exec
  <2>2. CASE SwapToDirect
    BY <1>0b, <2>2 DEF SwapToDirect
  <2>3. CASE StashPop
    BY <1>0, <1>0a, <2>3, PopOps DEF StashPop
  <2>4. CASE ResolveStashConflicts
    BY <1>0, <2>4, ResolveOps, ResolveEnds
  <2>5. CASE RestoreEnv
    BY <1>0b, <2>5 DEF RestoreEnv
  <2>6. CASE AbortStash
    BY <1>0, <1>0a, <2>6, PopOps DEF AbortStash
  <2>7. CASE AbortEnv
    BY <1>0a, <1>0b, <2>7 DEF AbortEnv
  <2>8. CASE EditLocally
    <3>1. g' = [g EXCEPT !.local = TRUE]
      BY <2>8 DEF EditLocally
    <3> QED
      BY <1>0, <3>1, DeployOps
  <2> QED
    BY <2>1, <2>2, <2>3, <2>4, <2>5, <2>6, <2>7, <2>8
<1>2. NoFurther
  <2> USE DEF NoFurther, AfterPull, AfterBuild, AfterRestart, AfterPost, Finishing
  <2>1. CASE GitStash \/ SwapToDirect
    BY <2>1 DEF GitStash, SwapToDirect, Exec, SwapEnvDb
  <2>2. CASE StashPop \/ ResolveStashConflicts \/ AbortStash
    BY <2>2 DEF StashPop, ResolveStashConflicts, AbortStash
  <2>3. CASE RestoreEnv \/ AbortEnv
    BY <2>3 DEF RestoreEnv, AbortEnv, SwapEnvDb
  <2>4. CASE EditLocally
    BY <2>4 DEF EditLocally
  <2> QED
    BY <2>1, <2>2, <2>3, <2>4
<1> QED
  BY <1>1, <1>2, KeepDeployed

\* The steps that get further, each with what it has just done.
LEMMA ForwardDeployed ==
    ASSUME IInv, Deployed, faults' = faults,
           \/ GitPull \/ RemediateEnvironment \/ Build \/ PreMigrate \/ RestartServices
           \/ ClearCache \/ PostMigrate \/ ReadVersion
    PROVE  Deployed'
<1> USE DEF AfterPull, AfterBuild, AfterRestart, AfterPost, Finishing
<1>0. g \in GuestState
  BY DEF IInv, TypeOK
<1>1. CASE GitPull
  <2> DEFINE u == [g EXCEPT !.code = "new", !.built = @ /\ g.code = "new"]
  <2>1. /\ u.code = "new" /\ u.built = (g.built /\ g.code = "new")
        /\ u.srvCode = g.srvCode /\ u.schema = g.schema
    BY <1>0, DeployOps
  <2>2. pc = "pull" /\ (g' = g \/ g' = u) /\ pc' \in {"pop", "abort_stash", "dropped"}
        /\ (pc' = "pop" => g' = u)
    BY <1>1 DEF GitPull, Exec
  <2> HIDE DEF u
  <2> QED
    BY <2>1, <2>2 DEF Deployed
<1>2. CASE RemediateEnvironment \/ ClearCache \/ ReadVersion
  <2>1. g' = g /\ NoFurther
    BY <1>2 DEF RemediateEnvironment, ClearCache, ReadVersion, Exec, NoFurther
  <2> QED
    BY <2>1, KeepDeployed DEF SameDeploy
<1>3. CASE Build
  <2> DEFINE u == [g EXCEPT !.built = TRUE]
  <2>1. u.code = g.code /\ u.built /\ u.srvCode = g.srvCode /\ u.schema = g.schema
    BY <1>0, DeployOps
  <2>2. \/ g' = g /\ NoFurther
        \/ /\ pc = "assets" /\ (g' = g \/ g' = u)
           /\ pc' \in {"restore1", "abort_stash", "dropped"} /\ (pc' = "restore1" => g' = u)
    BY <1>3 DEF Build, Exec, NoFurther
  <2> HIDE DEF u
  <2>3. CASE g' = g /\ NoFurther
    BY <2>3, KeepDeployed DEF SameDeploy
  <2>4. CASE /\ pc = "assets" /\ (g' = g \/ g' = u)
             /\ pc' \in {"restore1", "abort_stash", "dropped"} /\ (pc' = "restore1" => g' = u)
    BY <2>1, <2>4 DEF Deployed
  <2> QED
    BY <2>2, <2>3, <2>4
<1>4. CASE PreMigrate
  <2> DEFINE v == IF g.schema = "old" THEN "pre" ELSE g.schema
             u == [g EXCEPT !.schema = v]
  <2>1. pc = "pre" /\ (g' = g \/ g' = u) /\ pc' \in {"assets", "abort_stash", "dropped"}
        /\ (pc' = "assets" => g' = u)
    BY <1>4 DEF PreMigrate, Exec
  <2>2. v # "old" /\ (v = "post" => g.schema = "post")
    OBVIOUS
  <2> HIDE DEF v
  <2>3. u.code = g.code /\ u.built = g.built /\ u.srvCode = g.srvCode /\ u.schema = v
    BY <1>0 DEF GuestState
  <2> HIDE DEF u
  <2> QED
    BY <2>1, <2>2, <2>3 DEF Deployed
<1>5. CASE RestartServices
  <2> DEFINE u == Restarted(g)
  <2>1. u.code = g.code /\ u.built = g.built /\ u.srvCode = g.code /\ u.schema = g.schema
    BY <1>0, DeployOps
  <2>2. /\ pc \in {"restart1", "restart2"} /\ (g' = g \/ g' = u)
        /\ pc' \in {"cache", "version", "dropped"}
        /\ pc' # "dropped" /\ "restart" \notin faults => g' = u
    BY <1>5 DEF RestartServices
  <2> HIDE DEF u
  <2> QED
    BY <2>1, <2>2 DEF Deployed
<1>6. CASE PostMigrate
  <2> DEFINE u == [g EXCEPT !.schema = "post"]
  <2>1. u.code = g.code /\ u.built = g.built /\ u.srvCode = g.srvCode /\ u.schema = "post"
    BY <1>0 DEF GuestState
  <2>2. pc = "post" /\ (g' = g \/ g' = u) /\ pc' \in {"restore2", "abort_stash", "dropped"}
    BY <1>6 DEF PostMigrate, Exec
  <2> HIDE DEF u
  <2> QED
    BY <2>1, <2>2 DEF Deployed
<1> QED
  BY <1>1, <1>2, <1>3, <1>4, <1>5, <1>6

\* Deployed is inductive.
LEMMA NextDeployed == ASSUME IInv, Deployed, [Next]_vars PROVE Deployed'
<1>1. CASE UNCHANGED vars
  BY <1>1 DEF vars, Deployed
<1>2. CASE Next
  BY <1>2, QuietDeployed, TreeDeployed, ForwardDeployed DEF Next, Step
<1> QED
  BY <1>1, <1>2

\* The services run new code only once it is built and migrated for, and
\* post-deployment migrations wait for them, in any run and after any failure.
THEOREM CodeFitsSchemaHolds == Spec => []CodeFitsSchema
<1>1. Init => Deployed
  BY DEF Init, Fresh, Deployed, AfterPull, AfterBuild, AfterRestart, AfterPost, Finishing
<1>2. Deployed => CodeFitsSchema
  BY DEF Deployed, CodeFitsSchema, ServesOnlyBuilt, PostMigrationsOnNewCode
<1> QED
  BY <1>1, <1>2, NextDeployed, IInvHolds, PTL DEF Spec

----------------------------------------------------------------------------
(* What a finishing run and a recorded success have achieved. *)

\* Only a run at its end sets the result to success; only the post-deployment
\* migrations and a restored file lead to it.
LEMMA NextComplete == ASSUME IInv, Complete, [Next]_vars PROVE Complete'
<1> USE DEF AfterPost, Finishing, Complete
<1>0. g \in GuestState
  BY DEF IInv, TypeOK
<1>0a. SameDeploy(g, g) /\ SameFile(g, g)
  BY DEF SameDeploy, SameFile
<1>0b. \A h : SameFile(g, h) => (Pool(h) <=> Pool(g))
  BY DEF SameFile, Pool
<1>1. CASE UNCHANGED vars
  BY <1>1 DEF vars, Pool
<1>2. CASE StartRun \/ CheckEnvironment \/ Protect \/ CheckUnmerged \/ Failed
  BY <1>2 DEF StartRun, CheckEnvironment, Protect, CheckUnmerged, Failed, Fail, Pool
<1>3. CASE PgDump \/ Reconnect
  BY <1>3 DEF PgDump, Reconnect, rest, Pool
<1>4. CASE RecordSuccess \/ SyncSecondGuest
  BY <1>4 DEF RecordSuccess, SyncSecondGuest, Exec2, Pool
<1>5. CASE EditLocally
  <2>1. g' = [g EXCEPT !.local = TRUE] /\ pc' = pc /\ result' = result
    BY <1>5 DEF EditLocally, rest
  <2>2. g'.schema = g.schema /\ SameFile(g, g')
    BY <1>0, <2>1, DeployOps DEF SameDeploy
  <2> QED
    BY <1>0b, <2>1, <2>2 DEF Pool
\* the steps of a run under way: the result is not set yet
<1>6. ASSUME result' = result, pc # "idle", pc' \notin AfterPost PROVE Complete'
  BY <1>6
<1>7. CASE GitStash \/ SwapToDirect \/ StashPop \/ ResolveStashConflicts
  <2>1. result' = result /\ pc # "idle" /\ pc' \notin AfterPost
    BY <1>7 DEF GitStash, SwapToDirect, StashPop, ResolveStashConflicts, Exec, SwapEnvDb, rest
  <2> QED
    BY <1>6, <2>1
<1>8. CASE GitPull \/ RemediateEnvironment \/ Build \/ PreMigrate \/ ClearCache
  <2>1. result' = result /\ pc # "idle" /\ pc' \notin AfterPost
    BY <1>8 DEF GitPull, RemediateEnvironment, Build, PreMigrate, ClearCache, Exec, rest
  <2> QED
    BY <1>6, <2>1
<1>9. CASE AbortStash \/ AbortEnv
  <2>1. result' = result /\ pc # "idle" /\ pc' \notin AfterPost
    BY <1>9 DEF AbortStash, AbortEnv, SwapEnvDb, rest
  <2> QED
    BY <1>6, <2>1
<1>10. CASE PostMigrate
  <2>1. pc = "post" /\ result' = result
        /\ (pc' = "restore2" => g' = [g EXCEPT !.schema = "post"])
        /\ pc' \in {"restore2", "abort_stash", "dropped"}
    BY <1>10 DEF PostMigrate, Exec, rest
  <2>2. pc' = "restore2" => g'.schema = "post"
    BY <1>0, <2>1 DEF GuestState
  <2> QED
    BY <2>1, <2>2
<1>11. CASE RestoreEnv
  <2>1. /\ result' = result
        /\ \/ pc = "restore1" /\ pc' \in {"restart1", "abort_stash", "dropped"}
           \/ pc = "restore2" /\ pc' \in {"restart2", "abort_stash", "dropped"}
        /\ g' \in {g, Swapped(g, "pgb"), HalfSwapped(g, "pgb")}
    BY <1>11 DEF RestoreEnv, SwapEnvDb, rest
  <2>2. SameDeploy(g, g')
    BY <1>0, <1>0a, <2>1, SwapOps
  <2> QED
    BY <2>1, <2>2 DEF SameDeploy
<1>12. CASE RestartServices
  <2>1. /\ result' = result /\ g' \in {g, Restarted(g)}
        /\ \/ pc = "restart1" /\ pc' \in {"cache", "dropped"}
           \/ pc = "restart2" /\ pc' \in {"version", "dropped"}
    BY <1>12 DEF RestartServices, rest
  <2>2. g'.schema = g.schema /\ SameFile(g, g')
    BY <1>0, <1>0a, <2>1, DeployOps
  <2>3. Pool(g)
    BY <2>1 DEF IInv, RestartsOnPool
  <2>4. Pool(g')
    BY <1>0b, <2>2, <2>3
  <2> QED
    BY <2>1, <2>2, <2>4 DEF Pool
<1>13. CASE ReadVersion
  <2>1. /\ result' = result /\ g' = g /\ pc = "version"
        /\ pc' \in {"stash2", "record", "dropped"}
    BY <1>13 DEF ReadVersion, Exec, rest
  <2> QED
    BY <2>1 DEF Pool
<1> QED
  BY <1>1, <1>2, <1>3, <1>4, <1>5, <1>7, <1>8, <1>9, <1>10, <1>11, <1>12, <1>13 DEF Next, Step

----------------------------------------------------------------------------
(* What the run owes the operator. *)

\* A step that leaves the stash alone and does not forget what is owed.
LEMMA KeepStashOwed ==
    ASSUME StashOwed, g'.stash = g.stash, g'.unmerged = g.unmerged,
           pending' = pending, warned \subseteq warned', pc # "resolve",
           pc \in {"swap", "pull", "pop", "resolve", "abort_stash"}
              => pc' \in {"swap", "pull", "pop", "resolve", "abort_stash"} \/ "stash" \in warned'
    PROVE  StashOwed'
  BY DEF StashOwed, StashTold

\* The steps that leave the stash alone.
LEMMA QuietStashOwed ==
    ASSUME IInv, StashOwed, Clean,
           \/ StartRun \/ CheckEnvironment \/ Protect \/ PgDump \/ CheckUnmerged
           \/ Failed \/ Reconnect \/ RecordSuccess \/ SyncSecondGuest \/ EditLocally
           \/ RestartServices \/ AbortEnv
    PROVE  StashOwed'
<1>0. g \in GuestState
  BY DEF IInv, TypeOK
<1>1. CASE StartRun
  BY <1>1, <1>0 DEF StartRun, StashOwed, StashTold, GuestState
<1>2. CASE CheckEnvironment \/ Protect \/ CheckUnmerged \/ Failed
  BY <1>2, KeepStashOwed DEF CheckEnvironment, Protect, CheckUnmerged, Failed, flags
<1>3. CASE PgDump \/ RecordSuccess
  BY <1>3, KeepStashOwed DEF PgDump, RecordSuccess, flags
<1>4. CASE Reconnect
  BY <1>4, KeepStashOwed DEF Reconnect
<1>5. CASE SyncSecondGuest
  BY <1>5, KeepStashOwed DEF SyncSecondGuest, Exec2, flags
<1>6. CASE EditLocally
  <2>1. g' = [g EXCEPT !.local = TRUE]
    BY <1>6 DEF EditLocally
  <2>2. g'.stash = g.stash /\ g'.unmerged = g.unmerged
    BY <1>0, <2>1 DEF GuestState
  <2> QED
    BY <1>6, <2>2, KeepStashOwed DEF EditLocally, flags
<1>7. CASE RestartServices
  <2>1. g' \in {g, Restarted(g)}
    BY <1>7 DEF RestartServices
  <2>2. g'.stash = g.stash /\ g'.unmerged = g.unmerged
    BY <1>0, <2>1, DeployOps DEF SameTree
  <2> QED
    BY <1>7, <2>2, KeepStashOwed DEF RestartServices, flags
<1>8. CASE AbortEnv
  <2>1. g' \in {g, Swapped(g, "pgb"), HalfSwapped(g, "pgb")}
        /\ pc \in {"abort_env", "env_lost"} /\ pending' = pending /\ warned \subseteq warned'
    BY <1>8 DEF AbortEnv, SwapEnvDb
  <2>2. g'.stash = g.stash /\ g'.unmerged = g.unmerged
    BY <1>0, <2>1, SwapOps DEF SameTree
  <2> QED
    BY <2>1, <2>2, KeepStashOwed
<1> QED
  BY <1>1, <1>2, <1>3, <1>4, <1>5, <1>6, <1>7, <1>8

\* The commands between the stash and the end of the run.
LEMMA ForwardStashOwed ==
    ASSUME IInv, StashOwed, Clean,
           \/ SwapToDirect \/ RestoreEnv \/ GitPull \/ RemediateEnvironment \/ Build
           \/ PreMigrate \/ ClearCache \/ PostMigrate \/ ReadVersion
    PROVE  StashOwed'
<1>0. g \in GuestState
  BY DEF IInv, TypeOK
<1>1. pending' = pending /\ warned \subseteq warned'
  BY DEF SwapToDirect, RestoreEnv, GitPull, RemediateEnvironment, Build, PreMigrate,
         ClearCache, PostMigrate, ReadVersion, flags
<1>2. CASE SwapToDirect \/ RestoreEnv
  <2>1. /\ \E to \in {"pgb", "direct"} : g' \in {g, Swapped(g, to), HalfSwapped(g, to)}
        /\ pc \in {"swap", "reswap", "restore1", "restore2"}
        /\ pc = "swap" => pc' \in {"pull", "abort_stash"}
    BY <1>2 DEF SwapToDirect, RestoreEnv, SwapEnvDb, Clean
  <2>2. g'.stash = g.stash /\ g'.unmerged = g.unmerged
    BY <1>0, <2>1, SwapOps DEF SameTree
  <2> QED
    BY <1>1, <2>1, <2>2, KeepStashOwed
<1>3. CASE GitPull
  <2> DEFINE u == [g EXCEPT !.code = "new", !.built = @ /\ g.code = "new"]
  <2>1. (g' = g \/ g' = u) /\ pc = "pull" /\ pc' \in {"pop", "abort_stash"}
    BY <1>3 DEF GitPull, Exec, Clean
  <2>2. u.stash = g.stash /\ u.unmerged = g.unmerged
    BY <1>0, DeployOps DEF SameTree
  <2> HIDE DEF u
  <2> QED
    BY <1>1, <2>1, <2>2, KeepStashOwed
<1>4. CASE RemediateEnvironment \/ ClearCache \/ ReadVersion
  <2>1. g' = g /\ pc \in {"runtime", "cache", "version"}
    BY <1>4 DEF RemediateEnvironment, ClearCache, ReadVersion, Exec
  <2> QED
    BY <1>1, <2>1, KeepStashOwed
<1>5. CASE Build
  <2> DEFINE u == [g EXCEPT !.built = TRUE]
  <2>1. (g' = g \/ g' = u) /\ pc \in {"bundle", "yarn", "assets"}
    BY <1>5 DEF Build, Exec
  <2>2. u.stash = g.stash /\ u.unmerged = g.unmerged
    BY <1>0, DeployOps DEF SameTree
  <2> HIDE DEF u
  <2> QED
    BY <1>1, <2>1, <2>2, KeepStashOwed
<1>6. CASE PreMigrate \/ PostMigrate
  <2>1. PICK v : g' \in {g, [g EXCEPT !.schema = v]}
    BY <1>6 DEF PreMigrate, PostMigrate, Exec
  <2>2. g'.stash = g.stash /\ g'.unmerged = g.unmerged
    BY <1>0, <2>1 DEF GuestState
  <2>3. pc \in {"pre", "post"}
    BY <1>6 DEF PreMigrate, PostMigrate, Exec
  <2> QED
    BY <1>1, <2>2, <2>3, KeepStashOwed
<1> QED
  BY <1>2, <1>3, <1>4, <1>5, <1>6

\* The steps about the stash itself.
LEMMA StashStashOwed ==
    ASSUME IInv, StashOwed, Clean,
           GitStash \/ StashPop \/ ResolveStashConflicts \/ AbortStash
    PROVE  StashOwed'
<1>0. g \in GuestState /\ g.stash \in Nat /\ g.local \in BOOLEAN
  BY DEF IInv, TypeOK, GuestState
<1>0a. pending \in BOOLEAN
  BY DEF IInv, TypeOK
<1>1. CASE GitStash
  <2>1. /\ pc = "stash" /\ warned' = warned
        /\ \/ g' = Stashed(g) /\ pending' = g.local /\ pc' = "swap"
           \/ g' = g /\ pending' = pending /\ pc' = "failed"
    BY <1>1 DEF GitStash, Exec, Clean
  <2>2. CASE g' = g /\ pending' = pending
    BY <2>1, <2>2 DEF StashOwed, StashTold
  <2>3. CASE g' = Stashed(g) /\ pending' = g.local /\ pc' = "swap"
    <3>1. /\ g.local => g'.stash = g.stash + 1
          /\ ~g.local => g'.stash = g.stash
          /\ g'.unmerged = g.unmerged
      BY <1>0, <2>3, StashedOp
    <3> QED
      BY <1>0, <2>1, <2>3, <3>1 DEF StashOwed, StashTold
  <2> QED
    BY <2>1, <2>2, <2>3
<1>2. CASE StashPop
  <2>1. /\ pc = "pop" /\ warned \subseteq warned'
        /\ \/ ~pending /\ g' = g /\ pending' = pending
           \/ pending /\ g' \in PopResults(g) /\ pending' = FALSE
           \/ pending /\ g' \in PopConflicts(g) /\ pc' = "resolve" /\ pending' = pending
           \/ "stash" \in warned'
    BY <1>2 DEF StashPop, Clean
  <2>2. CASE g' = g /\ ~pending /\ pending' = pending
    BY <2>1, <2>2 DEF StashOwed, StashTold
  <2>3. CASE pending /\ g' \in PopResults(g) /\ pending' = FALSE
    <3>1. g'.stash = g.stash - 1 /\ g'.unmerged = g.unmerged
      BY <1>0, <2>3, PopOps
    <3> QED
      BY <1>0, <2>1, <2>3, <3>1 DEF StashOwed, StashTold
  <2>4. CASE pending /\ g' \in PopConflicts(g) /\ pc' = "resolve" /\ pending' = pending
    <3>1. g'.stash = g.stash
      BY <1>0, <2>4, PopOps
    <3> QED
      BY <2>1, <2>4, <3>1 DEF StashOwed, StashTold
  <2>5. CASE "stash" \in warned'
    BY <2>5 DEF StashOwed, StashTold
  <2> QED
    BY <2>1, <2>2, <2>3, <2>4, <2>5
<1>3. CASE ResolveStashConflicts
  <2>1. /\ pc = "resolve" /\ warned \subseteq warned'
        /\ \/ /\ pending' = FALSE
              /\ \/ g' = Dropped(Resolved(g))
                 \/ g' = [Dropped(Resolved(g)) EXCEPT !.local = FALSE]
           \/ "stash" \in warned' \/ "unread" \in warned'
    BY <1>3 DEF ResolveStashConflicts, Clean
  <2>2. CASE StashTold'
    BY <2>2 DEF StashOwed
  <2>3. CASE ~StashTold'
    <3>1. g'.stash = g.stash - 1 /\ g'.unmerged = FALSE /\ pending' = FALSE
      BY <1>0, <2>1, <2>3, ResolveOps DEF StashTold
    <3> QED
      BY <1>0, <2>1, <2>3, <3>1 DEF StashOwed, StashTold
  <2> QED
    BY <2>2, <2>3
<1>4. CASE AbortStash
  <2>1. /\ pc = "abort_stash" /\ warned \subseteq warned'
        /\ \/ ~pending /\ g' = g /\ pending' = pending
           \/ pending /\ g' \in PopResults(g) /\ pending' = FALSE
           \/ "stash" \in warned'
    BY <1>4 DEF AbortStash, Clean
  <2>2. CASE g' = g /\ ~pending /\ pending' = pending
    BY <2>1, <2>2 DEF StashOwed, StashTold
  <2>3. CASE pending /\ g' \in PopResults(g) /\ pending' = FALSE
    <3>1. g'.stash = g.stash - 1 /\ g'.unmerged = g.unmerged
      BY <1>0, <2>3, PopOps
    <3> QED
      BY <1>0, <2>1, <2>3, <3>1 DEF StashOwed, StashTold
  <2>4. CASE "stash" \in warned'
    BY <2>4 DEF StashOwed, StashTold
  <2> QED
    BY <2>1, <2>2, <2>3, <2>4
<1> QED
  BY <1>1, <1>2, <1>3, <1>4

LEMMA NextStashOwed == ASSUME IInv, StashOwed, Clean, [Next]_vars PROVE StashOwed'
<1>1. CASE UNCHANGED vars
  BY <1>1 DEF vars, StashOwed, StashTold
<1>2. CASE Next
  BY <1>2, QuietStashOwed, ForwardStashOwed, StashStashOwed DEF Next, Step
<1> QED
  BY <1>1, <1>2

\* the steps at which the file may be off the pool and the run knows it
EnvPcs == {"pull", "pop", "resolve", "runtime", "bundle", "yarn", "pre", "assets",
           "restore1", "post", "restore2", "abort_stash", "abort_env"}

\* A step that leaves the file alone and does not forget that it is owed.
LEMMA KeepEnvOwed ==
    ASSUME EnvOwed, SameFile(g, g'), warned \subseteq warned',
           swapped' = swapped, restore' = restore,
           pc # "env_lost", pc \in EnvPcs => pc' \in EnvPcs
    PROVE  EnvOwed'
  BY DEF EnvOwed, SameFile, Pool, EnvPcs

\* A step that is not at one of them leaves the file, and the operator's view
\* of it, as they were.
LEMMA CalmEnvOwed ==
    ASSUME EnvOwed, SameFile(g, g'), warned \subseteq warned', pc \notin EnvPcs,
           pc # "env_lost"
    PROVE  EnvOwed'
  BY DEF EnvOwed, SameFile, Pool, EnvPcs

\* The steps outside the two migrations.
LEMMA CalmSteps ==
    ASSUME IInv, EnvOwed, Clean,
           \/ StartRun \/ CheckEnvironment \/ Protect \/ PgDump \/ CheckUnmerged \/ GitStash
           \/ Failed \/ Reconnect \/ RecordSuccess \/ SyncSecondGuest \/ EditLocally
           \/ RestartServices \/ ClearCache \/ ReadVersion
    PROVE  EnvOwed'
<1> USE DEF EnvPcs
<1>0. g \in GuestState /\ SameFile(g, g)
  BY DEF IInv, TypeOK, SameFile
<1>1. CASE StartRun \/ CheckEnvironment \/ Protect \/ CheckUnmerged \/ Failed
  BY <1>0, <1>1, CalmEnvOwed DEF StartRun, CheckEnvironment, Protect, CheckUnmerged, Failed
<1>2. CASE PgDump \/ RecordSuccess \/ Reconnect
  BY <1>0, <1>2, CalmEnvOwed DEF PgDump, RecordSuccess, Reconnect
<1>3. CASE GitStash
  <2>1. (g' = g \/ g' = Stashed(g)) /\ pc = "stash" /\ warned' = warned
    BY <1>3 DEF GitStash, Exec
  <2>2. SameFile(g, g')
    BY <1>0, <2>1, StashedOp
  <2> QED
    BY <2>1, <2>2, CalmEnvOwed
<1>4. CASE SyncSecondGuest
  BY <1>0, <1>4, CalmEnvOwed DEF SyncSecondGuest, Exec2
<1>5. CASE EditLocally
  <2>1. g' = [g EXCEPT !.local = TRUE] /\ pc = "idle" /\ warned' = warned
    BY <1>5 DEF EditLocally
  <2>2. SameFile(g, g')
    BY <1>0, <2>1, DeployOps
  <2> QED
    BY <2>1, <2>2, CalmEnvOwed
<1>6. CASE RestartServices
  <2>1. g' \in {g, Restarted(g)} /\ pc \in {"restart1", "restart2"} /\ warned' = warned
    BY <1>6 DEF RestartServices
  <2>2. SameFile(g, g')
    BY <1>0, <2>1, DeployOps
  <2> QED
    BY <2>1, <2>2, CalmEnvOwed
<1>7. CASE ClearCache \/ ReadVersion
  BY <1>0, <1>7, CalmEnvOwed DEF ClearCache, ReadVersion, Exec
<1> QED
  BY <1>1, <1>2, <1>3, <1>4, <1>5, <1>6, <1>7

\* The commands run while the file points at the direct database.
LEMMA SwappedSteps ==
    ASSUME IInv, EnvOwed, Clean,
           \/ GitPull \/ StashPop \/ ResolveStashConflicts \/ RemediateEnvironment \/ Build
           \/ PreMigrate \/ PostMigrate \/ AbortStash
    PROVE  EnvOwed'
<1> USE DEF EnvPcs
<1>0. g \in GuestState /\ SameFile(g, g)
  BY DEF IInv, TypeOK, SameFile
<1>1. /\ swapped' = swapped /\ restore' = restore /\ warned \subseteq warned'
      /\ pc # "env_lost" /\ pc' \in EnvPcs
  <2>1. CASE GitPull \/ RemediateEnvironment \/ Build
    BY <2>1 DEF GitPull, RemediateEnvironment, Build, Exec, flags, Clean
  <2>2. CASE PreMigrate \/ PostMigrate
    BY <2>2 DEF PreMigrate, PostMigrate, Exec, flags, Clean
  <2>3. CASE StashPop \/ ResolveStashConflicts \/ AbortStash
    BY <2>3 DEF StashPop, ResolveStashConflicts, AbortStash, Clean
  <2> QED
    BY <2>1, <2>2, <2>3
<1>2. SameFile(g, g')
  <2>1. CASE GitPull
    BY <1>0, <2>1, DeployOps DEF GitPull, Exec
  <2>2. CASE StashPop
    BY <1>0, <2>2, PopOps DEF StashPop
  <2>3. CASE ResolveStashConflicts
    BY <1>0, <2>3, ResolveOps, ResolveEnds
  <2>4. CASE RemediateEnvironment
    BY <1>0, <2>4 DEF RemediateEnvironment, Exec
  <2>5. CASE Build
    BY <1>0, <2>5, DeployOps DEF Build, Exec
  <2>6. CASE PreMigrate \/ PostMigrate
    <3>1. PICK v : g' \in {g, [g EXCEPT !.schema = v]}
      BY <2>6 DEF PreMigrate, PostMigrate, Exec
    <3> QED
      BY <1>0, <3>1 DEF GuestState, SameFile
  <2>7. CASE AbortStash
    BY <1>0, <2>7, PopOps DEF AbortStash
  <2> QED
    BY <2>1, <2>2, <2>3, <2>4, <2>5, <2>6, <2>7
<1> QED
  BY <1>1, <1>2, KeepEnvOwed

\* The swaps, the restores, and the restore of an abort.
LEMMA FileSteps ==
    ASSUME IInv, EnvOwed, Clean, SwapToDirect \/ RestoreEnv \/ AbortEnv
    PROVE  EnvOwed'
<1>0. g \in GuestState /\ SameFile(g, g)
  BY DEF IInv, TypeOK, SameFile
<1>0a. Pool(Swapped(g, "pgb"))
  BY <1>0, SwapOps
<1>1. CASE SwapToDirect
  <2>1. /\ warned' = warned /\ pc \in {"swap", "reswap"}
        /\ \/ pc' \in {"pull", "post"} /\ swapped' /\ restore'
           \/ g' = g /\ pc' = "abort_stash"
    BY <1>1 DEF SwapToDirect, SwapEnvDb, Clean
  <2> QED
    BY <2>1 DEF EnvOwed, Pool
<1>2. CASE RestoreEnv
  <2>1. Pool(g') \/ "env" \in warned'
    BY <1>0a, <1>2 DEF RestoreEnv, SwapEnvDb, Clean
  <2> QED
    BY <2>1 DEF EnvOwed, Pool
<1>3. CASE AbortEnv
  <2>1. \/ Pool(g')
        \/ pc' = "env_lost"
        \/ "env" \in warned'
        \/ g' = g /\ warned' = warned /\ pc = "abort_env" /\ ~(restore /\ swapped)
    BY <1>0a, <1>3 DEF AbortEnv, SwapEnvDb, Clean
  <2> QED
    BY <2>1 DEF EnvOwed, Pool
<1> QED
  BY <1>1, <1>2, <1>3

LEMMA NextEnvOwed == ASSUME IInv, EnvOwed, Clean, [Next]_vars PROVE EnvOwed'
<1>1. CASE UNCHANGED vars
  BY <1>1 DEF vars, EnvOwed, Pool
<1>2. CASE Next
  BY <1>2, CalmSteps, SwappedSteps, FileSteps DEF Next, Step
<1> QED
  BY <1>1, <1>2

\* A recorded success is one unless a restart failed unnoticed, and with
\* commands that do their work or nothing whatever a run leaves to repair, on the
\* stash, in the tree or in .env.production, has been announced, up to what a
\* git add or git stash drop whose exit code is not read has left.
THEOREM OutcomeHonestHolds == Spec => []OutcomeHonest
<1> DEFINE Debts == Clean => StashOwed /\ EnvOwed
<1>1. Init => Deployed /\ Complete /\ Debts
  <2> SUFFICES ASSUME Init PROVE Deployed /\ Complete /\ StashOwed /\ EnvOwed
    OBVIOUS
  <2>1. Deployed /\ Complete
    BY DEF Init, Fresh, Deployed, Complete, AfterPull, AfterBuild, AfterRestart, AfterPost,
           Finishing
  <2>2. g.stash = 0 /\ ~g.unmerged /\ Pool(g) /\ ~pending
    BY DEF Init, Fresh, Pool
  <2> QED
    BY <2>1, <2>2 DEF StashOwed, EnvOwed
<1>2. Debts /\ IInv /\ [Next]_vars => Debts'
  <2> SUFFICES ASSUME Debts, IInv, [Next]_vars, Clean' PROVE StashOwed' /\ EnvOwed'
    OBVIOUS
  <2>1. Clean
    BY DEF Next, vars, Clean
  <2> QED
    BY <2>1, NextStashOwed, NextEnvOwed
<1>3. IInv /\ Deployed /\ Complete /\ Debts => OutcomeHonest
  <2> SUFFICES ASSUME IInv, Deployed, Complete, Debts PROVE OutcomeHonest
    OBVIOUS
  <2>1. "restart" \notin faults => SuccessTruthful
    BY DEF Deployed, Complete, SuccessTruthful
  <2>2. ASSUME Clean PROVE NoSilentDebt
    BY <2>2 DEF StashOwed, EnvOwed, NoSilentDebt
  <2> QED
    BY <2>1, <2>2 DEF OutcomeHonest, Clean
<1> HIDE DEF Debts
<1> QED
  BY <1>1, <1>2, <1>3, NextDeployed, NextComplete, IInvHolds, PTL DEF Spec

----------------------------------------------------------------------------
(* The operator's local changes. *)

\* a tree with conflicts carries the local changes
ResolvesChanges == pc = "resolve" => g.local

LEMMA NextResolves == ASSUME IInv, ResolvesChanges, [Next]_vars PROVE ResolvesChanges'
<1> USE DEF ResolvesChanges
<1>0. g \in GuestState
  BY DEF IInv, TypeOK
<1>1. CASE StashPop
  <2>1. pc' = "resolve" => g' \in PopConflicts(g)
    BY <1>1 DEF StashPop
  <2> QED
    BY <1>0, <2>1, PopOps
<1>2. CASE UNCHANGED vars
  BY <1>2 DEF vars
<1>3. CASE StartRun \/ CheckEnvironment \/ Protect \/ PgDump \/ CheckUnmerged \/ Failed
  BY <1>3 DEF StartRun, CheckEnvironment, Protect, PgDump, CheckUnmerged, Failed, Fail
<1>4. CASE GitStash \/ SwapToDirect \/ GitPull \/ RemediateEnvironment \/ Build
  BY <1>4 DEF GitStash, SwapToDirect, GitPull, RemediateEnvironment, Build, Exec, SwapEnvDb
<1>5. CASE ResolveStashConflicts \/ AbortStash \/ AbortEnv \/ Reconnect \/ RestoreEnv
  BY <1>5 DEF ResolveStashConflicts, AbortStash, AbortEnv, Reconnect, RestoreEnv, SwapEnvDb
<1>6. CASE PreMigrate \/ RestartServices \/ ClearCache \/ PostMigrate \/ ReadVersion
  BY <1>6 DEF PreMigrate, RestartServices, ClearCache, PostMigrate, ReadVersion, Exec
<1>7. CASE SyncSecondGuest \/ RecordSuccess \/ EditLocally
  BY <1>7 DEF SyncSecondGuest, Exec2, RecordSuccess, EditLocally
<1> QED
  BY <1>1, <1>2, <1>3, <1>4, <1>5, <1>6, <1>7 DEF Next, Step

\* What a command makes of the tree and the stash, for either guest.
LEMMA TreeOps ==
    ASSUME NEW h \in GuestState
    PROVE  /\ ChangesKept(h, h) /\ ChangesKept(h, Stashed(h))
           /\ \A r \in PopResults(h) \cup PopConflicts(h) : ChangesKept(h, r)
           /\ \A r : SameTree(h, r) => ChangesKept(h, r)
<1>1. h.stash \in Nat
  BY DEF GuestState
<1>2. ChangesKept(h, h) /\ \A r : SameTree(h, r) => ChangesKept(h, r)
  BY <1>1 DEF ChangesKept, SameTree
<1>3. ChangesKept(h, Stashed(h))
  BY <1>1, <1>2, StashedOp DEF ChangesKept
<1>4. \A r \in PopResults(h) \cup PopConflicts(h) : ChangesKept(h, r)
  BY <1>1, PopOps DEF ChangesKept
<1> QED
  BY <1>2, <1>3, <1>4

\* Every step of the application guest keeps them.
LEMMA FirstKept ==
    ASSUME IInv, ResolvesChanges, "checkout" \notin faults, [Next]_vars
    PROVE  ChangesKept(g, g')
<1>0. g \in GuestState /\ g.stash \in Nat
  BY DEF IInv, TypeOK, GuestState
<1>1. CASE g' = g
  BY <1>0, <1>1, TreeOps
<1>2. CASE GitStash
  BY <1>0, <1>2, TreeOps DEF GitStash, Exec
<1>3. CASE SwapToDirect \/ RestoreEnv \/ AbortEnv
  <2>1. \E to \in {"pgb", "direct"} : g' \in {g, Swapped(g, to), HalfSwapped(g, to)}
    BY <1>3 DEF SwapToDirect, RestoreEnv, AbortEnv, SwapEnvDb
  <2> QED
    BY <1>0, <2>1, SwapOps, TreeOps
<1>4. CASE GitPull
  <2> DEFINE u == [g EXCEPT !.code = "new", !.built = @ /\ g.code = "new"]
  <2>1. (g' = g \/ g' = u) /\ SameTree(g, u)
    BY <1>0, <1>4, DeployOps DEF GitPull, Exec
  <2> HIDE DEF u
  <2> QED
    BY <1>0, <2>1, TreeOps
<1>5. CASE StashPop \/ AbortStash
  BY <1>0, <1>5, TreeOps DEF StashPop, AbortStash
<1>6. CASE ResolveStashConflicts
  <2>1. g.local /\ g' \in {g, Resolved(g), Dropped(g), Dropped(Resolved(g))}
    BY <1>6 DEF ResolveStashConflicts, HalfResolved, ResolvesChanges
  <2>2. CASE g' \in {g, Resolved(g)}
    <3>1. g'.local = g.local /\ g'.stash = g.stash
      BY <1>0, <2>2, ResolveOps
    <3> QED
      BY <1>0, <2>1, <3>1 DEF ChangesKept
  <2>3. CASE g' \in {Dropped(g), Dropped(Resolved(g))}
    <3>1. g'.local = g.local
      BY <1>0, <2>3, ResolveOps
    <3> QED
      BY <2>1, <3>1 DEF ChangesKept
  <2> QED
    BY <2>1, <2>2, <2>3
<1>7. CASE RemediateEnvironment \/ ClearCache \/ ReadVersion
  BY <1>0, <1>7, TreeOps DEF RemediateEnvironment, ClearCache, ReadVersion, Exec
<1>8. CASE Build
  <2> DEFINE u == [g EXCEPT !.built = TRUE]
  <2>1. (g' = g \/ g' = u) /\ SameTree(g, u)
    BY <1>0, <1>8, DeployOps DEF Build, Exec
  <2> HIDE DEF u
  <2> QED
    BY <1>0, <2>1, TreeOps
<1>9. CASE PreMigrate \/ PostMigrate
  <2>1. PICK v : g' \in {g, [g EXCEPT !.schema = v]}
    BY <1>9 DEF PreMigrate, PostMigrate, Exec
  <2>2. SameTree(g, g')
    BY <1>0, <2>1 DEF GuestState, SameTree
  <2> QED
    BY <1>0, <2>2, TreeOps
<1>10. CASE RestartServices
  <2>1. g' \in {g, Restarted(g)} /\ SameTree(g, Restarted(g))
    BY <1>0, <1>10, DeployOps DEF RestartServices
  <2> QED
    BY <1>0, <2>1, TreeOps
<1>11. CASE EditLocally
  <2>1. g' = [g EXCEPT !.local = TRUE]
    BY <1>11 DEF EditLocally
  <2>2. g'.local /\ g'.stash = g.stash
    BY <1>0, <2>1, DeployOps
  <2> QED
    BY <2>2 DEF ChangesKept
<1>12. ASSUME \/ StartRun \/ CheckEnvironment \/ Protect \/ PgDump \/ CheckUnmerged
              \/ Failed \/ Reconnect \/ RecordSuccess \/ SyncSecondGuest \/ UNCHANGED vars
       PROVE  g' = g
  BY <1>12 DEF StartRun, CheckEnvironment, Protect, PgDump, CheckUnmerged, Failed, Reconnect,
         RecordSuccess, SyncSecondGuest, vars
<1> QED
  BY <1>1, <1>2, <1>3, <1>4, <1>5, <1>6, <1>7, <1>8, <1>9, <1>10, <1>11, <1>12 DEF Next, Step

\* The second guest changes while it is synchronised, and only then.
LEMMA SecondKept ==
    ASSUME IInv, [Next]_vars
    PROVE  ChangesKept(g2, g2')
<1>0. g2 \in GuestState /\ g2.stash \in Nat
  BY DEF IInv, TypeOK, GuestState
<1>1. CASE SyncSecondGuest
  <2> DEFINE u == [g2 EXCEPT !.code = "new"]
             v == [g2 EXCEPT !.built = TRUE]
  <2>1. \/ g2' \in {g2, Stashed(g2)} \cup PopResults(g2) \cup PopConflicts(g2)
        \/ g2' = u \/ g2' = v \/ g2' = Restarted(g2)
    BY <1>1 DEF SyncSecondGuest, Exec2
  <2>2. SameTree(g2, u) /\ SameTree(g2, v) /\ SameTree(g2, Restarted(g2))
    BY <1>0, DeployOps
  <2> HIDE DEF u, v
  <2> QED
    BY <1>0, <2>1, <2>2, TreeOps
<1>2. CASE g2' = g2
  BY <1>0, <1>2, TreeOps
<1>3. CASE StartRun \/ CheckEnvironment \/ Protect \/ PgDump \/ CheckUnmerged \/ Failed
           \/ RecordSuccess
  BY <1>2, <1>3 DEF StartRun, CheckEnvironment, Protect, PgDump, CheckUnmerged, Failed,
                    RecordSuccess, rest
<1>4. CASE GitStash \/ SwapToDirect \/ GitPull \/ StashPop \/ ResolveStashConflicts
           \/ RemediateEnvironment \/ Build \/ PreMigrate
  BY <1>2, <1>4 DEF GitStash, SwapToDirect, GitPull, StashPop, ResolveStashConflicts,
                    RemediateEnvironment, Build, PreMigrate, rest
<1>5. CASE RestoreEnv \/ RestartServices \/ ClearCache \/ PostMigrate \/ ReadVersion
           \/ AbortStash \/ AbortEnv \/ Reconnect \/ EditLocally \/ UNCHANGED vars
  BY <1>2, <1>5 DEF RestoreEnv, RestartServices, ClearCache, PostMigrate, ReadVersion,
                    AbortStash, AbortEnv, Reconnect, EditLocally, vars, rest
<1> QED
  BY <1>1, <1>3, <1>4, <1>5 DEF Next, Step

\* No step loses the operator's local changes on either guest, whatever fails,
\* as long as git checkout succeeds on the files in conflict.
THEOREM LocalChangesKeptHolds == Spec => LocalChangesKept
<1>1. Init => ResolvesChanges
  BY DEF Init, ResolvesChanges
<1>2. IInv /\ ResolvesChanges /\ [Next]_vars
        => ["checkout" \notin faults => ChangesKept(g, g') /\ ChangesKept(g2, g2')]_vars
  BY FirstKept, SecondKept
<1> QED
  BY <1>1, <1>2, NextResolves, IInvHolds, PTL DEF Spec, LocalChangesKept
=============================================================================
