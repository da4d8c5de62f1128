------------------------- MODULE UpgradeJobsProofs -------------------------
(***************************************************************************)
(* What UpgradeJobs promises for any set of applications, any tables of    *)
(* handlers and release checks, any number of threads, with or without     *)
(* preemption, database faults and restarts.                               *)
(***************************************************************************)
EXTENDS UpgradeJobs, TLAPS

\* The initial state is well typed.
LEMMA InitType == Init => TypeOK
<1> SUFFICES ASSUME Init PROVE TypeOK
  OBVIOUS
<1> USE MaxRunsAssumption DEF Init
<1>1. lock \in [Apps -> BOOLEAN] /\ installed \in [Apps -> BOOLEAN]
  OBVIOUS
<1>2. runs \in [Apps -> 0..MaxRuns]
  OBVIOUS
<1>3. /\ DOMAIN job = Apps
      /\ \A a \in Apps : job[a] \in [DOMAIN Routes[a] -> Tracker]
  BY DEF NewTracker, Tracker
<1>4. /\ DOMAIN last = Apps
      /\ \A a \in Apps : last[a] \in [DOMAIN Routes[a] -> Record]
  BY DEF NoRecord, Record
<1>5. /\ pc \in [Threads -> {"idle", "checked"} \cup ManualPcs \cup AutoPcs]
      /\ task \in [Threads -> Task \cup {NoTask}]
      /\ \A t \in Threads : pc[t] = "idle"
  OBVIOUS
<1> QED
  BY <1>1, <1>2, <1>3, <1>4, <1>5 DEF TypeOK

\* Starting a manual job keeps the types: its tracker, task and run number
\* stay within their domains.
LEMMA LaunchType ==
    ASSUME TypeOK, NEW t \in Threads, NEW a \in Apps, NEW k \in DOMAIN Routes[a],
           Launch(t, a, k), setting' = setting
    PROVE  TypeOK'
<1> USE MaxRunsAssumption, RoutesAssumption DEF TypeOK, Launch
<1>1. runs[a] + 1 \in 0..MaxRuns /\ runs' \in [Apps -> 0..MaxRuns]
  OBVIOUS
<1>2. lock' \in [Apps -> BOOLEAN]
  OBVIOUS
<1>3. [running |-> TRUE, success |-> "none", run |-> runs[a] + 1] \in Tracker
  BY <1>1 DEF Tracker
<1>4. DOMAIN job' = Apps /\ \A b \in Apps : job'[b] \in [DOMAIN Routes[b] -> Tracker]
  BY <1>3
<1>5. [app |-> a, kind |-> k, run |-> runs[a] + 1, ok |-> FALSE] \in Task
  BY <1>1 DEF Task
<1>6. /\ pc' \in [Threads -> {"idle", "checked"} \cup ManualPcs \cup AutoPcs]
      /\ task' \in [Threads -> Task \cup {NoTask}]
      /\ \A u \in Threads :
            pc'[u] # "idle" => /\ task'[u] \in Task
                               /\ task'[u].kind \in DOMAIN Routes[task'[u].app]
  BY <1>5 DEF ManualPcs
<1> QED
  BY <1>1, <1>2, <1>4, <1>6

\* Updating the fields of a tracker or of a task yields a tracker or a task.
LEMMA TrackerUpdate ==
    ASSUME NEW r \in Tracker, NEW s \in {"none", "ok", "failed"}
    PROVE  /\ [r EXCEPT !.running = FALSE] \in Tracker
           /\ [r EXCEPT !.running = FALSE, !.success = s] \in Tracker
  BY DEF Tracker

LEMMA TaskUpdate ==
    ASSUME NEW r \in Task, NEW ok \in BOOLEAN
    PROVE  /\ [r EXCEPT !.ok = ok] \in Task
           /\ [r EXCEPT !.ok = ok].app = r.app
           /\ [r EXCEPT !.ok = ok].kind = r.kind
  BY DEF Task

\* Replacing one tracker of one application keeps the table of trackers typed.
LEMMA JobUpdate ==
    ASSUME DOMAIN job = Apps,
           \A b \in Apps : job[b] \in [DOMAIN Routes[b] -> Tracker],
           NEW a \in Apps, NEW k \in DOMAIN Routes[a], NEW r \in Tracker,
           job' = [job EXCEPT ![a] = [job[a] EXCEPT ![k] = r]]
    PROVE  DOMAIN job' = Apps /\ \A b \in Apps : job'[b] \in [DOMAIN Routes[b] -> Tracker]
  OBVIOUS

\* a table of records that differs from the stored one in one place at most
WritesOnly(s, a, k) ==
    /\ DOMAIN s = Apps /\ \A b \in Apps : s[b] \in [DOMAIN Routes[b] -> Record]
    /\ \A b \in Apps : \A m \in DOMAIN Routes[b] : ~(b = a /\ m = k) => s[b][m] = last[b][m]

\* Committing the status leaves the log as it was ...
LEMMA StatusWrites ==
    ASSUME TypeOK, NEW a \in Apps, NEW k \in DOMAIN Routes[a], NEW r \in 0..MaxRuns,
           NEW s, s = StatusSet(a, k, r)
    PROVE  WritesOnly(s, a, k) /\ s[a][k].run = r /\ s[a][k].log = last[a][k].log
<1>1. last[a][k] \in Record
  BY DEF TypeOK
<1> DEFINE x == [last[a][k] EXCEPT !.run = r]
<1>2. x \in Record /\ x.run = r /\ x.log = last[a][k].log
  BY <1>1 DEF Record
<1>3. s = [last EXCEPT ![a] = [last[a] EXCEPT ![k] = x]]
  BY DEF StatusSet
<1> HIDE DEF x
<1>4. WritesOnly(s, a, k) /\ s[a][k] = x
  BY <1>2, <1>3 DEF WritesOnly, TypeOK
<1> QED
  BY <1>2, <1>4

\* ... committing the log leaves the status ...
LEMMA LogWrites ==
    ASSUME TypeOK, NEW a \in Apps, NEW k \in DOMAIN Routes[a], NEW r \in 0..MaxRuns,
           NEW s, s = LogSet(a, k, r)
    PROVE  WritesOnly(s, a, k) /\ s[a][k].run = last[a][k].run /\ s[a][k].log = r
<1>1. last[a][k] \in Record
  BY DEF TypeOK
<1> DEFINE x == [last[a][k] EXCEPT !.log = r]
<1>2. x \in Record /\ x.run = last[a][k].run /\ x.log = r
  BY <1>1 DEF Record
<1>3. s = [last EXCEPT ![a] = [last[a] EXCEPT ![k] = x]]
  BY DEF LogSet
<1> HIDE DEF x
<1>4. WritesOnly(s, a, k) /\ s[a][k] = x
  BY <1>2, <1>3 DEF WritesOnly, TypeOK
<1> QED
  BY <1>2, <1>4

\* ... and both commits leave a record of one run.
LEMMA BothWrites ==
    ASSUME TypeOK, NEW a \in Apps, NEW k \in DOMAIN Routes[a], NEW r \in 0..MaxRuns,
           NEW s, s = BothSet(a, k, r)
    PROVE  WritesOnly(s, a, k) /\ s[a][k].run = r /\ s[a][k].log = r
<1>1. last[a][k] \in Record
  BY DEF TypeOK
<1> DEFINE x == [run |-> r, log |-> r]
<1>2. x \in Record /\ x.run = r /\ x.log = r
  BY <1>1 DEF Record
<1>3. s = [last EXCEPT ![a] = [last[a] EXCEPT ![k] = x]]
  BY DEF BothSet
<1> HIDE DEF x
<1>4. WritesOnly(s, a, k) /\ s[a][k] = x
  BY <1>2, <1>3 DEF WritesOnly, TypeOK
<1> QED
  BY <1>2, <1>4

\* The records a run or a release check leaves are of its own run, of upgrades.
LEMMA RecordChoices ==
    ASSUME NEW t \in Threads, NEW ok \in BOOLEAN, NEW s,
           s \in OwnRecords(t, ok) \/ s \in AutoRecords(t, ok)
    PROVE  s \in {last, StatusSet(task[t].app, "upgrade", task[t].run),
                       BothSet(task[t].app, "upgrade", task[t].run)}
  BY DEF OwnRecords, AutoRecords, Records

\* A background job's own steps keep the types.
LEMMA ManualStepType ==
    ASSUME TypeOK, NEW t \in Threads,
           \/ BeginWork(t) \/ StoreStatus(t) \/ StoreLog(t) \/ StoreRaises(t) \/ EndThread(t)
           \/ \E ok \in BOOLEAN : EndWork(t, ok),
           setting' = setting
    PROVE  TypeOK'
<1> DEFINE a == task[t].app
           k == task[t].kind
<1> USE RoutesAssumption DEF TypeOK
<1>1. CASE BeginWork(t)
  BY <1>1 DEF BeginWork, ManualPcs
<1>2. CASE \E ok \in BOOLEAN : EndWork(t, ok)
  <2>1. PICK ok \in BOOLEAN : EndWork(t, ok)
    BY <1>2
  <2>2. a \in Apps /\ k \in DOMAIN Routes[a] /\ task[t].run \in 0..MaxRuns
    BY <2>1 DEF EndWork, Task
  <2>3. [job[a][k] EXCEPT !.running = FALSE, !.success = Outcome(ok)] \in Tracker
    <3>1. job[a][k] \in Tracker
      BY <2>2
    <3>2. Outcome(ok) \in {"none", "ok", "failed"}
      BY DEF Outcome
    <3> QED
      BY <3>1, <3>2, TrackerUpdate
  <2>4. DOMAIN job' = Apps /\ \A b \in Apps : job'[b] \in [DOMAIN Routes[b] -> Tracker]
    <3>1. job' = [job EXCEPT ![a] = [job[a] EXCEPT ![k] =
                    [job[a][k] EXCEPT !.running = FALSE, !.success = Outcome(ok)]]]
      BY <2>1 DEF EndWork
    <3> HIDE DEF a, k
    <3> QED
      BY <2>2, <2>3, <3>1, JobUpdate
  <2>5. last' # last => k = "upgrade" /\ last' \in OwnRecords(t, ok)
    <3>1. last' # last => last' \in OwnRecords(t, ok)
      BY <2>1 DEF EndWork
    <3>2. k # "upgrade" => OwnRecords(t, ok) = {last}
      BY DEF OwnRecords
    <3> QED
      BY <3>1, <3>2
  <2>6. DOMAIN last' = Apps /\ \A b \in Apps : last'[b] \in [DOMAIN Routes[b] -> Record]
    <3>1. CASE last' = last
      BY <3>1
    <3>2. CASE last' # last
      <4>1. last' \in {StatusSet(a, k, task[t].run), BothSet(a, k, task[t].run)}
        BY <2>5, <3>2, RecordChoices
      <4> HIDE DEF a, k
      <4> QED
        BY <2>2, <4>1, StatusWrites, BothWrites DEF WritesOnly
    <3> QED
      BY <3>1, <3>2
  <2>7. installed' \in [Apps -> BOOLEAN]
    BY <2>1 DEF EndWork
  <2>8. /\ [task[t] EXCEPT !.ok = ok] \in Task
        /\ [task[t] EXCEPT !.ok = ok].app = a /\ [task[t] EXCEPT !.ok = ok].kind = k
    <3>1. task[t] \in Task
      BY <2>1 DEF EndWork
    <3> QED
      BY <3>1, TaskUpdate
  <2>9. /\ pc' \in [Threads -> {"idle", "checked"} \cup ManualPcs \cup AutoPcs]
        /\ task' \in [Threads -> Task \cup {NoTask}]
        /\ \A u \in Threads :
              pc'[u] # "idle" => /\ task'[u] \in Task
                                 /\ task'[u].kind \in DOMAIN Routes[task'[u].app]
    BY <2>1, <2>2, <2>8 DEF EndWork, ManualPcs
  <2> QED
    BY <2>1, <2>4, <2>6, <2>7, <2>9 DEF EndWork
<1>3. CASE StoreStatus(t) \/ StoreLog(t)
  <2>1. a \in Apps /\ k \in DOMAIN Routes[a] /\ task[t].run \in 0..MaxRuns
    BY <1>3 DEF StoreStatus, StoreLog, Task
  <2>2. job[a][k].run \in 0..MaxRuns
    BY <2>1 DEF Tracker
  <2>3. DOMAIN last' = Apps /\ \A b \in Apps : last'[b] \in [DOMAIN Routes[b] -> Record]
    <3>1. \/ last' \in {last, StatusSet(a, k, task[t].run)}
          \/ last' = LogSet(a, k, job[a][k].run)
      BY <1>3 DEF StoreStatus, StoreLog
    <3> HIDE DEF a, k
    <3> QED
      BY <2>1, <2>2, <3>1, StatusWrites, LogWrites, BothWrites DEF WritesOnly
  <2>4. installed' \in [Apps -> BOOLEAN]
    BY <1>3 DEF StoreStatus, StoreLog
  <2> QED
    BY <1>3, <2>3, <2>4 DEF StoreStatus, StoreLog, ManualPcs
<1>4. CASE StoreRaises(t)
  BY <1>4 DEF StoreRaises, ManualPcs
<1>5. CASE EndThread(t)
  <2>1. a \in Apps /\ k \in DOMAIN Routes[a]
    BY <1>5 DEF EndThread, Task
  <2>2. [job[a][k] EXCEPT !.running = FALSE] \in Tracker
    <3>1. job[a][k] \in Tracker
      BY <2>1
    <3> QED
      BY <3>1, TrackerUpdate
  <2>3. DOMAIN job' = Apps /\ \A b \in Apps : job'[b] \in [DOMAIN Routes[b] -> Tracker]
    <3> DEFINE r == [job[a][k] EXCEPT !.running = FALSE]
               j == [job EXCEPT ![a] = [job[a] EXCEPT ![k] = r]]
    <3>1. job' = j \/ job' = job
      BY <1>5 DEF EndThread
    <3>2. CASE job' = job
      BY <3>2
    <3>3. r \in Tracker
      BY <2>2
    <3>4. CASE job' = j
      <4> HIDE DEF a, k, r
      <4> QED
        BY <2>1, <3>3, <3>4, JobUpdate
    <3> QED
      BY <3>1, <3>2, <3>4
  <2>4. lock' \in [Apps -> BOOLEAN]
    BY <1>5 DEF EndThread
  <2> QED
    BY <1>5, <2>3, <2>4 DEF EndThread, Finish
<1> QED
  BY <1>1, <1>2, <1>3, <1>4, <1>5

\* The steps of a scheduled auto-upgrade keep the types.
LEMMA AutoStepType ==
    ASSUME TypeOK, NEW t \in Threads,
           \/ \E a \in Apps : StartAuto(t, a)
           \/ AutoBegin(t) \/ AutoRaises(t)
           \/ AutoStoreStatus(t) \/ AutoStoreLog(t) \/ AutoStoreRaises(t)
           \/ \E ok \in BOOLEAN : AutoEnd(t, ok),
           setting' = setting
    PROVE  TypeOK'
<1> USE RoutesAssumption, ChecksAssumption DEF TypeOK
<1>1. CASE \E a \in Apps : StartAuto(t, a)
  <2>1. PICK a \in Apps : StartAuto(t, a)
    BY <1>1
  <2>2. runs[a] + 1 \in 0..MaxRuns /\ runs' \in [Apps -> 0..MaxRuns]
    BY <2>1, MaxRunsAssumption DEF StartAuto
  <2>3. [app |-> a, kind |-> "upgrade", run |-> runs[a] + 1, ok |-> FALSE] \in Task
    BY <2>2, KindsAssumption DEF Task
  <2>4. /\ pc' \in [Threads -> {"idle", "checked"} \cup ManualPcs \cup AutoPcs]
        /\ task' \in [Threads -> Task \cup {NoTask}]
        /\ \A u \in Threads :
              pc'[u] # "idle" => /\ task'[u] \in Task
                                 /\ task'[u].kind \in DOMAIN Routes[task'[u].app]
    BY <2>1, <2>3 DEF StartAuto, AutoPcs
  <2>5. lock' \in [Apps -> BOOLEAN]
    BY <2>1 DEF StartAuto
  <2> QED
    BY <2>1, <2>2, <2>4, <2>5 DEF StartAuto
<1>2. CASE AutoBegin(t)
  BY <1>2 DEF AutoBegin, AutoPcs
<1>3. CASE AutoRaises(t)
  BY <1>3 DEF AutoRaises, AutoUnlock, Finish
<1>4. ASSUME pc[t] \in AutoPcs,
             \/ last' \in {last, StatusSet(task[t].app, "upgrade", task[t].run),
                           BothSet(task[t].app, "upgrade", task[t].run)}
             \/ last' = LogSet(task[t].app, "upgrade", task[t].run)
      PROVE  DOMAIN last' = Apps /\ \A b \in Apps : last'[b] \in [DOMAIN Routes[b] -> Record]
  <2>1. task[t].app \in Apps /\ task[t].run \in 0..MaxRuns
    BY <1>4 DEF Task, AutoPcs
  <2>2. CASE "upgrade" \in DOMAIN Routes[task[t].app]
    BY <1>4, <2>1, <2>2, StatusWrites, LogWrites, BothWrites DEF WritesOnly
  <2>3. CASE "upgrade" \notin DOMAIN Routes[task[t].app]
    <3>1. \E x : last' = [last EXCEPT ![task[t].app] = [last[task[t].app] EXCEPT !["upgrade"] = x]]
                 \/ last' = last
      BY <1>4 DEF StatusSet, LogSet, BothSet
    <3> QED
      BY <2>1, <2>3, <3>1
  <2> QED
    BY <2>2, <2>3
<1>5. CASE AutoStoreStatus(t) \/ AutoStoreLog(t) \/ AutoStoreRaises(t)
  <2>1. DOMAIN last' = Apps /\ \A b \in Apps : last'[b] \in [DOMAIN Routes[b] -> Record]
    BY <1>4, <1>5 DEF AutoStoreStatus, AutoStoreLog, AutoStoreRaises, AutoPcs
  <2> QED
    BY <1>5, <2>1 DEF AutoStoreStatus, AutoStoreLog, AutoStoreRaises, Finish, AutoPcs
<1>6. CASE \E ok \in BOOLEAN : AutoEnd(t, ok)
  <2>1. PICK ok \in BOOLEAN : AutoEnd(t, ok)
    BY <1>6
  <2>2. lock' \in [Apps -> BOOLEAN]
    BY <2>1 DEF AutoEnd, AutoUnlock
  <2>3. DOMAIN last' = Apps /\ \A b \in Apps : last'[b] \in [DOMAIN Routes[b] -> Record]
    BY <2>1, <1>4, RecordChoices DEF AutoEnd, AutoPcs
  <2>4. /\ pc' \in [Threads -> {"idle", "checked"} \cup ManualPcs \cup AutoPcs]
        /\ task' \in [Threads -> Task \cup {NoTask}]
        /\ \A u \in Threads :
              pc'[u] # "idle" => /\ task'[u] \in Task
                                 /\ task'[u].kind \in DOMAIN Routes[task'[u].app]
    BY <2>1 DEF AutoEnd, Finish, AutoPcs
  <2> QED
    BY <2>1, <2>2, <2>3, <2>4 DEF AutoEnd
<1> QED
  BY <1>1, <1>2, <1>3, <1>5, <1>6

\* Every step of the system keeps the types.
LEMMA NextType == TypeOK /\ [Next]_vars => TypeOK'
<1> SUFFICES ASSUME TypeOK, [Next]_vars PROVE TypeOK'
  OBVIOUS
<1>a. setting' = setting
  BY DEF Next, vars
<1> USE RoutesAssumption, <1>a
<1>1. ASSUME NEW t \in Threads, ThreadStep(t) PROVE TypeOK'
  <2>1. CASE CommitJob(t)
    <3>1. task[t].app \in Apps /\ task[t].kind \in DOMAIN Routes[task[t].app]
      BY <2>1 DEF CommitJob, TypeOK, Task
    <3> QED
      BY <2>1, <3>1, LaunchType DEF CommitJob
  <2>2. CASE TurnedAway(t)
    BY <2>2 DEF TurnedAway, Finish, TypeOK
  <2> QED
    BY <1>1, <2>1, <2>2, ManualStepType, AutoStepType DEF ThreadStep
<1>2. ASSUME NEW t \in Threads, NEW a \in Apps, StartAuto(t, a) PROVE TypeOK'
  BY <1>2, AutoStepType
<1>3. ASSUME NEW t \in Threads, NEW a \in Apps, NEW k \in DOMAIN Routes[a],
             StartJob(t, a, k) PROVE TypeOK'
  BY <1>3, LaunchType DEF StartJob
<1>4. ASSUME NEW t \in Threads, NEW a \in Apps, NEW k \in DOMAIN Routes[a],
             CheckJob(t, a, k) PROVE TypeOK'
  <2>1. [app |-> a, kind |-> k, run |-> 0, ok |-> FALSE] \in Task
    BY MaxRunsAssumption DEF Task
  <2> QED
    BY <1>4, <2>1 DEF CheckJob, TypeOK
<1>5. ASSUME NEW a \in Apps, NEW k \in DOMAIN Routes[a], HandlerRaises(a, k)
      PROVE  TypeOK'
  <2>1. [running |-> TRUE, success |-> "none", run |-> job[a][k].run] \in Tracker
    BY DEF TypeOK, Tracker
  <2>2. DOMAIN job' = Apps /\ \A b \in Apps : job'[b] \in [DOMAIN Routes[b] -> Tracker]
    <3> DEFINE r == [running |-> TRUE, success |-> "none", run |-> job[a][k].run]
               j == [job EXCEPT ![a] = [job[a] EXCEPT ![k] = r]]
    <3>1. job' = j \/ job' = job
      BY <1>5 DEF HandlerRaises
    <3>2. CASE job' = job
      BY <3>2 DEF TypeOK
    <3>3. r \in Tracker
      BY <2>1
    <3>4. CASE job' = j
      <4> HIDE DEF r
      <4> QED
        BY <3>3, <3>4, JobUpdate DEF TypeOK
    <3> QED
      BY <3>1, <3>2, <3>4
  <2> QED
    BY <1>5, <2>2 DEF HandlerRaises, TypeOK
<1>6. ASSUME NEW a \in Apps, DetectVersions(a) PROVE TypeOK'
  BY <1>6, DetectsAssumption DEF DetectVersions, TypeOK
<1>7. CASE Restart
  <2>1. NewTracker \in Tracker
    BY MaxRunsAssumption DEF NewTracker, Tracker
  <2> QED
    BY <1>7, <2>1 DEF Restart, TypeOK
<1>8. CASE UNCHANGED vars
  BY <1>8 DEF vars, TypeOK
<1> QED
  BY <1>1, <1>2, <1>3, <1>4, <1>5, <1>6, <1>7, <1>8 DEF Next

\* Trackers, locks, threads and stored records keep their types in every
\* behaviour (routes/<app>.py, apps/utils.py, core/scheduler.py).
THEOREM TypeCorrect == Spec => []TypeOK
  BY InitType, NextType, PTL DEF Spec

----------------------------------------------------------------------------
(* The upgrade lock. *)

\* A manual start takes a lock nobody owned, or leaves the locks alone.
LEMMA LaunchLock ==
    ASSUME TypeOK, LockDiscipline,
           NEW t \in Threads, NEW a \in Apps, NEW k \in DOMAIN Routes[a],
           pc[t] \in {"idle", "checked"}, Launch(t, a, k)
    PROVE  LockDiscipline'
<1> USE DEF LockDiscipline, Holds, RouteOf
<1>1. \A u \in Threads : u # t => pc'[u] = pc[u] /\ task'[u] = task[u]
  BY DEF Launch, TypeOK
<1>2. /\ pc'[t] = "spawned" /\ task'[t].app = a /\ task'[t].kind = k
      /\ \A b \in Apps : lock[b] => lock'[b]
      /\ Routes[a][k].locked => ~lock[a] /\ lock'[a]
  BY RoutesAssumption DEF Launch, TypeOK
<1>3. \A u \in Threads : u # t => (Holds(u)' <=> Holds(u))
  BY <1>1
<1>4. Holds(t)' => Routes[a][k].locked
  BY <1>2
<1>5. \A u \in Threads : Holds(u) => task[u].app \in Apps
  BY DEF TypeOK, Task, ManualPcs
<1>6. \A u \in Threads : Holds(u)' => lock'[task'[u].app]
  <2>1. ASSUME NEW u \in Threads, u # t, Holds(u)'
        PROVE  lock'[task'[u].app]
    <3>1. Holds(u) /\ task[u].app \in Apps /\ task'[u] = task[u]
      BY <1>1, <1>3, <1>5, <2>1
    <3> HIDE DEF Holds
    <3>2. lock[task[u].app]
      BY <3>1
    <3> QED
      BY <1>2, <3>1, <3>2
  <2> HIDE DEF LockDiscipline, Holds
  <2> QED
    BY <1>2, <1>4, <2>1
<1>7. ASSUME NEW u \in Threads, u # t, Holds(u)', Holds(t)'
      PROVE  task'[u].app # a
  <2>1. Holds(u) /\ task'[u] = task[u] /\ ~lock[a]
    BY <1>1, <1>2, <1>3, <1>4, <1>7
  <2> QED
    BY <2>1
<1>8. ASSUME NEW u \in Threads, NEW v \in Threads, u # t, v # t,
             Holds(u)', Holds(v)', task'[u].app = task'[v].app
      PROVE  u = v
  <2>1. Holds(u) /\ Holds(v) /\ task[u].app = task[v].app
    BY <1>1, <1>3, <1>8
  <2> HIDE DEF Holds
  <2> QED
    BY <2>1
<1> HIDE DEF Holds, RouteOf
<1> QED
  BY <1>2, <1>6, <1>7, <1>8

\* A step that moves one thread without giving it a lock it did not own, and
\* that keeps every lock another thread owns, keeps the discipline.
LEMMA MoveLock ==
    ASSUME LockDiscipline, NEW t \in Threads,
           \A u \in Threads : u # t => pc'[u] = pc[u] /\ task'[u] = task[u],
           Holds(t)' => Holds(t) /\ task'[t].app = task[t].app /\ lock' = lock,
           \A u \in Threads : u # t /\ Holds(u) => lock'[task[u].app]
    PROVE  LockDiscipline'
<1>1. \A u \in Threads : u # t => (Holds(u)' <=> Holds(u))
  BY DEF Holds, RouteOf
<1> QED
  BY <1>1 DEF LockDiscipline

\* The step that gives the lock back is taken by its owner.
LEMMA UnlockKeepsOthers ==
    ASSUME TypeOK, LockDiscipline, NEW t \in Threads, Holds(t),
           lock' = [lock EXCEPT ![task[t].app] = FALSE]
    PROVE  \A u \in Threads : u # t /\ Holds(u) => lock'[task[u].app]
<1>1. \A u \in Threads : Holds(u) => task[u].app \in Apps
  BY DEF TypeOK, Task, Holds, ManualPcs
<1> QED
  BY <1>1 DEF LockDiscipline, TypeOK

\* The lock discipline is preserved by every step.
LEMMA NextLock == TypeOK /\ LockDiscipline /\ [Next]_vars => LockDiscipline'
<1> SUFFICES ASSUME TypeOK, LockDiscipline, [Next]_vars PROVE LockDiscipline'
  OBVIOUS
<1>1. ASSUME NEW t \in Threads, ThreadStep(t) PROVE LockDiscipline'
  <2>a. ASSUME BeginWork(t) \/ StoreStatus(t) \/ StoreLog(t) \/ StoreRaises(t) \/ AutoBegin(t)
               \/ \E ok \in BOOLEAN : EndWork(t, ok)
        PROVE  LockDiscipline'
    <3>1. /\ \A u \in Threads : u # t => pc'[u] = pc[u] /\ task'[u] = task[u]
          /\ lock' = lock
      BY <2>a DEF BeginWork, StoreStatus, StoreLog, StoreRaises, AutoBegin, EndWork, TypeOK
    <3>2. task'[t].app = task[t].app /\ task'[t].kind = task[t].kind
      <4>1. CASE \E ok \in BOOLEAN : EndWork(t, ok)
        <5>1. PICK ok \in BOOLEAN : EndWork(t, ok)
          BY <4>1
        <5>2. task[t] \in Task /\ task'[t] = [task[t] EXCEPT !.ok = ok]
          BY <5>1 DEF EndWork, TypeOK
        <5> QED
          BY <5>2, TaskUpdate
      <4> QED
        BY <2>a, <4>1 DEF BeginWork, StoreStatus, StoreLog, StoreRaises, AutoBegin
    <3>3. Holds(t)' => Holds(t)
      BY <2>a, <3>2 DEF BeginWork, StoreStatus, StoreLog, StoreRaises, AutoBegin, EndWork, TypeOK,
            Holds, RouteOf, ManualPcs, AutoPcs
    <3> QED
      BY <3>1, <3>2, <3>3, MoveLock DEF LockDiscipline
  <2>b. ASSUME EndThread(t) PROVE LockDiscipline'
    <3>1. /\ \A u \in Threads : u # t => pc'[u] = pc[u] /\ task'[u] = task[u]
          /\ pc'[t] = "idle"
      BY <2>b DEF EndThread, Finish, TypeOK
    <3>2. ~Holds(t)'
      BY <3>1 DEF Holds, ManualPcs
    <3>3. \A u \in Threads : u # t /\ Holds(u) => lock'[task[u].app]
      <4>1. CASE RouteOf(t).locked
        <5>1. Holds(t) /\ lock' = [lock EXCEPT ![task[t].app] = FALSE]
          BY <2>b, <4>1 DEF EndThread, Holds, ManualPcs
        <5> QED
          BY <5>1, UnlockKeepsOthers
      <4>2. CASE ~RouteOf(t).locked
        BY <2>b, <4>2 DEF EndThread, LockDiscipline
      <4> QED
        BY <4>1, <4>2
    <3> QED
      BY <3>1, <3>2, <3>3, MoveLock
  <2>c. ASSUME AutoRaises(t) \/ \E ok \in BOOLEAN : AutoEnd(t, ok) PROVE LockDiscipline'
    <3>1. /\ \A u \in Threads : u # t => pc'[u] = pc[u] /\ task'[u] = task[u]
          /\ pc'[t] \in {"idle", "auto_released"}
          /\ AutoUnlock(t)
          /\ pc[t] \in {"auto_started", "auto_working"}
      BY <2>c DEF AutoRaises, AutoEnd, Finish, TypeOK
    <3>2. ~Holds(t)'
      BY <3>1 DEF Holds, ManualPcs
    <3>3. \A u \in Threads : u # t /\ Holds(u) => lock'[task[u].app]
      <4>1. CASE Checks[task[t].app].locked
        <5>1. Holds(t) /\ lock' = [lock EXCEPT ![task[t].app] = FALSE]
          BY <3>1, <4>1 DEF Holds, AutoUnlock
        <5> QED
          BY <5>1, UnlockKeepsOthers
      <4>2. CASE ~Checks[task[t].app].locked
        BY <3>1, <4>2 DEF AutoUnlock, LockDiscipline
      <4> QED
        BY <4>1, <4>2
    <3> QED
      BY <3>1, <3>2, <3>3, MoveLock
  <2>d. ASSUME AutoStoreStatus(t) \/ AutoStoreLog(t) \/ AutoStoreRaises(t) \/ TurnedAway(t)
        PROVE  LockDiscipline'
    <3>1. /\ \A u \in Threads : u # t => pc'[u] = pc[u] /\ task'[u] = task[u]
          /\ pc'[t] \in {"idle", "auto_halfway"} /\ lock' = lock
      BY <2>d DEF AutoStoreStatus, AutoStoreLog, AutoStoreRaises, TurnedAway, Finish, TypeOK
    <3>2. ~Holds(t)'
      BY <3>1 DEF Holds, ManualPcs
    <3> QED
      BY <3>1, <3>2, MoveLock DEF LockDiscipline
  <2>e. ASSUME CommitJob(t) PROVE LockDiscipline'
    <3>1. task[t].app \in Apps /\ task[t].kind \in DOMAIN Routes[task[t].app]
      BY <2>e DEF CommitJob, TypeOK, Task
    <3> QED
      BY <2>e, <3>1, LaunchLock DEF CommitJob
  <2> QED
    BY <1>1, <2>a, <2>b, <2>c, <2>d, <2>e DEF ThreadStep
<1>2. ASSUME NEW t \in Threads, NEW a \in Apps, StartAuto(t, a) PROVE LockDiscipline'
  <2>1. \A u \in Threads : u # t => pc'[u] = pc[u] /\ task'[u] = task[u]
    BY <1>2 DEF StartAuto, TypeOK
  <2>2. /\ pc'[t] = "auto_started" /\ task'[t].app = a
        /\ \A b \in Apps : lock[b] => lock'[b]
        /\ Checks[a].locked => ~lock[a] /\ lock'[a]
    BY <1>2, ChecksAssumption DEF StartAuto, TypeOK
  <2>3. \A u \in Threads : u # t => (Holds(u)' <=> Holds(u))
    BY <2>1 DEF Holds, RouteOf
  <2>4. Holds(t)' => Checks[a].locked
    BY <2>2 DEF Holds, ManualPcs
  <2>5. \A u \in Threads : Holds(u) => task[u].app \in Apps
    BY DEF TypeOK, Task, ManualPcs, Holds
  <2> QED
    BY <2>1, <2>2, <2>3, <2>4, <2>5 DEF LockDiscipline
<1>3. ASSUME NEW t \in Threads, NEW a \in Apps, NEW k \in DOMAIN Routes[a],
             StartJob(t, a, k) PROVE LockDiscipline'
  BY <1>3, LaunchLock DEF StartJob
<1>4. ASSUME NEW t \in Threads, NEW a \in Apps, NEW k \in DOMAIN Routes[a],
             CheckJob(t, a, k) PROVE LockDiscipline'
  <2>1. /\ \A u \in Threads : u # t => pc'[u] = pc[u] /\ task'[u] = task[u]
        /\ pc'[t] = "checked" /\ lock' = lock
    BY <1>4 DEF CheckJob, TypeOK
  <2>2. ~Holds(t)'
    BY <2>1 DEF Holds, ManualPcs
  <2> QED
    BY <2>1, <2>2, MoveLock DEF LockDiscipline
<1>5. ASSUME NEW a \in Apps, NEW k \in DOMAIN Routes[a], HandlerRaises(a, k)
      PROVE  LockDiscipline'
  BY <1>5 DEF HandlerRaises, LockDiscipline, Holds, RouteOf, TypeOK, Task, ManualPcs
<1>6. ASSUME NEW a \in Apps, DetectVersions(a) PROVE LockDiscipline'
  BY <1>6 DEF DetectVersions, LockDiscipline, Holds, RouteOf
<1>7. CASE Restart
  BY <1>7 DEF Restart, LockDiscipline, Holds, ManualPcs
<1>8. CASE UNCHANGED vars
  BY <1>8 DEF vars, LockDiscipline, Holds, RouteOf
<1> QED
  BY <1>1, <1>2, <1>3, <1>4, <1>5, <1>6, <1>7, <1>8 DEF Next

\* The upgrade lock has one owner at a time, and an owned lock is taken, in
\* every behaviour: database faults, exceptions and restarts included
\* (acquire_upgrade_lock, release_upgrade_lock and upgrade_lock in
\* apps/utils.py and their callers).
THEOREM IInvHolds == Spec => []IInv
<1>1. Init => LockDiscipline
  BY DEF Init, LockDiscipline, Holds, ManualPcs
<1> QED
  BY <1>1, NextLock, TypeCorrect, PTL DEF Spec, IInv

----------------------------------------------------------------------------
(* The refinement of OneAtATime. *)

\* Where both paths take the lock, whoever upgrades owns it.
LEMMA UpgradersHold ==
    ASSUME TypeOK, NEW t \in Threads, Upgrading(t), Guarded(task[t].app)
    PROVE  Holds(t) /\ task[t].app \in Apps
  BY DEF TypeOK, Task, Upgrading, OnHost, Holds, RouteOf, ManualPcs, Guarded

\* A free lock means that nobody upgrades.
LEMMA FreeMeansNobody ==
    ASSUME TypeOK, LockDiscipline, NEW a \in Apps, ~lock[a]
    PROVE  \A p \in Upgraders : p[2] # a
  BY UpgradersHold DEF LockDiscipline, Upgraders

\* A step of one thread that is or is not upgrading, before and after, is the
\* same upgrade going on, or nothing the abstract specification sees.
LEMMA StayStutters ==
    ASSUME NEW t \in Threads,
           \A u \in Threads : u # t => pc'[u] = pc[u] /\ task'[u] = task[u],
           Upgrading(t)' <=> Upgrading(t),
           Upgrading(t) => task'[t].app = task[t].app
    PROVE  Upgraders' = Upgraders
<1>1. \A u \in Threads : u # t => (Upgrading(u)' <=> Upgrading(u))
  BY DEF Upgrading, OnHost
<1> QED
  BY <1>1 DEF Upgraders, Guarded

\* A thread that stops upgrading leaves the host of its application.
LEMMA EndLeaves ==
    ASSUME TypeOK, NEW t \in Threads,
           \A u \in Threads : u # t => pc'[u] = pc[u] /\ task'[u] = task[u],
           Upgrading(t), ~Upgrading(t)'
    PROVE  [Serial!Next]_Upgraders
<1> DEFINE a == task[t].app
<1>1. \A u \in Threads : u # t => (Upgrading(u)' <=> Upgrading(u))
  BY DEF Upgrading, OnHost
<1>2. Upgraders' = Upgraders \ {<<t, a>>}
  BY <1>1 DEF Upgraders, Guarded
<1>3. CASE Guarded(a)
  <2>1. <<t, a>> \in Upgraders /\ a \in Apps
    BY <1>3, UpgradersHold DEF Upgraders
  <2> QED
    BY <1>2, <2>1 DEF Serial!Next, Serial!Leave
<1>4. CASE ~Guarded(a)
  <2>1. <<t, a>> \notin Upgraders
    BY <1>4 DEF Upgraders
  <2> QED
    BY <1>2, <2>1
<1> QED
  BY <1>3, <1>4

\* A thread that begins to upgrade enters a host where nobody is.
LEMMA StartEnters ==
    ASSUME NEW t \in Threads, NEW a \in Apps,
           \A u \in Threads : u # t => pc'[u] = pc[u] /\ task'[u] = task[u],
           ~Upgrading(t), task'[t].app = a,
           Guarded(a) /\ Upgrading(t)' => \A p \in Upgraders : p[2] # a
    PROVE  [Serial!Next]_Upgraders
<1>1. \A u \in Threads : u # t => (Upgrading(u)' <=> Upgrading(u))
  BY DEF Upgrading, OnHost
<1>2. CASE Guarded(a) /\ Upgrading(t)'
  <2>1. Upgraders' = Upgraders \cup {<<t, a>>}
    BY <1>1, <1>2 DEF Upgraders, Guarded
  <2> QED
    BY <1>2, <2>1 DEF Serial!Next, Serial!Enter
<1>3. CASE ~(Guarded(a) /\ Upgrading(t)')
  <2>1. Upgraders' = Upgraders
    BY <1>1, <1>3 DEF Upgraders, Guarded
  <2> QED
    BY <2>1
<1> QED
  BY <1>2, <1>3

\* A manual start enters the host or does not upgrade.
LEMMA LaunchEnters ==
    ASSUME TypeOK, LockDiscipline,
           NEW t \in Threads, NEW a \in Apps, NEW k \in DOMAIN Routes[a],
           pc[t] \in {"idle", "checked"}, Launch(t, a, k)
    PROVE  [Serial!Next]_Upgraders
<1>1. \A u \in Threads : u # t => pc'[u] = pc[u] /\ task'[u] = task[u]
  BY DEF Launch, TypeOK
<1>2. task'[t].app = a /\ task'[t].kind = k
  BY DEF Launch, TypeOK
<1>3. ~Upgrading(t)
  BY DEF Upgrading, OnHost
<1>4. Guarded(a) /\ Upgrading(t)' => \A p \in Upgraders : p[2] # a
  <2>1. Guarded(a) /\ Upgrading(t)' => ~lock[a]
    BY <1>2 DEF Upgrading, Guarded, Launch
  <2> QED
    BY <2>1, FreeMeansNobody
<1> QED
  BY <1>1, <1>2, <1>3, <1>4, StartEnters

\* Every step of the system is a step of OneAtATime, or one it does not see.
LEMMA NextSerial == TypeOK /\ LockDiscipline /\ [Next]_vars => [Serial!Next]_Upgraders
<1> SUFFICES ASSUME TypeOK, LockDiscipline, [Next]_vars PROVE [Serial!Next]_Upgraders
  OBVIOUS
<1>1. ASSUME NEW t \in Threads, ThreadStep(t) PROVE [Serial!Next]_Upgraders
  <2>a. ASSUME BeginWork(t) \/ AutoBegin(t) PROVE [Serial!Next]_Upgraders
    BY <2>a, StayStutters DEF BeginWork, AutoBegin, Upgrading, OnHost, TypeOK
  <2>b. ASSUME StoreStatus(t) \/ StoreLog(t) \/ StoreRaises(t) \/ EndThread(t) \/ TurnedAway(t)
               \/ AutoStoreStatus(t) \/ AutoStoreLog(t) \/ AutoStoreRaises(t)
        PROVE  [Serial!Next]_Upgraders
    <3>1. /\ \A u \in Threads : u # t => pc'[u] = pc[u] /\ task'[u] = task[u]
          /\ ~Upgrading(t) /\ ~Upgrading(t)'
      BY <2>b DEF StoreStatus, StoreLog, StoreRaises, EndThread, TurnedAway,
            AutoStoreStatus, AutoStoreLog, AutoStoreRaises, Finish,
            Upgrading, OnHost, TypeOK
    <3> QED
      BY <3>1, StayStutters
  <2>c. ASSUME NEW ok \in BOOLEAN, EndWork(t, ok) \/ AutoEnd(t, ok)
        PROVE  [Serial!Next]_Upgraders
    <3>1. /\ \A u \in Threads : u # t => pc'[u] = pc[u] /\ task'[u] = task[u]
          /\ ~Upgrading(t)'
      BY <2>c DEF EndWork, AutoEnd, Finish, Upgrading, OnHost, TypeOK
    <3> QED
      BY <3>1, StayStutters, EndLeaves
  <2>d. ASSUME AutoRaises(t) PROVE [Serial!Next]_Upgraders
    <3>1. /\ \A u \in Threads : u # t => pc'[u] = pc[u] /\ task'[u] = task[u]
          /\ ~Upgrading(t)'
      BY <2>d DEF AutoRaises, Finish, Upgrading, OnHost, TypeOK
    <3> QED
      BY <3>1, StayStutters, EndLeaves
  <2>e. ASSUME CommitJob(t) PROVE [Serial!Next]_Upgraders
    <3>1. task[t].app \in Apps /\ task[t].kind \in DOMAIN Routes[task[t].app]
      BY <2>e DEF CommitJob, TypeOK, Task
    <3> QED
      BY <2>e, <3>1, LaunchEnters DEF CommitJob
  <2> QED
    BY <1>1, <2>a, <2>b, <2>c, <2>d, <2>e DEF ThreadStep
<1>2. ASSUME NEW t \in Threads, NEW a \in Apps, StartAuto(t, a) PROVE [Serial!Next]_Upgraders
  <2>1. /\ \A u \in Threads : u # t => pc'[u] = pc[u] /\ task'[u] = task[u]
        /\ task'[t].app = a /\ ~Upgrading(t)
    BY <1>2 DEF StartAuto, Upgrading, OnHost, TypeOK
  <2>2. Guarded(a) => \A p \in Upgraders : p[2] # a
    BY <1>2, FreeMeansNobody DEF StartAuto, Guarded
  <2> QED
    BY <2>1, <2>2, StartEnters
<1>3. ASSUME NEW t \in Threads, NEW a \in Apps, NEW k \in DOMAIN Routes[a],
             StartJob(t, a, k) PROVE [Serial!Next]_Upgraders
  BY <1>3, LaunchEnters DEF StartJob
<1>4. ASSUME NEW t \in Threads, NEW a \in Apps, NEW k \in DOMAIN Routes[a],
             CheckJob(t, a, k) PROVE [Serial!Next]_Upgraders
  <2>1. /\ \A u \in Threads : u # t => pc'[u] = pc[u] /\ task'[u] = task[u]
        /\ ~Upgrading(t) /\ ~Upgrading(t)'
    BY <1>4 DEF CheckJob, Upgrading, OnHost, TypeOK
  <2> QED
    BY <2>1, StayStutters
<1>5. ASSUME UNCHANGED <<pc, task>> PROVE [Serial!Next]_Upgraders
  BY <1>5 DEF Upgraders, Upgrading, OnHost
<1>6. CASE Restart
  <2>1. \A t \in Threads : ~Upgrading(t)'
    BY <1>6 DEF Restart, Upgrading, OnHost
  <2>2. Upgraders' = {}
    BY <2>1 DEF Upgraders
  <2> QED
    BY <2>2 DEF Serial!Next, Serial!Restart
<1> QED
  BY <1>1, <1>2, <1>3, <1>4, <1>5, <1>6
     DEF Next, HandlerRaises, DetectVersions, vars

\* Where the upgrade handler and the release check of an application take the
\* lock, its upgrades come one at a time, each only after the one before has
\* left the host, with gevent and with preemptive threads alike, through
\* database faults, exceptions and restarts.
THEOREM UpgradesSerializedHolds == Spec => UpgradesSerialized
<1>1. Init => Serial!Init
  BY DEF Init, Serial!Init, Upgraders, Upgrading, OnHost
<1>2. IInv /\ [Next]_vars => [Serial!Next]_Upgraders
  BY NextSerial DEF IInv
<1> QED
  BY <1>1, <1>2, IInvHolds, PTL DEF Spec, UpgradesSerialized, Serial!Spec
----------------------------------------------------------------------------
(* The settings in which a handler is not interrupted. *)

\* No handler and no release check is found between two of its steps.
LEMMA NextNoSwitch == TypeOK /\ Cooperative /\ NoSwitch /\ [Next]_vars => NoSwitch'
<1> SUFFICES ASSUME TypeOK, Cooperative, NoSwitch, [Next]_vars PROVE NoSwitch'
  OBVIOUS
<1> USE DEF NoSwitch
<1>1. ASSUME NEW t \in Threads, ThreadStep(t) PROVE NoSwitch'
  <2>1. ASSUME \/ CommitJob(t) \/ TurnedAway(t)
               \/ AutoStoreStatus(t) \/ AutoStoreLog(t) \/ AutoStoreRaises(t)
        PROVE  FALSE
    BY <2>1 DEF CommitJob, TurnedAway, AutoStoreStatus, AutoStoreLog, AutoStoreRaises
  <2>2. ASSUME NEW ok \in BOOLEAN, EndWork(t, ok) \/ AutoEnd(t, ok) PROVE NoSwitch'
    BY <2>2 DEF EndWork, AutoEnd, Finish, TypeOK
  <2> QED
    BY <1>1, <2>1, <2>2 DEF ThreadStep, BeginWork, StoreStatus, StoreLog, StoreRaises, EndThread,
          AutoBegin, AutoRaises, Finish, TypeOK
<1>2. ASSUME NEW t \in Threads, NEW a \in Apps, StartAuto(t, a) PROVE NoSwitch'
  BY <1>2 DEF StartAuto, TypeOK
<1>3. ASSUME NEW t \in Threads, NEW a \in Apps, NEW k \in DOMAIN Routes[a],
             StartJob(t, a, k) \/ CheckJob(t, a, k) PROVE NoSwitch'
  BY <1>3 DEF StartJob, CheckJob, Launch, TypeOK
<1>4. ASSUME UNCHANGED pc PROVE NoSwitch'
  BY <1>4
<1>5. CASE Restart
  BY <1>5 DEF Restart
<1> QED
  BY <1>1, <1>2, <1>3, <1>4, <1>5 DEF Next, HandlerRaises, DetectVersions, vars

\* What the handlers keep: marked trackers, single jobs, respected refusals.
Refusals == JobsMarked /\ JobsSingle /\ RefusalRespected

\* A step of one thread that starts no job and clears no tracker keeps it.
LEMMA QuietKeeps ==
    ASSUME Refusals, NEW t \in Threads, job' = job,
           \A u \in Threads : u # t => pc'[u] = pc[u] /\ task'[u] = task[u],
           Underway(t)' => /\ Underway(t)
                           /\ task'[t].app = task[t].app /\ task'[t].kind = task[t].kind
    PROVE  Refusals'
<1>1. \A u \in Threads : Underway(u)' => /\ Underway(u)
                                          /\ task'[u].app = task[u].app
                                          /\ task'[u].kind = task[u].kind
  BY DEF Underway
<1> QED
  BY <1>1 DEF Refusals, JobsMarked, JobsSingle, RefusalRespected, RouteOf

\* Nor does the end of a job, which clears the tracker of no other job.
LEMMA EndKeeps ==
    ASSUME Refusals, NEW t \in Threads,
           \A u \in Threads : u # t => pc'[u] = pc[u] /\ task'[u] = task[u],
           ~Underway(t)',
           \A u \in Threads : u # t /\ Underway(u) =>
               job'[task[u].app][task[u].kind].running = job[task[u].app][task[u].kind].running
    PROVE  Refusals'
<1>1. \A u \in Threads : Underway(u)' => u # t /\ Underway(u) /\ task'[u] = task[u]
  BY DEF Underway
<1> QED
  BY <1>1 DEF Refusals, JobsMarked, JobsSingle, RefusalRespected, RouteOf

\* A job that is under way with the lock of its application owns the lock.
LEMMA UnderwayHolds ==
    ASSUME TypeOK, NEW u \in Threads, Underway(u)
    PROVE  /\ task[u].app \in Apps /\ task[u].kind \in DOMAIN Routes[task[u].app]
           /\ RouteOf(u).locked => Holds(u)
  BY DEF TypeOK, Task, Underway, Holds, ManualPcs

\* A start: the handler's checks and the lock leave no job that it refuses, and
\* none of its own kind.
LEMMA LaunchRefuses ==
    ASSUME TypeOK, LockDiscipline, Refusals,
           NEW t \in Threads, NEW a \in Apps, NEW k \in DOMAIN Routes[a],
           pc[t] = "idle", Allowed(a, k), Launch(t, a, k)
    PROVE  Refusals'
<1>1. /\ \A u \in Threads : u # t => pc'[u] = pc[u] /\ task'[u] = task[u]
      /\ task'[t].app = a /\ task'[t].kind = k
  BY DEF Launch, TypeOK
<1>2. /\ job'[a][k].running
      /\ \A b \in Apps : \A m \in DOMAIN Routes[b] : job[b][m].running => job'[b][m].running
  BY DEF Launch, TypeOK
<1>3. \A u \in Threads : u # t /\ Underway(u)' => Underway(u)
  BY <1>1 DEF Underway
<1>4. ASSUME NEW u \in Threads, u # t, Underway(u), task[u].app = a
      PROVE  task[u].kind \notin Routes[a][k].refused /\ task[u].kind # k
  <2>1. task[u].kind \notin Routes[a][k].refused
    BY <1>4 DEF Allowed, Refusals, JobsMarked
  <2>2. ASSUME task[u].kind = k PROVE FALSE
    <3>1. Routes[a][k].locked
      BY <2>1, <2>2, SelfRefusalAssumption
    <3>2. ~lock[a]
      BY <3>1 DEF Launch
    <3>3. Holds(u)
      BY <1>4, <2>2, <3>1, UnderwayHolds DEF RouteOf
    <3> QED
      BY <1>4, <3>2, <3>3 DEF LockDiscipline
  <2> QED
    BY <2>1, <2>2
<1>5. JobsMarked'
  BY <1>1, <1>2, <1>3, UnderwayHolds DEF Refusals, JobsMarked
<1>6. JobsSingle'
  BY <1>1, <1>3, <1>4 DEF Refusals, JobsSingle
<1>7. RefusalRespected'
  BY <1>1, <1>3, <1>4 DEF Refusals, RefusalRespected, RouteOf
<1> QED
  BY <1>5, <1>6, <1>7 DEF Refusals

\* Every step of a cooperative setting keeps it.
LEMMA NextRefusals ==
    IInv /\ Cooperative /\ NoSwitch /\ Refusals /\ [Next]_vars => Refusals'
<1> SUFFICES ASSUME TypeOK, LockDiscipline, Cooperative, NoSwitch, Refusals, [Next]_vars
             PROVE  Refusals'
  BY DEF IInv
<1>1. ASSUME NEW t \in Threads, ThreadStep(t) PROVE Refusals'
  <2>a. ASSUME \/ BeginWork(t) \/ StoreStatus(t) \/ StoreLog(t) \/ StoreRaises(t)
               \/ AutoBegin(t) \/ AutoRaises(t) \/ \E ok \in BOOLEAN : AutoEnd(t, ok)
        PROVE  Refusals'
    <3>1. /\ job' = job
          /\ \A u \in Threads : u # t => pc'[u] = pc[u] /\ task'[u] = task[u]
          /\ Underway(t)' => Underway(t) /\ task'[t] = task[t]
      BY <2>a DEF BeginWork, StoreStatus, StoreLog, StoreRaises, AutoBegin, AutoRaises, AutoEnd,
            Finish, Underway, TypeOK
    <3> QED
      BY <3>1, QuietKeeps
  <2>b. ASSUME NEW ok \in BOOLEAN, EndWork(t, ok) PROVE Refusals'
    <3> DEFINE a == task[t].app
               k == task[t].kind
    <3>1. /\ Underway(t) /\ ~Underway(t)'
          /\ \A u \in Threads : u # t => pc'[u] = pc[u] /\ task'[u] = task[u]
      BY <2>b DEF EndWork, Underway, TypeOK
    <3>2. \A b \in Apps : \A m \in DOMAIN Routes[b] :
             ~(b = a /\ m = k) => job'[b][m] = job[b][m]
      BY <2>b DEF EndWork, TypeOK
    <3>3. \A u \in Threads : u # t /\ Underway(u) => ~(task[u].app = a /\ task[u].kind = k)
      BY <3>1 DEF Refusals, JobsSingle
    <3> QED
      BY <3>1, <3>2, <3>3, EndKeeps, UnderwayHolds
  <2>c. ASSUME EndThread(t) PROVE Refusals'
    <3> DEFINE a == task[t].app
               k == task[t].kind
    <3>1. /\ ~Underway(t)' /\ pc[t] = "stored"
          /\ \A u \in Threads : u # t => pc'[u] = pc[u] /\ task'[u] = task[u]
      BY <2>c DEF EndThread, Finish, Underway, TypeOK
    <3>2. CASE ~RouteOf(t).locked
      BY <2>c, <3>1, <3>2, EndKeeps DEF EndThread
    <3>3. CASE RouteOf(t).locked
      <4>1. \A b \in Apps : \A m \in DOMAIN Routes[b] :
               ~(b = a /\ m = k) => job'[b][m] = job[b][m]
        BY <2>c DEF EndThread, TypeOK
      <4>2. Holds(t)
        BY <3>1, <3>3 DEF Holds, ManualPcs
      <4>3. ASSUME NEW u \in Threads, u # t, Underway(u), task[u].app = a, task[u].kind = k
            PROVE  FALSE
        BY <3>3, <4>2, <4>3, UnderwayHolds DEF LockDiscipline, RouteOf
      <4> QED
        BY <3>1, <4>1, <4>3, EndKeeps, UnderwayHolds
    <3> QED
      BY <3>2, <3>3
  <2>d. ASSUME \/ CommitJob(t) \/ TurnedAway(t)
               \/ AutoStoreStatus(t) \/ AutoStoreLog(t) \/ AutoStoreRaises(t)
        PROVE  FALSE
    BY <2>d DEF CommitJob, TurnedAway, AutoStoreStatus, AutoStoreLog, AutoStoreRaises, NoSwitch
  <2> QED
    BY <1>1, <2>a, <2>b, <2>c, <2>d DEF ThreadStep
<1>2. ASSUME NEW t \in Threads, NEW a \in Apps, StartAuto(t, a) PROVE Refusals'
  <2>1. /\ job' = job /\ ~Underway(t)'
        /\ \A u \in Threads : u # t => pc'[u] = pc[u] /\ task'[u] = task[u]
    BY <1>2 DEF StartAuto, Underway, TypeOK
  <2> QED
    BY <2>1, QuietKeeps
<1>3. ASSUME NEW t \in Threads, NEW a \in Apps, NEW k \in DOMAIN Routes[a],
             StartJob(t, a, k) PROVE Refusals'
  BY <1>3, LaunchRefuses DEF StartJob
<1>4. ASSUME NEW t \in Threads, NEW a \in Apps, NEW k \in DOMAIN Routes[a],
             CheckJob(t, a, k) PROVE FALSE
  BY <1>4 DEF CheckJob
<1>5. ASSUME NEW a \in Apps, NEW k \in DOMAIN Routes[a], HandlerRaises(a, k)
      PROVE  Refusals'
  <2> DEFINE r == [running |-> TRUE, success |-> "none", run |-> job[a][k].run]
             j == [job EXCEPT ![a] = [job[a] EXCEPT ![k] = r]]
  <2>0. job' = job \/ job' = j
    BY <1>5 DEF HandlerRaises
  <2>1. \A b \in Apps : \A m \in DOMAIN Routes[b] : job[b][m].running => job'[b][m].running
    <3>1. CASE job' = j
      <4>1. r.running
        OBVIOUS
      <4> HIDE DEF r
      <4> QED
        BY <3>1, <4>1 DEF TypeOK
    <3> QED
      BY <2>0, <3>1
  <2>2. pc' = pc /\ task' = task
    BY <1>5 DEF HandlerRaises
  <2> QED
    BY <2>1, <2>2, UnderwayHolds
       DEF Refusals, JobsMarked, JobsSingle, RefusalRespected, RouteOf, Underway
<1>6. ASSUME UNCHANGED <<job, pc, task>> PROVE Refusals'
  BY <1>6 DEF Refusals, JobsMarked, JobsSingle, RefusalRespected, RouteOf, Underway
<1>7. CASE Restart
  BY <1>7 DEF Restart, Refusals, JobsMarked, JobsSingle, RefusalRespected, Underway
<1> QED
  BY <1>1, <1>2, <1>3, <1>4, <1>5, <1>6, <1>7 DEF Next, DetectVersions, vars

\* Jobs whose handlers refuse one another never drive the host of an
\* application together, for any table of handlers in which every job excludes
\* itself, with gevent and whether or not database calls raise.
THEOREM RefusalsWorkHolds == Spec => []RefusalsWork
<1> DEFINE J == Cooperative => NoSwitch /\ Refusals
<1>1. Init => J
  BY DEF Init, NoSwitch, Refusals, JobsMarked, JobsSingle, RefusalRespected, Underway
<1>2. IInv /\ J /\ [Next]_vars => J'
  <2> SUFFICES ASSUME IInv, J, [Next]_vars, Cooperative' PROVE NoSwitch' /\ Refusals'
    OBVIOUS
  <2>1. Cooperative
    BY DEF Next, vars, Cooperative
  <2> QED
    BY <2>1, NextNoSwitch, NextRefusals DEF IInv
<1>3. J => RefusalsWork
  BY DEF RefusalsWork, Refusals
<1> QED
  BY <1>1, <1>2, <1>3, IInvHolds, PTL DEF Spec

\* The other half of a truthful tracker: a marked one belongs to a job under
\* way, and an outcome is that of a job that ended.
Backed ==
    \A a \in Apps : \A k \in DOMAIN Routes[a] :
        /\ job[a][k].running =>
              \E t \in Threads : Underway(t) /\ task[t].app = a /\ task[t].kind = k
        /\ job[a][k].success # "none" => ~job[a][k].running

\* Where the database answers every step keeps it.
LEMMA NextBacked ==
    TypeOK /\ setting = "gevent" /\ NoSwitch /\ Backed /\ [Next]_vars => Backed'
<1> SUFFICES ASSUME TypeOK, setting = "gevent", NoSwitch, Backed, [Next]_vars PROVE Backed'
  OBVIOUS
<1>a. ASSUME job' = job,
             \A u \in Threads : Underway(u) => /\ Underway(u)'
                                               /\ task'[u].app = task[u].app
                                               /\ task'[u].kind = task[u].kind
      PROVE  Backed'
  BY <1>a DEF Backed
<1>1. ASSUME NEW t \in Threads, ThreadStep(t) PROVE Backed'
  <2>a. ASSUME \/ BeginWork(t) \/ StoreStatus(t) \/ StoreLog(t) \/ StoreRaises(t)
               \/ AutoBegin(t) \/ AutoRaises(t) \/ \E ok \in BOOLEAN : AutoEnd(t, ok)
        PROVE  Backed'
    <3>1. /\ job' = job
          /\ \A u \in Threads : Underway(u) => Underway(u)' /\ task'[u] = task[u]
      BY <2>a DEF BeginWork, StoreStatus, StoreLog, StoreRaises, AutoBegin, AutoRaises, AutoEnd,
            Finish, Underway, TypeOK
    <3> QED
      BY <1>a, <3>1
  <2>b. ASSUME NEW ok \in BOOLEAN, EndWork(t, ok) PROVE Backed'
    <3> DEFINE a == task[t].app
               k == task[t].kind
    <3>0. a \in Apps /\ k \in DOMAIN Routes[a] /\ job[a][k] \in Tracker
      BY <2>b DEF EndWork, TypeOK, Task
    <3>1. \A u \in Threads : u # t => (Underway(u) => Underway(u)') /\ task'[u] = task[u]
      BY <2>b DEF EndWork, Underway, TypeOK
    <3>2. \A b \in Apps : \A m \in DOMAIN Routes[b] :
             ~(b = a /\ m = k) => job'[b][m] = job[b][m]
      BY <2>b DEF EndWork, TypeOK
    <3>3. ~job'[a][k].running
      <4>1. job'[a][k] = [job[a][k] EXCEPT !.running = FALSE, !.success = Outcome(ok)]
        BY <2>b, <3>0 DEF EndWork, TypeOK
      <4> QED
        BY <3>0, <4>1 DEF Tracker
    <3>4. ASSUME NEW b \in Apps, NEW m \in DOMAIN Routes[b], ~(b = a /\ m = k), job[b][m].running
          PROVE  \E u \in Threads : Underway(u)' /\ task'[u].app = b /\ task'[u].kind = m
      <4>1. PICK u \in Threads : Underway(u) /\ task[u].app = b /\ task[u].kind = m
        BY <3>4 DEF Backed
      <4>2. u # t
        BY <3>4, <4>1
      <4> QED
        BY <3>1, <4>1, <4>2
    <3> HIDE DEF a, k
    <3> QED
      BY <3>2, <3>3, <3>4 DEF Backed
  <2>c. ASSUME EndThread(t) PROVE Backed'
    <3> DEFINE a == task[t].app
               k == task[t].kind
    <3>0. a \in Apps /\ k \in DOMAIN Routes[a] /\ job[a][k] \in Tracker
      BY <2>c DEF EndThread, TypeOK, Task
    <3>1. \A u \in Threads : Underway(u) => Underway(u)' /\ task'[u] = task[u]
      BY <2>c DEF EndThread, Finish, Underway, TypeOK
    <3>2. \A b \in Apps : \A m \in DOMAIN Routes[b] :
             job'[b][m] = job[b][m] \/ ~job'[b][m].running
      <4>1. CASE job' = [job EXCEPT ![a] = [job[a] EXCEPT ![k] = [job[a][k] EXCEPT !.running = FALSE]]]
        <5>1. ~[job[a][k] EXCEPT !.running = FALSE].running
          BY <3>0 DEF Tracker
        <5> QED
          BY <3>0, <4>1, <5>1 DEF TypeOK
      <4>2. CASE job' = job
        BY <4>2
      <4> QED
        BY <2>c, <4>1, <4>2 DEF EndThread
    <3> QED
      BY <3>1, <3>2 DEF Backed
  <2>d. ASSUME \/ CommitJob(t) \/ TurnedAway(t)
               \/ AutoStoreStatus(t) \/ AutoStoreLog(t) \/ AutoStoreRaises(t)
        PROVE  FALSE
    BY <2>d DEF CommitJob, TurnedAway, AutoStoreStatus, AutoStoreLog, AutoStoreRaises, NoSwitch
  <2> QED
    BY <1>1, <2>a, <2>b, <2>c, <2>d DEF ThreadStep
<1>2. ASSUME NEW t \in Threads, NEW a \in Apps, StartAuto(t, a) PROVE Backed'
  <2>1. /\ job' = job
        /\ \A u \in Threads : Underway(u) => Underway(u)' /\ task'[u] = task[u]
    BY <1>2 DEF StartAuto, Underway, TypeOK
  <2> QED
    BY <1>a, <2>1
<1>3. ASSUME NEW t \in Threads, NEW a \in Apps, NEW k \in DOMAIN Routes[a],
             StartJob(t, a, k) PROVE Backed'
  <2>1. /\ \A u \in Threads : Underway(u) => Underway(u)' /\ task'[u] = task[u]
        /\ Underway(t)' /\ task'[t].app = a /\ task'[t].kind = k
    BY <1>3 DEF StartJob, Launch, Underway, TypeOK
  <2>2. /\ job'[a][k].success = "none"
        /\ \A b \in Apps : \A m \in DOMAIN Routes[b] :
              ~(b = a /\ m = k) => job'[b][m] = job[b][m]
    BY <1>3 DEF StartJob, Launch, TypeOK
  <2> QED
    BY <2>1, <2>2 DEF Backed
<1>4. ASSUME NEW t \in Threads, NEW a \in Apps, NEW k \in DOMAIN Routes[a],
             CheckJob(t, a, k) PROVE FALSE
  BY <1>4 DEF CheckJob, Cooperative
<1>5. ASSUME NEW a \in Apps, NEW k \in DOMAIN Routes[a], HandlerRaises(a, k) PROVE FALSE
  BY <1>5 DEF HandlerRaises, DbFaults
<1>6. ASSUME UNCHANGED <<job, pc, task>> PROVE Backed'
  BY <1>6 DEF Backed, Underway
<1>7. CASE Restart
  BY <1>7 DEF Restart, Backed, NewTracker
<1> QED
  BY <1>1, <1>2, <1>3, <1>4, <1>5, <1>6, <1>7 DEF Next, DetectVersions, vars

\* The tracker a page polls shows "running" exactly while a job of its kind is
\* under way, and an outcome only of a job that ended, whatever was started,
\* failed or was cut off by a restart (JobTracker, _bg and _bg_locked).
THEOREM TrackersTruthfulHolds == Spec => []TrackersTruthful
<1> DEFINE J == setting = "gevent" => NoSwitch /\ Refusals /\ Backed
<1>1. Init => J
  BY DEF Init, NoSwitch, Refusals, JobsMarked, JobsSingle, RefusalRespected, Underway,
         Backed, NewTracker
<1>2. IInv /\ J /\ [Next]_vars => J'
  <2> SUFFICES ASSUME IInv, J, [Next]_vars, setting' = "gevent"
               PROVE  NoSwitch' /\ Refusals' /\ Backed'
    OBVIOUS
  <2>1. setting = "gevent" /\ Cooperative
    BY DEF Next, vars, Cooperative
  <2> QED
    BY <2>1, NextNoSwitch, NextRefusals, NextBacked DEF IInv
<1>3. IInv /\ J => TrackersTruthful
  BY UnderwayHolds
     DEF IInv, TrackersTruthful, TrackerTruthful, Refusals, JobsMarked, Backed
<1> QED
  BY <1>1, <1>2, <1>3, IInvHolds, PTL DEF Spec

----------------------------------------------------------------------------
(* The stored records of guarded upgrades. *)

\* what RecordsOrdered says of one application
Ordered(a) ==
    /\ last[a]["upgrade"].run <= runs[a]
    /\ last[a]["upgrade"].log <= last[a]["upgrade"].run
    /\ \A t \in Threads :
          Holds(t) /\ task[t].app = a =>
              /\ last[a]["upgrade"].run <= task[t].run /\ task[t].run <= runs[a]
              /\ pc[t] \in ManualPcs => job[a]["upgrade"].run = task[t].run
              /\ pc[t] = "halfway" /\ Routes[a]["upgrade"].stores =>
                    last[a]["upgrade"].run = task[t].run

\* and what a step may do to it
Advances(a) == Ordered(a)' /\ RecordAdvances(a)

\* the types that the comparisons need
LEMMA RecordTypes ==
    ASSUME TypeOK, NEW a \in Apps, Guarded(a)
    PROVE  /\ "upgrade" \in DOMAIN Routes[a]
           /\ last[a]["upgrade"] \in Record /\ job[a]["upgrade"] \in Tracker
           /\ last[a]["upgrade"].run \in Nat /\ last[a]["upgrade"].log \in Nat /\ runs[a] \in Nat
           /\ \A t \in Threads : Holds(t) => task[t].run \in Nat /\ task[t] \in Task
<1>1. /\ "upgrade" \in DOMAIN Routes[a]
      /\ last[a]["upgrade"] \in Record /\ job[a]["upgrade"] \in Tracker /\ runs[a] \in Nat
  BY MaxRunsAssumption DEF TypeOK, Guarded
<1>2. \A t \in Threads : Holds(t) => task[t] \in Task
  BY DEF TypeOK, Holds, ManualPcs
<1> QED
  BY <1>1, <1>2, MaxRunsAssumption DEF Record, Task

\* A step that stores nothing and moves no owner forward keeps the order.
LEMMA StoresNothing ==
    ASSUME TypeOK, NEW a \in Apps, Guarded(a), Ordered(a),
           last'[a]["upgrade"] = last[a]["upgrade"], runs[a] <= runs'[a], runs'[a] \in Nat,
           \A t \in Threads : Holds(t)' /\ task'[t].app = a =>
               /\ Holds(t) /\ task[t].app = a /\ task'[t].run = task[t].run
               /\ pc'[t] \in ManualPcs => /\ pc[t] \in ManualPcs
                                          /\ job'[a]["upgrade"].run = job[a]["upgrade"].run
               /\ pc'[t] = "halfway" /\ Routes[a]["upgrade"].stores => pc[t] = "halfway"
    PROVE  Advances(a)
<1> USE RecordTypes
<1>1. RecordAdvances(a)
  BY DEF RecordAdvances, Ordered
<1>2. /\ last'[a]["upgrade"].run <= runs'[a]
      /\ last'[a]["upgrade"].log <= last'[a]["upgrade"].run
  BY DEF Ordered
<1>3. ASSUME NEW t \in Threads, Holds(t)', task'[t].app = a
      PROVE  /\ last'[a]["upgrade"].run <= task'[t].run /\ task'[t].run <= runs'[a]
             /\ pc'[t] \in ManualPcs => job'[a]["upgrade"].run = task'[t].run
             /\ pc'[t] = "halfway" /\ Routes[a]["upgrade"].stores =>
                   last'[a]["upgrade"].run = task'[t].run
  BY <1>3 DEF Ordered
<1> QED
  BY <1>1, <1>2, <1>3 DEF Advances, Ordered

\* The owner of the lock stores its own run: the status, or the log beside it.
LEMMA OwnerStores ==
    ASSUME TypeOK, LockDiscipline, NEW a \in Apps, Guarded(a), Ordered(a),
           NEW t \in Threads, Holds(t), task[t].app = a,
           last'[a]["upgrade"].run = task[t].run,
           last'[a]["upgrade"].log \in {last[a]["upgrade"].log, task[t].run},
           runs' = runs,
           \A u \in Threads : u # t => pc'[u] = pc[u] /\ task'[u] = task[u],
           Holds(t)' => /\ task'[t].run = task[t].run
                        /\ pc'[t] \in ManualPcs => /\ pc[t] \in ManualPcs
                                                   /\ job'[a]["upgrade"].run = job[a]["upgrade"].run
    PROVE  Advances(a)
<1>1. ASSUME NEW u \in Threads, u # t, Holds(u)'
      PROVE  task'[u].app # a
  <2>1. pc'[u] = pc[u] /\ task'[u] = task[u]
    BY <1>1
  <2>2. Holds(u)
    BY <1>1, <2>1 DEF Holds, RouteOf
  <2> QED
    BY <1>1, <2>1, <2>2 DEF LockDiscipline
<1> USE RecordTypes
<1>2. /\ last[a]["upgrade"].run <= task[t].run /\ task[t].run <= runs[a]
      /\ last[a]["upgrade"].log <= last[a]["upgrade"].run
  BY DEF Ordered
<1>3. RecordAdvances(a)
  BY <1>2 DEF RecordAdvances
<1>4. /\ last'[a]["upgrade"].run <= runs'[a]
      /\ last'[a]["upgrade"].log <= last'[a]["upgrade"].run
  BY <1>2
<1> QED
  BY <1>1, <1>2, <1>3, <1>4 DEF Advances, Ordered

\* A start takes a number that is newer than every stored one.
LEMMA StartOrders ==
    ASSUME TypeOK, LockDiscipline, NEW a \in Apps, Guarded(a), Ordered(a),
           NEW t \in Threads, last' = last, ~lock[a], runs[a] \in Nat,
           runs'[a] = runs[a] + 1, task'[t].app = a, task'[t].run = runs[a] + 1,
           \A u \in Threads : u # t => pc'[u] = pc[u] /\ task'[u] = task[u],
           pc'[t] \in ManualPcs => job'[a]["upgrade"].run = runs[a] + 1,
           pc'[t] # "halfway"
    PROVE  Advances(a)
<1> USE RecordTypes
<1>1. \A u \in Threads : u # t /\ Holds(u)' => task'[u].app # a
  BY DEF LockDiscipline, Holds, RouteOf
<1> QED
  BY <1>1 DEF Advances, Ordered, RecordAdvances

\* Every step of a cooperative setting keeps the order of the records.
LEMMA NextOrdered ==
    ASSUME IInv, Cooperative, NoSwitch, [Next]_vars,
           NEW a \in Apps, Guarded(a), Ordered(a)
    PROVE  Advances(a)
<1> USE DEF IInv
<1>0. TypeOK'
  BY NextType
<1>a. runs[a] \in Nat /\ runs'[a] \in Nat
  BY <1>0, MaxRunsAssumption DEF TypeOK
<1>1. ASSUME NEW t \in Threads, ThreadStep(t) PROVE Advances(a)
  <2>0. \A u \in Threads : u # t => pc'[u] = pc[u] /\ task'[u] = task[u]
    <3>1. ASSUME NEW ok \in BOOLEAN, EndWork(t, ok) \/ AutoEnd(t, ok)
          PROVE  \A u \in Threads : u # t => pc'[u] = pc[u] /\ task'[u] = task[u]
      BY <3>1 DEF EndWork, AutoEnd, Finish, TypeOK
    <3> QED
      BY <1>1, <3>1 DEF ThreadStep, CommitJob, Launch, TurnedAway, BeginWork, StoreStatus, StoreLog,
            StoreRaises, EndThread, AutoBegin, AutoRaises, AutoStoreStatus, AutoStoreLog,
            AutoStoreRaises, Finish, TypeOK
  <2>00. \A u \in Threads : u # t => (Holds(u)' <=> Holds(u))
    BY <2>0 DEF Holds, RouteOf
  <2>a. ASSUME BeginWork(t) \/ StoreRaises(t) \/ AutoBegin(t) PROVE Advances(a)
    <3>1. last' = last /\ runs' = runs /\ job' = job /\ task' = task
      BY <2>a DEF BeginWork, StoreRaises, AutoBegin
    <3>2. /\ Holds(t)' => Holds(t)
          /\ pc'[t] \in ManualPcs => pc[t] \in ManualPcs
          /\ pc'[t] # "halfway"
      BY <2>a, <3>1 DEF BeginWork, StoreRaises, AutoBegin, Holds, RouteOf, ManualPcs, TypeOK
    <3> QED
      BY <1>a, <2>0, <2>00, <3>1, <3>2, StoresNothing
  <2>b. ASSUME AutoRaises(t) PROVE Advances(a)
    <3>1. last' = last /\ runs' = runs /\ job' = job /\ pc'[t] = "idle"
      BY <2>b DEF AutoRaises, Finish, TypeOK
    <3>2. ~Holds(t)'
      BY <3>1 DEF Holds, ManualPcs
    <3> QED
      BY <1>a, <2>0, <2>00, <3>1, <3>2, StoresNothing
  <2>c. ASSUME EndThread(t) PROVE Advances(a)
    <3>1. last' = last /\ runs' = runs /\ pc'[t] = "idle"
      BY <2>c DEF EndThread, Finish, TypeOK
    <3>2. ~Holds(t)'
      BY <3>1 DEF Holds, ManualPcs
    <3>3. job'[a]["upgrade"].run = job[a]["upgrade"].run
      <4> DEFINE b == task[t].app
                 k == task[t].kind
      <4>1. job[a]["upgrade"] \in Tracker /\ "upgrade" \in DOMAIN Routes[a]
        BY RecordTypes
      <4>2. job' = job \/ job' = [job EXCEPT ![b] = [job[b] EXCEPT ![k] = [job[b][k] EXCEPT !.running = FALSE]]]
        BY <2>c DEF EndThread
      <4>3. b \in Apps /\ k \in DOMAIN Routes[b]
        BY <2>c DEF EndThread, TypeOK, Task
      <4>4. CASE job' = job
        BY <4>4
      <4>5. CASE job' = [job EXCEPT ![b] = [job[b] EXCEPT ![k] = [job[b][k] EXCEPT !.running = FALSE]]]
        <5>1. \/ job'[a]["upgrade"] = job[a]["upgrade"]
              \/ job'[a]["upgrade"] = [job[a]["upgrade"] EXCEPT !.running = FALSE]
          BY <4>1, <4>3, <4>5 DEF TypeOK
        <5> QED
          BY <4>1, <5>1 DEF Tracker
      <4> QED
        BY <4>2, <4>4, <4>5
    <3> QED
      BY <1>a, <2>0, <2>00, <3>1, <3>2, <3>3, StoresNothing
  <2>d. ASSUME NEW ok \in BOOLEAN, EndWork(t, ok) PROVE Advances(a)
    <3> DEFINE b == task[t].app
               k == task[t].kind
    <3>1. /\ runs' = runs /\ pc[t] \in ManualPcs /\ pc'[t] = "ended"
          /\ task[t] \in Task /\ b \in Apps /\ k \in DOMAIN Routes[b]
      BY <2>d DEF EndWork, TypeOK, Task, ManualPcs
    <3>2. task'[t].app = b /\ task'[t].kind = k /\ task'[t].run = task[t].run
      <4>1. task'[t] = [task[t] EXCEPT !.ok = ok]
        BY <2>d DEF EndWork, TypeOK
      <4> QED
        BY <3>1, <4>1 DEF Task
    <3>3. Holds(t)' <=> Holds(t)
      BY <3>1, <3>2 DEF Holds, RouteOf, ManualPcs
    <3>4. job'[a]["upgrade"].run = job[a]["upgrade"].run
      <4>1. job[a]["upgrade"] \in Tracker /\ "upgrade" \in DOMAIN Routes[a]
        BY RecordTypes
      <4>2. job' = [job EXCEPT ![b] = [job[b] EXCEPT ![k] =
                       [job[b][k] EXCEPT !.running = FALSE, !.success = Outcome(ok)]]]
        BY <2>d DEF EndWork
      <4>3. \/ job'[a]["upgrade"] = job[a]["upgrade"]
            \/ job'[a]["upgrade"] = [job[a]["upgrade"] EXCEPT !.running = FALSE, !.success = Outcome(ok)]
        BY <4>1, <4>2 DEF TypeOK
      <4> QED
        BY <4>1, <4>3 DEF Tracker
    <3>5. CASE last' = last
      BY <1>a, <2>0, <2>00, <3>1, <3>2, <3>3, <3>4, <3>5, StoresNothing
    <3>6. CASE last' # last
      <4>1. /\ k = "upgrade" /\ task[t].run \in 0..MaxRuns
            /\ last' \in {StatusSet(b, "upgrade", task[t].run), BothSet(b, "upgrade", task[t].run)}
        BY <2>d, <3>1, <3>6, RecordChoices DEF EndWork, OwnRecords, Task
      <4>2. CASE b = a
        <5>1. Holds(t)
          BY <3>1, <4>1, <4>2 DEF Holds, RouteOf, Guarded
        <5>2. /\ last'[a]["upgrade"].run = task[t].run
              /\ last'[a]["upgrade"].log \in {last[a]["upgrade"].log, task[t].run}
          BY <3>1, <4>1, <4>2, StatusWrites, LogWrites, BothWrites
        <5> QED
          BY <2>0, <3>1, <3>2, <3>3, <3>4, <4>2, <5>1, <5>2, OwnerStores
      <4>3. CASE b # a
        <5>1. last'[a]["upgrade"] = last[a]["upgrade"]
          BY <3>1, <4>1, <4>3, StatusWrites, LogWrites, BothWrites, RecordTypes DEF WritesOnly
        <5> QED
          BY <1>a, <2>0, <2>00, <3>1, <3>2, <3>3, <3>4, <5>1, StoresNothing
      <4> QED
        BY <4>2, <4>3
    <3> QED
      BY <3>5, <3>6
  <2>e. ASSUME StoreStatus(t) \/ StoreLog(t) PROVE Advances(a)
    <3> DEFINE b == task[t].app
               k == task[t].kind
    <3>1. /\ runs' = runs /\ job' = job /\ task' = task
          /\ pc[t] \in ManualPcs /\ pc'[t] \in {"halfway", "stored"}
          /\ b \in Apps /\ k \in DOMAIN Routes[b] /\ task[t].run \in 0..MaxRuns
      BY <2>e DEF StoreStatus, StoreLog, TypeOK, Task, ManualPcs
    <3>2. Holds(t)' <=> Holds(t)
      BY <3>1 DEF Holds, RouteOf, ManualPcs
    <3>3. job[b][k].run \in 0..MaxRuns
      BY <3>1 DEF TypeOK, Tracker
    <3>4. Holds(t) => k = "upgrade"
      BY <3>1, LockedAssumption DEF Holds, RouteOf, ManualPcs
    <3>5. CASE b = a /\ k = "upgrade" /\ Routes[a]["upgrade"].stores
      <4>1. Holds(t)
        BY <3>1, <3>5 DEF Holds, RouteOf, Guarded
      <4>2. job[a]["upgrade"].run = task[t].run
        BY <3>1, <3>5, <4>1 DEF Ordered
      <4>3. CASE StoreStatus(t)
        <5>1. last' = StatusSet(a, "upgrade", task[t].run)
          BY <3>5, <4>3 DEF StoreStatus, RouteOf
        <5> QED
          BY <2>0, <3>1, <3>2, <3>5, <4>1, <5>1, OwnerStores, StatusWrites, LogWrites, BothWrites
      <4>4. CASE StoreLog(t)
        <5>1. last' = LogSet(a, "upgrade", task[t].run)
          BY <3>5, <4>2, <4>4 DEF StoreLog, RouteOf
        <5>2. last[a]["upgrade"].run = task[t].run
          BY <3>5, <4>1, <4>4 DEF StoreLog, Ordered
        <5> QED
          BY <2>0, <3>1, <3>2, <3>5, <4>1, <5>1, <5>2, OwnerStores, StatusWrites, LogWrites, BothWrites
      <4> QED
        BY <2>e, <4>3, <4>4
    <3>6. CASE ~(b = a /\ k = "upgrade" /\ Routes[a]["upgrade"].stores)
      <4>1. last'[a]["upgrade"] = last[a]["upgrade"]
        <5>1. \/ last' = last
              \/ /\ Routes[b][k].stores
                 /\ \/ last' = StatusSet(b, k, task[t].run)
                    \/ last' = LogSet(b, k, job[b][k].run)
          BY <2>e DEF StoreStatus, StoreLog, RouteOf
        <5> QED
          <6>1. CASE last' = last
            BY <6>1
          <6>2. CASE last' # last
            <7>1. Routes[b][k].stores /\ WritesOnly(last', b, k)
              <8> HIDE DEF b, k
              <8> QED
                BY <3>1, <3>3, <5>1, <6>2, StatusWrites, LogWrites
            <7> QED
              BY <3>1, <3>6, <7>1, RecordTypes DEF WritesOnly
          <6> QED
            BY <6>1, <6>2
      <4>2. Holds(t) /\ b = a => ~Routes[a]["upgrade"].stores
        BY <3>4, <3>6
      <4> QED
        BY <1>a, <2>0, <2>00, <3>1, <3>2, <4>1, <4>2, StoresNothing
    <3> QED
      BY <3>5, <3>6
  <2>f. ASSUME NEW ok \in BOOLEAN, AutoEnd(t, ok) PROVE Advances(a)
    <3> DEFINE b == task[t].app
    <3>1. /\ runs' = runs /\ job' = job /\ pc[t] = "auto_working" /\ pc'[t] = "idle"
          /\ b \in Apps /\ task[t].run \in 0..MaxRuns
          /\ last' \in AutoRecords(t, ok) \/ last' = last
      BY <2>f DEF AutoEnd, Finish, TypeOK, Task
    <3>2. ~Holds(t)'
      BY <3>1 DEF Holds, ManualPcs
    <3>3. CASE last'[a]["upgrade"] = last[a]["upgrade"]
      BY <1>a, <2>0, <2>00, <3>1, <3>2, <3>3, StoresNothing
    <3>4. CASE last'[a]["upgrade"] # last[a]["upgrade"]
      <4>1. last' \in {StatusSet(b, "upgrade", task[t].run), BothSet(b, "upgrade", task[t].run)}
        BY <3>1, <3>4, RecordChoices
      <4>2. b = a
        BY <3>1, <3>4, <4>1 DEF StatusSet, BothSet, TypeOK
      <4>3. Holds(t)
        BY <3>1, <4>2 DEF Holds, Guarded
      <4>4. /\ last'[a]["upgrade"].run = task[t].run
            /\ last'[a]["upgrade"].log \in {last[a]["upgrade"].log, task[t].run}
        BY <3>1, <4>1, <4>2, StatusWrites, LogWrites, BothWrites, RecordTypes
      <4> QED
        BY <2>0, <3>1, <3>2, <4>2, <4>3, <4>4, OwnerStores
    <3> QED
      BY <3>3, <3>4
  <2>g. ASSUME \/ CommitJob(t) \/ TurnedAway(t)
               \/ AutoStoreStatus(t) \/ AutoStoreLog(t) \/ AutoStoreRaises(t)
        PROVE  FALSE
    BY <2>g DEF CommitJob, TurnedAway, AutoStoreStatus, AutoStoreLog, AutoStoreRaises, NoSwitch
  <2> QED
    BY <1>1, <2>a, <2>b, <2>c, <2>d, <2>e, <2>f, <2>g DEF ThreadStep
<1>2. ASSUME NEW t \in Threads, NEW b \in Apps, StartAuto(t, b) PROVE Advances(a)
  <2>1. /\ \A u \in Threads : u # t => pc'[u] = pc[u] /\ task'[u] = task[u]
        /\ last' = last /\ job' = job /\ pc'[t] = "auto_started"
        /\ task'[t].app = b /\ task'[t].run = runs[b] + 1
        /\ runs'[b] = runs[b] + 1 /\ (b # a => runs'[a] = runs[a])
    BY <1>2 DEF StartAuto, TypeOK
  <2>2. CASE b = a
    <3>1. ~lock[a]
      BY <1>2, <2>2 DEF StartAuto, Guarded
    <3> QED
      BY <1>a, <2>1, <2>2, <3>1, StartOrders DEF ManualPcs
  <2>3. CASE b # a
    <3>1. \A u \in Threads : u # t => (Holds(u)' <=> Holds(u))
      BY <2>1 DEF Holds, RouteOf
    <3> QED
      BY <1>a, <2>1, <2>3, <3>1, StoresNothing
  <2> QED
    BY <2>2, <2>3
<1>3. ASSUME NEW t \in Threads, NEW b \in Apps, NEW k \in DOMAIN Routes[b],
             StartJob(t, b, k) PROVE Advances(a)
  <2>1. /\ \A u \in Threads : u # t => pc'[u] = pc[u] /\ task'[u] = task[u]
        /\ last' = last /\ pc'[t] = "spawned"
        /\ task'[t].app = b /\ task'[t].kind = k /\ task'[t].run = runs[b] + 1
        /\ runs'[b] = runs[b] + 1 /\ (b # a => runs'[a] = runs[a])
    BY <1>3 DEF StartJob, Launch, TypeOK
  <2>2. /\ job'[b][k].run = runs[b] + 1
        /\ ~(b = a /\ k = "upgrade") => job'[a]["upgrade"] = job[a]["upgrade"]
    BY <1>3, RecordTypes DEF StartJob, Launch, TypeOK
  <2>3. \A u \in Threads : u # t => (Holds(u)' <=> Holds(u))
    BY <2>1 DEF Holds, RouteOf
  <2>4. CASE b = a /\ k = "upgrade"
    <3>1. ~lock[a]
      BY <1>3, <2>4 DEF StartJob, Launch, Guarded
    <3> QED
      BY <1>a, <2>1, <2>2, <2>4, <3>1, StartOrders
  <2>5. CASE b = a /\ k # "upgrade"
    <3>1. ~Holds(t)'
      BY <2>1, <2>5, LockedAssumption DEF Holds, RouteOf, ManualPcs
    <3>2. runs[a] <= runs'[a]
      BY <1>a, <2>1, <2>5
    <3> QED
      BY <1>a, <2>1, <2>2, <2>3, <2>5, <3>1, <3>2, StoresNothing
  <2>6. CASE b # a
    <3>1. runs[a] <= runs'[a]
      BY <1>a, <2>1, <2>6
    <3> QED
      BY <1>a, <2>1, <2>2, <2>3, <2>6, <3>1, StoresNothing
  <2> QED
    BY <2>4, <2>5, <2>6
<1>4. ASSUME NEW t \in Threads, NEW b \in Apps, NEW k \in DOMAIN Routes[b],
             CheckJob(t, b, k) PROVE FALSE
  BY <1>4 DEF CheckJob
<1>5. ASSUME NEW b \in Apps, NEW k \in DOMAIN Routes[b], HandlerRaises(b, k)
      PROVE  Advances(a)
  <2>1. pc' = pc /\ task' = task /\ last' = last /\ runs' = runs
    BY <1>5 DEF HandlerRaises
  <2>2. job'[a]["upgrade"].run = job[a]["upgrade"].run
    <3> DEFINE r == [running |-> TRUE, success |-> "none", run |-> job[b][k].run]
               j == [job EXCEPT ![b] = [job[b] EXCEPT ![k] = r]]
    <3>1. job' = job \/ job' = j
      BY <1>5 DEF HandlerRaises
    <3>2. CASE job' = j
      <4>1. r.run = job[b][k].run
        OBVIOUS
      <4> HIDE DEF r
      <4> QED
        BY <3>2, <4>1, RecordTypes DEF TypeOK
    <3> QED
      BY <3>1, <3>2
  <2>3. \A u \in Threads : Holds(u)' <=> Holds(u)
    BY <2>1 DEF Holds, RouteOf
  <2> QED
    BY <1>a, <2>1, <2>2, <2>3, StoresNothing
<1>6. ASSUME UNCHANGED <<job, pc, task, last, runs>> PROVE Advances(a)
  <2>1. \A u \in Threads : Holds(u)' <=> Holds(u)
    BY <1>6 DEF Holds, RouteOf
  <2> QED
    BY <1>a, <1>6, <2>1, StoresNothing
<1>7. CASE Restart
  <2>1. last' = last /\ runs' = runs /\ \A u \in Threads : ~Holds(u)'
    BY <1>7 DEF Restart, Holds, ManualPcs
  <2> QED
    BY <1>a, <2>1, StoresNothing
<1> QED
  BY <1>1, <1>2, <1>3, <1>4, <1>5, <1>6, <1>7 DEF Next, DetectVersions, vars

\* Where the lock guards the upgrades of an application and handlers are not
\* interrupted, neither the stored status nor the stored log is ever replaced by
\* that of an older run, and a log is only stored beside the status of its own
\* run.  A restart or a commit that raises in between leaves the older log.
THEOREM RecordsAdvanceHolds == Spec => RecordsAdvance
<1> DEFINE J == Cooperative => NoSwitch /\ \A a \in Apps : Guarded(a) => Ordered(a)
<1>1. Init => J
  <2> SUFFICES ASSUME Init PROVE NoSwitch /\ \A a \in Apps : Guarded(a) => Ordered(a)
    OBVIOUS
  <2>1. NoSwitch /\ \A t \in Threads : ~Holds(t)
    BY DEF Init, NoSwitch, Holds, ManualPcs
  <2>2. ASSUME NEW a \in Apps, Guarded(a)
        PROVE  last[a]["upgrade"] = NoRecord /\ runs[a] = 0
    BY <2>2 DEF Init, Guarded
  <2> QED
    BY <2>1, <2>2 DEF Ordered, NoRecord
<1>2. IInv /\ J /\ [Next]_vars =>
          J' /\ (Cooperative => \A a \in Apps : Guarded(a) => RecordAdvances(a))
  <2> SUFFICES ASSUME IInv, J, [Next]_vars, Cooperative
               PROVE  J' /\ \A a \in Apps : Guarded(a) => RecordAdvances(a)
    BY DEF Next, vars, Cooperative
  <2>1. NoSwitch'
    BY NextNoSwitch DEF IInv
  <2>2. ASSUME NEW a \in Apps, Guarded(a) PROVE Advances(a)
    BY <2>2, NextOrdered
  <2> QED
    BY <2>1, <2>2 DEF Advances, Guarded
<1> QED
  BY <1>1, <1>2, IInvHolds, PTL DEF Spec, RecordsAdvance
=============================================================================
