-------------------------- MODULE UpdateJobsProofs --------------------------
(***************************************************************************)
(* That the update jobs of guests and of hosts stay out of each other's    *)
(* way and account for what they did, for any guests, hosts and threads.   *)
(*                                                                         *)
(* Each part's invariant is proved about the instance in which the most    *)
(* can happen, the one whose database may raise; the other instances' next *)
(* states are among its own, but for `apply_all_updates' under gevent.     *)
(***************************************************************************)
EXTENDS MCUpdateJobs, FiniteSetTheorems, TLAPS

\* The modules of guests and hosts mean one and the same Cardinality.
LEMMA SameSize ==
    \A S : /\ Guest!Cardinality(S) = Cardinality(S) /\ FaultyGuest!Cardinality(S) = Cardinality(S)
           /\ Host!Cardinality(S) = Cardinality(S) /\ FaultyHost!Cardinality(S) = Cardinality(S)
  BY DEF Cardinality, Guest!Cardinality, FaultyGuest!Cardinality, Host!Cardinality,
         FaultyHost!Cardinality

\* A function takes at most as many values as it has arguments.
LEMMA FewValues ==
    ASSUME NEW S, IsFiniteSet(S), NEW f, DOMAIN f = S
    PROVE  /\ IsFiniteSet({f[x] : x \in S})
           /\ Cardinality({f[x] : x \in S}) <= Cardinality(S)
<1> DEFINE T == {f[x] : x \in S}
           k == [x \in S |-> f[x]]
<1>1. k \in Surjection(S, T)
  BY DEF Surjection
<1> QED
  BY <1>1, FS_Surjection

\* An element that was not in a part of a finite set and is now adds one to it.
LEMMA OneSettled ==
    ASSUME NEW S, IsFiniteSet(S), NEW A \in SUBSET S, NEW B \in SUBSET S, NEW x \in S,
           x \notin A, x \in B, \A y \in S \ {x} : y \in A <=> y \in B
    PROVE  Cardinality(B) = Cardinality(A) + 1
<1>1. IsFiniteSet(A)
  BY FS_Subset
<1>2. B = A \cup {x}
  OBVIOUS
<1> QED
  BY <1>1, <1>2, FS_AddElement

LEMMA NoneSettled ==
    ASSUME NEW S, NEW Done, NEW i, \A y \in S : i[y] \notin Done
    PROVE  Cardinality({y \in S : i[y] \in Done}) = 0
<1>1. {y \in S : i[y] \in Done} = {}
  OBVIOUS
<1> QED
  BY <1>1, FS_EmptySet

----------------------------------------------------------------------------
(* Guests. *)

\* The program counters at which a thread has a guest in hand.
Busy == FaultyGuest!AtWork \cup {"gate", "closing"}

JobRecords == [running: BOOLEAN, success: FaultyGuest!Outcomes, cancel: BOOLEAN, cancelled: BOOLEAN]

ThreadRecords ==
    [pc: FaultyGuest!Counters, g: Guests \cup {"none"}, job: 0..MaxJobs, agent: BOOLEAN,
     todo: SUBSET Guests]

BulkRecords == [running: BOOLEAN, done: Nat, items: [Guests -> FaultyGuest!ItemStates]]

GuestTyped ==
    /\ jobs \in [1..MaxJobs -> JobRecords]
    /\ slot \in [Guests -> 0..MaxJobs]
    /\ bulk \in BulkRecords
    /\ thr \in [Threads -> ThreadRecords]

\* A thread that has a guest in hand knows which; a single update is never in
\* the orchestrator's loop.
GuestInHand ==
    /\ \A t \in Threads : thr[t].pc \in Busy => thr[t].g \in Guests
    /\ \A t \in Requests : /\ thr[t].pc = "reserved" => thr[t].g \in Guests
                           /\ thr[t].pc \notin {"loop", "gate"}

\* What an orchestrator's items say of its list and of the guest in its hand.
GuestItems ==
    \A t \in Bulks : thr[t].pc # "idle" => \A g \in Guests :
        /\ bulk.items[g] = "pending" <=> g \in thr[t].todo
        /\ bulk.items[g] = "running" <=> g = thr[t].g /\ thr[t].pc \in Busy

GuestCounted == bulk.done = Cardinality({g \in Guests : bulk.items[g] \in FaultyGuest!Settled})

GuestInv == GuestTyped /\ GuestInHand /\ FaultyGuest!BulkExclusive /\ GuestItems /\ GuestCounted

\* Without database faults a bulk update that ended has settled its guests.
GuestEnded ==
    ~bulk.running => \A g \in Guests : bulk.items[g] \in FaultyGuest!Settled \cup {"absent"}

\* There is always a job object that nobody refers to.
LEMMA JobToSpare ==
    ASSUME GuestTyped, NEW G \in SUBSET Guests
    PROVE  \E j \in 1..MaxJobs : j \notin {slot[h] : h \in G} \cup {thr[t].job : t \in Threads}
<1> DEFINE A == {slot[h] : h \in G}
           B == {thr[t].job : t \in Threads}
           a == [h \in G |-> slot[h]]
           b == [t \in Threads |-> thr[t].job]
<1>1. IsFiniteSet(G) /\ Cardinality(G) <= Cardinality(Guests) /\ IsFiniteSet(Threads)
      /\ Cardinality(Guests) \in Nat /\ Cardinality(G) \in Nat /\ Cardinality(Threads) \in Nat
  BY FS_Subset, FS_Union, FS_CardinalityType, UpdateJobsAssumption DEF Threads
<1>2. A = {a[h] : h \in G} /\ B = {b[t] : t \in Threads}
  OBVIOUS
<1>3. IsFiniteSet(A) /\ Cardinality(A) <= Cardinality(G)
  <2>1. DOMAIN a = G
    OBVIOUS
  <2> HIDE DEF a
  <2>2. IsFiniteSet({a[h] : h \in G}) /\ Cardinality({a[h] : h \in G}) <= Cardinality(G)
    BY <1>1, <2>1, FewValues
  <2> QED
    BY <2>2, <1>2
<1>4. IsFiniteSet(B) /\ Cardinality(B) <= Cardinality(Threads)
  <2>1. DOMAIN b = Threads
    OBVIOUS
  <2> HIDE DEF b
  <2>2. IsFiniteSet({b[t] : t \in Threads}) /\ Cardinality({b[t] : t \in Threads}) <= Cardinality(Threads)
    BY <1>1, <2>1, FewValues
  <2> QED
    BY <2>2, <1>2
<1> HIDE DEF A, B
<1>5. IsFiniteSet(A \cup B) /\ IsFiniteSet(A \cap B)
      /\ Cardinality(A \cup B) = Cardinality(A) + Cardinality(B) - Cardinality(A \cap B)
  BY <1>3, <1>4, FS_Union, FS_Subset
<1>6. Cardinality(A) \in Nat /\ Cardinality(B) \in Nat /\ Cardinality(A \cap B) \in Nat
  BY <1>3, <1>4, <1>5, FS_CardinalityType
<1>7. Cardinality(A \cup B) <= Cardinality(Guests) + Cardinality(Threads)
  BY <1>1, <1>3, <1>4, <1>5, <1>6
<1>8. MaxJobs \in Nat /\ MaxJobs > Cardinality(Guests) + Cardinality(Threads)
  BY UpdateJobsAssumption DEF Threads
<1>9. IsFiniteSet(1..MaxJobs) /\ Cardinality(1..MaxJobs) = MaxJobs
  BY <1>8, <1>1, FS_Interval
<1>10. ~(1..MaxJobs \subseteq A \cup B)
  <2> SUFFICES ASSUME 1..MaxJobs \subseteq A \cup B
               PROVE  FALSE
    OBVIOUS
  <2>1. Cardinality(1..MaxJobs) <= Cardinality(A \cup B)
    BY <1>5, FS_Subset
  <2>2. Cardinality(A \cup B) \in Nat
    BY <1>5, FS_CardinalityType
  <2> QED
    BY <2>1, <2>2, <1>1, <1>7, <1>8, <1>9
<1> QED
  BY <1>10 DEF A, B

\* What a reservation does: the guest's slot holds a new job, which no other
\* guest's slot and no thread refers to; the jobs they refer to are as before.
LEMMA ReserveFresh ==
    ASSUME GuestTyped, NEW g \in Guests, FaultyGuest!Reserve(g)
    PROVE  /\ jobs' \in [1..MaxJobs -> JobRecords] /\ slot' \in [Guests -> 0..MaxJobs]
           /\ slot'[g] \in 1..MaxJobs /\ jobs'[slot'[g]].running
           /\ \A h \in Guests \ {g} : /\ slot'[h] = slot[h] /\ slot[h] # slot'[g]
                                      /\ slot[h] # 0 => jobs'[slot[h]] = jobs[slot[h]]
<1> DEFINE others == {slot[h] : h \in Guests \ {g}} \cup {thr[t].job : t \in Threads}
           new == CHOOSE j \in 1..MaxJobs : j \notin others
<1>1. /\ jobs' = [j \in 1..MaxJobs |-> IF j = new THEN FaultyGuest!NewJob
                                       ELSE IF j \in others THEN jobs[j] ELSE FaultyGuest!Collected]
      /\ slot' = [slot EXCEPT ![g] = new]
  BY DEF FaultyGuest!Reserve, FaultyGuest!JobIds, Threads, FaultyGuest!Threads
<1>2. \E j \in 1..MaxJobs : j \notin others
  BY JobToSpare
<1>3. new \in 1..MaxJobs /\ new \notin others
  BY <1>2
<1>4. \A h \in Guests \ {g} : slot[h] \in others
  OBVIOUS
<1> HIDE DEF others, new
<1>5. /\ FaultyGuest!NewJob \in JobRecords /\ FaultyGuest!Collected \in JobRecords
      /\ FaultyGuest!NewJob.running
  BY DEF FaultyGuest!NewJob, FaultyGuest!Collected, JobRecords, FaultyGuest!Outcomes
<1>6. MaxJobs \in Nat
  BY UpdateJobsAssumption
<1> HIDE DEF JobRecords
<1>7. jobs' \in [1..MaxJobs -> JobRecords]
  BY <1>1, <1>5 DEF GuestTyped
<1>8. slot' \in [Guests -> 0..MaxJobs] /\ slot'[g] = new /\ \A h \in Guests \ {g} : slot'[h] = slot[h]
  BY <1>1, <1>3, <1>6 DEF GuestTyped
<1>9. jobs'[new].running
  BY <1>1, <1>3, <1>5
<1>10. \A h \in Guests \ {g} : slot[h] # 0 => jobs'[slot[h]] = jobs[slot[h]]
  <2> SUFFICES ASSUME NEW h \in Guests \ {g}, slot[h] # 0
               PROVE  jobs'[slot[h]] = jobs[slot[h]]
    OBVIOUS
  <2>1. slot[h] \in 1..MaxJobs
    BY <1>6 DEF GuestTyped
  <2>2. slot[h] \in others /\ slot[h] # new
    BY <1>3, <1>4
  <2> QED
    BY <2>1, <2>2, <1>1
<1> QED
  BY <1>3, <1>4, <1>7, <1>8, <1>9, <1>10

\* The next states of the guests that keep the types, for thread t alone.
OnlyThread(t) ==
    /\ thr' \in [Threads -> ThreadRecords]
    /\ \A u \in Threads \ {t} : thr'[u] = thr[u]

LEMMA Replaced ==
    ASSUME GuestTyped, NEW t \in Threads, NEW r \in ThreadRecords, thr' = [thr EXCEPT ![t] = r]
    PROVE  OnlyThread(t) /\ thr'[t] = r
<1> HIDE DEF ThreadRecords
<1> QED
  BY DEF GuestTyped, OnlyThread

LEMMA Moved ==
    ASSUME GuestTyped, NEW t \in Threads, NEW c \in FaultyGuest!Counters, FaultyGuest!Goto(t, c)
    PROVE  /\ OnlyThread(t) /\ thr'[t].pc = c /\ thr'[t].g = thr[t].g /\ thr'[t].todo = thr[t].todo
           /\ thr'[t].job = thr[t].job
<1> DEFINE r == [thr[t] EXCEPT !.pc = c]
<1>1. thr[t] \in ThreadRecords
  BY DEF GuestTyped
<1>2. /\ r \in ThreadRecords /\ r.pc = c /\ r.g = thr[t].g /\ r.todo = thr[t].todo
      /\ r.job = thr[t].job
  BY <1>1 DEF ThreadRecords
<1>3. thr' = [thr EXCEPT ![t] = r]
  BY DEF FaultyGuest!Goto
<1> HIDE DEF r
<1> QED
  BY <1>2, <1>3, Replaced

\* The worker finds its job, and moves on.
FindsJob(t, j, c) == thr' = [thr EXCEPT ![t].job = j, ![t].pc = c]
FindsJobAndAgent(t, j, c) == thr' = [thr EXCEPT ![t].job = j, ![t].pc = c, ![t].agent = TRUE]

LEMMA JobFound ==
    ASSUME GuestTyped, NEW t \in Threads, NEW j \in 0..MaxJobs, NEW c \in FaultyGuest!Counters,
           FindsJob(t, j, c) \/ FindsJobAndAgent(t, j, c)
    PROVE  /\ OnlyThread(t) /\ thr'[t].pc = c /\ thr'[t].g = thr[t].g /\ thr'[t].todo = thr[t].todo
           /\ thr'[t].job = j
<1> DEFINE r == [[thr[t] EXCEPT !.job = j] EXCEPT !.pc = c]
           k == [r EXCEPT !.agent = TRUE]
<1>1. thr[t] \in ThreadRecords
  BY DEF GuestTyped
<1>2. r \in ThreadRecords /\ r.pc = c /\ r.g = thr[t].g /\ r.todo = thr[t].todo /\ r.job = j
  BY <1>1 DEF ThreadRecords
<1>3. k \in ThreadRecords /\ k.pc = c /\ k.g = thr[t].g /\ k.todo = thr[t].todo /\ k.job = j
  <2> HIDE DEF r
  <2> QED
    BY <1>2 DEF ThreadRecords
<1>4. thr' = [thr EXCEPT ![t] = r] \/ thr' = [thr EXCEPT ![t] = k]
  BY DEF GuestTyped, FindsJob, FindsJobAndAgent
<1> HIDE DEF r, k
<1> QED
  BY <1>2, <1>3, <1>4, Replaced

LEMMA IdleTyped == FaultyGuest!Idle \in ThreadRecords /\ FaultyGuest!Idle.pc = "idle"
<1>1. MaxJobs \in Nat
  BY UpdateJobsAssumption
<1> QED
  BY <1>1 DEF FaultyGuest!Idle, FaultyGuest!NoGuest, FaultyGuest!Counters, ThreadRecords

LEMMA Rested ==
    ASSUME GuestTyped, NEW t \in Threads, thr' = [thr EXCEPT ![t] = FaultyGuest!Idle]
    PROVE  OnlyThread(t) /\ thr'[t] = FaultyGuest!Idle /\ thr'[t].pc = "idle"
<1> QED
  BY IdleTyped DEF GuestTyped, OnlyThread

LEMMA FinishedTyped ==
    ASSUME GuestTyped, NEW j, NEW ok \in BOOLEAN,
           jobs' = [jobs EXCEPT ![j] = FaultyGuest!Finished(@, ok)]
    PROVE  /\ jobs' \in [1..MaxJobs -> JobRecords]
           /\ \A k \in 1..MaxJobs : k # j => jobs'[k] = jobs[k]
<1>1. ASSUME NEW r \in JobRecords
      PROVE  FaultyGuest!Finished(r, ok) \in JobRecords
  BY DEF JobRecords, FaultyGuest!Finished, FaultyGuest!Outcomes
<1> HIDE DEF JobRecords
<1>2. \A k \in 1..MaxJobs : jobs'[k] = IF k = j THEN FaultyGuest!Finished(jobs[k], ok) ELSE jobs[k]
  BY DEF GuestTyped
<1>3. DOMAIN jobs' = 1..MaxJobs /\ jobs' = [k \in 1..MaxJobs |-> jobs'[k]]
  BY DEF GuestTyped
<1>4. \A k \in 1..MaxJobs : jobs'[k] \in JobRecords
  BY <1>1, <1>2 DEF GuestTyped
<1> QED
  BY <1>2, <1>3, <1>4

\* The job a worker of _run_update_background writes to.
Held(t) == IF thr[t].pc = "begin" THEN slot[thr[t].g] ELSE thr[t].job

WorkStep(t) ==
    \/ FaultyGuest!Begin(t) \/ FaultyGuest!BeginRaises(t) \/ FaultyGuest!Lists(t)
    \/ FaultyGuest!Upgrade(t) \/ FaultyGuest!SshRaises(t) \/ FaultyGuest!Record(t)
    \/ FaultyGuest!RecordRaises(t) \/ FaultyGuest!Notify(t)

\* A step of _run_update_background: a worker stays on its guest, or ends its
\* own job and leaves.
Works(t) ==
    /\ thr[t].pc \in FaultyGuest!AtWork
    /\ UNCHANGED <<slot, bulk>>
    /\ jobs' \in [1..MaxJobs -> JobRecords]
    /\ OnlyThread(t)
    /\ thr'[t].g = thr[t].g /\ thr'[t].todo = thr[t].todo
    /\ thr'[t].pc \in (FaultyGuest!AtWork \ {"begin"}) \cup {"closing"}
    /\ \A j \in 1..MaxJobs : j # Held(t) => jobs'[j] = jobs[j]
    /\ thr'[t].pc \in FaultyGuest!AtWork => jobs' = jobs /\ thr'[t].job = Held(t)

LEMMA FinishWorks ==
    ASSUME GuestTyped, NEW t \in Threads, NEW ok \in BOOLEAN, FaultyGuest!Finish(t, ok),
           thr[t].pc \in FaultyGuest!AtWork \ {"begin"}
    PROVE  Works(t)
<1>1. OnlyThread(t) /\ thr'[t].pc = "closing" /\ thr'[t].g = thr[t].g /\ thr'[t].todo = thr[t].todo
  <2>1. "closing" \in FaultyGuest!Counters
    BY DEF FaultyGuest!Counters
  <2> QED
    BY <2>1, Moved DEF FaultyGuest!Finish
<1>2. /\ jobs' \in [1..MaxJobs -> JobRecords]
      /\ \A k \in 1..MaxJobs : k # thr[t].job => jobs'[k] = jobs[k]
  BY FinishedTyped DEF FaultyGuest!Finish
<1>3. thr'[t].pc \notin FaultyGuest!AtWork
  BY <1>1 DEF FaultyGuest!AtWork
<1>4. Held(t) = thr[t].job
  BY DEF Held
<1> QED
  BY <1>1, <1>2, <1>3, <1>4, Zenon DEF Works, FaultyGuest!Finish

LEMMA GotoWorks ==
    ASSUME GuestTyped, NEW t \in Threads, NEW c \in FaultyGuest!AtWork \ {"begin"},
           FaultyGuest!Goto(t, c), UNCHANGED <<jobs, slot, bulk>>,
           thr[t].pc \in FaultyGuest!AtWork \ {"begin"}
    PROVE  Works(t)
<1>1. /\ OnlyThread(t) /\ thr'[t].pc = c /\ thr'[t].g = thr[t].g /\ thr'[t].todo = thr[t].todo
      /\ thr'[t].job = thr[t].job
  <2>1. c \in FaultyGuest!Counters
    BY DEF FaultyGuest!Counters
  <2> QED
    BY <2>1, Moved
<1>4. Held(t) = thr[t].job
  BY DEF Held
<1> QED
  BY <1>1, <1>4, Zenon DEF Works, GuestTyped

LEMMA BeginWorks ==
    ASSUME GuestTyped, GuestInHand, NEW t \in Threads, FaultyGuest!Begin(t)
    PROVE  Works(t)
<1> DEFINE j == slot[thr[t].g]
<1>1. thr[t].pc = "begin" /\ thr[t].pc \in FaultyGuest!AtWork /\ thr[t].g \in Guests
      /\ UNCHANGED <<slot, bulk>>
  BY DEF FaultyGuest!Begin, FaultyGuest!AtWork, GuestInHand, Busy
<1>2. Held(t) = j /\ j \in 0..MaxJobs
  BY <1>1 DEF Held, GuestTyped
<1> HIDE DEF j
<1>c. /\ {"closing", "lists", "agent"} \subseteq FaultyGuest!Counters
      /\ {"lists", "agent"} \subseteq FaultyGuest!AtWork \ {"begin"}
      /\ "closing" \notin FaultyGuest!AtWork
  BY DEF FaultyGuest!Counters, FaultyGuest!AtWork
<1>3. CASE /\ jobs' = [jobs EXCEPT ![j] = FaultyGuest!Finished(@, FALSE)]
           /\ thr' = [thr EXCEPT ![t].job = j, ![t].pc = "closing"]
  <2>1. /\ OnlyThread(t) /\ thr'[t].pc = "closing" /\ thr'[t].g = thr[t].g /\ thr'[t].todo = thr[t].todo
        /\ "closing" \notin FaultyGuest!AtWork
    <3>1. FindsJob(t, j, "closing")
      BY <1>3 DEF FindsJob
    <3> QED
      BY <3>1, <1>2, <1>c, JobFound
  <2>2. /\ jobs' \in [1..MaxJobs -> JobRecords]
        /\ \A k \in 1..MaxJobs : k # j => jobs'[k] = jobs[k]
    BY <1>3, FinishedTyped
  <2> QED
    BY <1>1, <1>2, <2>1, <2>2, Zenon DEF Works
<1>4. CASE thr' = [thr EXCEPT ![t].job = j, ![t].pc = "lists"] /\ UNCHANGED jobs
  <2>1. /\ OnlyThread(t) /\ thr'[t].pc = "lists" /\ thr'[t].g = thr[t].g /\ thr'[t].todo = thr[t].todo
        /\ thr'[t].job = j /\ "lists" \in FaultyGuest!AtWork \ {"begin"}
    <3>1. FindsJob(t, j, "lists")
      BY <1>4 DEF FindsJob
    <3> QED
      BY <3>1, <1>2, <1>c, JobFound
  <2> QED
    BY <1>1, <1>2, <1>4, <2>1, Zenon DEF Works, GuestTyped
<1>5. CASE thr' = [thr EXCEPT ![t].job = j, ![t].pc = "agent", ![t].agent = TRUE] /\ UNCHANGED jobs
  <2>1. /\ OnlyThread(t) /\ thr'[t].pc = "agent" /\ thr'[t].g = thr[t].g /\ thr'[t].todo = thr[t].todo
        /\ thr'[t].job = j /\ "agent" \in FaultyGuest!AtWork \ {"begin"}
    <3>1. FindsJobAndAgent(t, j, "agent")
      BY <1>5 DEF FindsJobAndAgent
    <3> QED
      BY <3>1, <1>2, <1>c, JobFound
  <2> QED
    BY <1>1, <1>2, <1>5, <2>1, Zenon DEF Works, GuestTyped
<1> QED
  BY <1>3, <1>4, <1>5 DEF FaultyGuest!Begin, j

LEMMA WorkWorks ==
    ASSUME GuestTyped, GuestInHand, NEW t \in Threads, WorkStep(t)
    PROVE  Works(t)
<1>0. {"lists", "upgrade", "agent", "record", "notify"} \subseteq FaultyGuest!AtWork \ {"begin"}
  BY DEF FaultyGuest!AtWork
<1>1. CASE FaultyGuest!Begin(t)
  BY <1>1, BeginWorks
<1>2. CASE FaultyGuest!BeginRaises(t)
  <2>1. thr[t].pc = "begin" /\ FaultyGuest!Goto(t, "closing") /\ UNCHANGED <<jobs, slot, bulk>>
    BY <1>2 DEF FaultyGuest!BeginRaises
  <2>2. "closing" \in FaultyGuest!Counters \ FaultyGuest!AtWork /\ "begin" \in FaultyGuest!AtWork
    BY DEF FaultyGuest!Counters, FaultyGuest!AtWork
  <2>3. OnlyThread(t) /\ thr'[t].pc = "closing" /\ thr'[t].g = thr[t].g /\ thr'[t].todo = thr[t].todo
    BY <2>1, <2>2, Moved
  <2> QED
    BY <2>1, <2>2, <2>3, Zenon DEF Works, GuestTyped
<1>3. CASE FaultyGuest!Lists(t)
  <2>1. thr[t].pc = "lists"
    BY <1>3 DEF FaultyGuest!Lists
  <2>2. CASE FaultyGuest!Finish(t, FALSE)
    BY <2>1, <2>2, <1>0, FinishWorks
  <2>3. CASE FaultyGuest!Goto(t, "upgrade") /\ UNCHANGED <<jobs, slot, bulk>>
    BY <2>1, <2>3, <1>0, GotoWorks
  <2> QED
    BY <1>3, <2>2, <2>3 DEF FaultyGuest!Lists
<1>4. CASE FaultyGuest!Upgrade(t)
  <2>1. thr[t].pc \in {"upgrade", "agent"}
    BY <1>4 DEF FaultyGuest!Upgrade
  <2>2. CASE FaultyGuest!Finish(t, FALSE)
    BY <2>1, <2>2, <1>0, FinishWorks
  <2>3. CASE FaultyGuest!Goto(t, "record") /\ UNCHANGED <<jobs, slot, bulk>>
    BY <2>1, <2>3, <1>0, GotoWorks
  <2> QED
    BY <1>4, <2>2, <2>3 DEF FaultyGuest!Upgrade
<1>5. CASE FaultyGuest!SshRaises(t)
  <2>1. thr[t].pc \in {"lists", "upgrade", "record"} /\ thr[t].pc \in FaultyGuest!AtWork \ {"begin"}
    BY <1>5, <1>0 DEF FaultyGuest!SshRaises
  <2>2. CASE FaultyGuest!Finish(t, FALSE)
    BY <2>1, <2>2, FinishWorks
  <2>3. CASE thr' = [thr EXCEPT ![t].pc = "agent", ![t].agent = TRUE] /\ UNCHANGED <<jobs, slot, bulk>>
    <3>1. /\ OnlyThread(t) /\ thr'[t].pc = "agent" /\ thr'[t].g = thr[t].g /\ thr'[t].todo = thr[t].todo
          /\ thr'[t].job = thr[t].job
      BY <2>3 DEF GuestTyped, ThreadRecords, OnlyThread, FaultyGuest!Counters, FaultyGuest!AtWork
    <3>2. Held(t) = thr[t].job
      BY <2>1 DEF Held
    <3> QED
      BY <1>0, <2>1, <2>3, <3>1, <3>2, Zenon DEF Works, GuestTyped
  <2> QED
    BY <1>5, <2>2, <2>3 DEF FaultyGuest!SshRaises
<1>6. CASE FaultyGuest!Record(t)
  <2>1. thr[t].pc = "record" /\ FaultyGuest!Goto(t, "notify") /\ UNCHANGED <<jobs, slot, bulk>>
    BY <1>6 DEF FaultyGuest!Record
  <2> QED
    BY <2>1, <1>0, GotoWorks
<1>7. CASE FaultyGuest!RecordRaises(t)
  <2>1. thr[t].pc = "record" /\ FaultyGuest!Finish(t, FALSE)
    BY <1>7 DEF FaultyGuest!RecordRaises
  <2> QED
    BY <2>1, <1>0, FinishWorks
<1>8. CASE FaultyGuest!Notify(t)
  <2>1. thr[t].pc = "notify" /\ FaultyGuest!Finish(t, TRUE)
    BY <1>8 DEF FaultyGuest!Notify
  <2> QED
    BY <2>1, <1>0, FinishWorks
<1> QED
  BY <1>1, <1>2, <1>3, <1>4, <1>5, <1>6, <1>7, <1>8 DEF WorkStep

\* A step of one thread that leaves the bulk record alone, and its own place
\* in the orchestrator's loop.
LEMMA CalmKeeps ==
    ASSUME GuestInv, NEW t \in Threads, OnlyThread(t), UNCHANGED bulk,
           jobs' \in [1..MaxJobs -> JobRecords], slot' \in [Guests -> 0..MaxJobs],
           thr'[t].pc \in Busy => thr'[t].g \in Guests,
           t \in Requests => /\ thr'[t].pc = "reserved" => thr'[t].g \in Guests
                             /\ thr'[t].pc \notin {"loop", "gate"},
           t \in Bulks => \/ thr'[t].pc = "idle"
                          \/ /\ thr[t].pc # "idle" /\ thr'[t].todo = thr[t].todo
                             /\ thr'[t].pc \in Busy <=> thr[t].pc \in Busy
                             /\ thr[t].pc \in Busy => thr'[t].g = thr[t].g
    PROVE  GuestInv'
<1>1. GuestTyped'
  BY DEF GuestInv, GuestTyped, OnlyThread
<1>2. GuestInHand'
  BY DEF GuestInv, GuestInHand, OnlyThread, Threads
<1>3. \A u \in Bulks : thr'[u].pc # "idle" => thr[u].pc # "idle"
  BY DEF OnlyThread, Threads
<1>4. FaultyGuest!BulkExclusive'
  BY <1>3 DEF GuestInv, FaultyGuest!BulkExclusive
<1>5. GuestItems'
  <2> SUFFICES ASSUME NEW u \in Bulks, thr'[u].pc # "idle", NEW g \in Guests
               PROVE  /\ bulk.items[g] = "pending" <=> g \in thr'[u].todo
                      /\ bulk.items[g] = "running" <=> g = thr'[u].g /\ thr'[u].pc \in Busy
    BY DEF GuestItems
  <2>1. /\ bulk.items[g] = "pending" <=> g \in thr[u].todo
        /\ bulk.items[g] = "running" <=> g = thr[u].g /\ thr[u].pc \in Busy
    BY <1>3 DEF GuestInv, GuestItems
  <2>2. CASE u # t
    BY <2>1, <2>2 DEF OnlyThread, Threads
  <2>3. CASE u = t
    BY <2>1, <2>3
  <2> QED
    BY <2>2, <2>3
<1>6. GuestCounted'
  BY DEF GuestInv, GuestCounted
<1> QED
  BY <1>1, <1>2, <1>4, <1>5, <1>6 DEF GuestInv

\* A step of the one orchestrator there is.
LEMMA BulkKeeps ==
    ASSUME GuestInv, NEW t \in Bulks, OnlyThread(t), \A u \in Bulks \ {t} : thr[u].pc = "idle",
           jobs' \in [1..MaxJobs -> JobRecords], slot' \in [Guests -> 0..MaxJobs],
           bulk' \in BulkRecords,
           thr'[t].pc \in Busy => thr'[t].g \in Guests,
           thr'[t].pc # "idle" => bulk'.running,
           thr'[t].pc # "idle" => \A g \in Guests :
               /\ bulk'.items[g] = "pending" <=> g \in thr'[t].todo
               /\ bulk'.items[g] = "running" <=> g = thr'[t].g /\ thr'[t].pc \in Busy,
           GuestCounted'
    PROVE  GuestInv'
<1>1. GuestTyped'
  BY DEF GuestInv, GuestTyped, OnlyThread
<1>2. GuestInHand'
  BY UpdateJobsAssumption DEF GuestInv, GuestInHand, OnlyThread, Threads
<1>3. \A u \in Bulks : thr'[u].pc # "idle" => u = t
  BY DEF OnlyThread, Threads
<1>4. FaultyGuest!BulkExclusive'
  BY <1>3 DEF FaultyGuest!BulkExclusive
<1>5. GuestItems'
  BY <1>3 DEF GuestItems
<1> QED
  BY <1>1, <1>2, <1>4, <1>5 DEF GuestInv

LEMMA BusyPlaces ==
    /\ FaultyGuest!AtWork \cup {"gate", "closing"} = Busy
    /\ Busy \cap {"idle", "reserved", "loop"} = {} /\ FaultyGuest!AtWork \cap {"gate", "closing"} = {}
    /\ Busy \cup {"idle", "reserved", "loop"} = FaultyGuest!Counters /\ "begin" \in FaultyGuest!AtWork
  BY DEF Busy, FaultyGuest!AtWork, FaultyGuest!Counters

LEMMA WorkKeeps ==
    ASSUME GuestInv, NEW t \in Threads, Works(t)
    PROVE  GuestInv'
<1>1. /\ thr[t].pc \in Busy /\ thr'[t].pc \in Busy
      /\ thr'[t].pc \notin {"reserved", "loop", "gate"} /\ thr[t].pc # "idle"
  BY BusyPlaces, Zenon DEF Works
<1>2. thr[t].g \in Guests
  BY <1>1 DEF GuestInv, GuestInHand
<1>3. slot' \in [Guests -> 0..MaxJobs] /\ bulk' = bulk
  BY DEF Works, GuestInv, GuestTyped
<1> QED
  BY <1>1, <1>2, <1>3, CalmKeeps DEF Works

\* The record of a thread that starts.
LEMMA Started ==
    ASSUME GuestTyped, NEW t \in Threads, NEW g \in Guests,
           thr' = [thr EXCEPT ![t] = [FaultyGuest!Idle EXCEPT !.pc = "reserved", !.g = g]]
    PROVE  OnlyThread(t) /\ thr'[t].pc = "reserved" /\ thr'[t].g = g
<1> DEFINE r == [FaultyGuest!Idle EXCEPT !.pc = "reserved", !.g = g]
<1>2. r \in ThreadRecords /\ r.pc = "reserved" /\ r.g = g
  BY IdleTyped DEF FaultyGuest!Counters, ThreadRecords
<1> HIDE DEF r
<1> QED
  BY <1>2, Replaced DEF r

LEMMA StartedAll ==
    ASSUME GuestTyped, NEW t \in Threads, NEW targets \in SUBSET Guests,
           thr' = [thr EXCEPT ![t] = [FaultyGuest!Idle EXCEPT !.pc = "reserved", !.todo = targets]]
    PROVE  OnlyThread(t) /\ thr'[t].pc = "reserved" /\ thr'[t].todo = targets
<1> DEFINE r == [FaultyGuest!Idle EXCEPT !.pc = "reserved", !.todo = targets]
<1>2. r \in ThreadRecords /\ r.pc = "reserved" /\ r.todo = targets
  BY IdleTyped DEF FaultyGuest!Counters, ThreadRecords
<1> HIDE DEF r
<1> QED
  BY <1>2, Replaced DEF r

LEMMA ApplyKeeps ==
    ASSUME GuestInv, NEW t \in Requests, NEW g \in Guests, FaultyGuest!Apply(t, g)
    PROVE  GuestInv'
<1>1. t \in Threads /\ t \notin Bulks /\ GuestTyped
  BY UpdateJobsAssumption DEF Threads, GuestInv
<1>2. OnlyThread(t) /\ thr'[t].pc = "reserved" /\ thr'[t].g = g
  BY <1>1, Started DEF FaultyGuest!Apply
<1>3. jobs' \in [1..MaxJobs -> JobRecords] /\ slot' \in [Guests -> 0..MaxJobs] /\ bulk' = bulk
  BY <1>1, ReserveFresh DEF FaultyGuest!Apply
<1>4. thr'[t].pc \notin Busy
  BY <1>2, BusyPlaces
<1> QED
  BY <1>1, <1>2, <1>3, <1>4, CalmKeeps

LEMMA SpawnKeeps ==
    ASSUME GuestInv, NEW t \in Threads, FaultyGuest!Spawn(t)
    PROVE  GuestInv'
<1> DEFINE c == IF t \in Bulks THEN "loop" ELSE "begin"
<1>1. thr[t].pc = "reserved" /\ FaultyGuest!Goto(t, c) /\ UNCHANGED <<jobs, slot, bulk>>
  BY DEF FaultyGuest!Spawn
<1>2. c \in FaultyGuest!Counters /\ "reserved" \notin Busy /\ "loop" \notin Busy
  BY BusyPlaces
<1>3. OnlyThread(t) /\ thr'[t].pc = c /\ thr'[t].g = thr[t].g /\ thr'[t].todo = thr[t].todo
  BY <1>1, <1>2, Moved DEF GuestInv
<1>4. t \in Requests => thr[t].g \in Guests /\ t \notin Bulks
  BY <1>1, UpdateJobsAssumption DEF GuestInv, GuestInHand
<1>5. t \in Requests \/ t \in Bulks
  BY DEF Threads
<1>6. jobs' \in [1..MaxJobs -> JobRecords] /\ slot' \in [Guests -> 0..MaxJobs] /\ bulk' = bulk
  BY <1>1 DEF GuestInv, GuestTyped
<1> QED
  BY <1>1, <1>2, <1>3, <1>4, <1>5, <1>6, CalmKeeps

LEMMA RestKeeps ==
    ASSUME GuestInv, NEW t \in Threads, FaultyGuest!HandlerRaises(t) \/ FaultyGuest!Close(t)
    PROVE  GuestInv'
<1>1. thr' = [thr EXCEPT ![t] = FaultyGuest!Idle] /\ UNCHANGED <<jobs, slot, bulk>>
  BY DEF FaultyGuest!HandlerRaises, FaultyGuest!Close
<1>2. OnlyThread(t) /\ thr'[t].pc = "idle" /\ "idle" \notin Busy
  BY <1>1, Rested, BusyPlaces DEF GuestInv
<1>3. jobs' \in [1..MaxJobs -> JobRecords] /\ slot' \in [Guests -> 0..MaxJobs] /\ bulk' = bulk
  BY <1>1 DEF GuestInv, GuestTyped
<1> QED
  BY <1>2, <1>3, CalmKeeps

LEMMA BulkReserveKeeps ==
    ASSUME GuestInv, NEW t \in Threads, FaultyGuest!BulkReserve(t)
    PROVE  GuestInv'
<1>1. /\ t \in Bulks /\ thr[t].pc = "gate" /\ FaultyGuest!Goto(t, "begin") /\ bulk' = bulk
      /\ FaultyGuest!Reserve(thr[t].g)
  BY DEF FaultyGuest!BulkReserve
<1>2. {"gate", "begin"} \subseteq Busy /\ "begin" \in FaultyGuest!Counters
  BY BusyPlaces, Zenon
<1>3. OnlyThread(t) /\ thr'[t].pc = "begin" /\ thr'[t].g = thr[t].g /\ thr'[t].todo = thr[t].todo
  BY <1>1, <1>2, Moved DEF GuestInv
<1>4. thr[t].g \in Guests /\ GuestTyped
  BY <1>1, <1>2 DEF GuestInv, GuestInHand
<1>5. jobs' \in [1..MaxJobs -> JobRecords] /\ slot' \in [Guests -> 0..MaxJobs]
  BY <1>1, <1>4, ReserveFresh
<1> QED
  BY <1>1, <1>2, <1>3, <1>4, <1>5, CalmKeeps

\* While an orchestrator runs the bulk slot is its own.
LEMMA Alone ==
    ASSUME GuestInv, NEW t \in Bulks, thr[t].pc # "idle"
    PROVE  /\ bulk.running /\ \A u \in Bulks \ {t} : thr[u].pc = "idle"
           /\ \A g \in Guests :
                 /\ bulk.items[g] = "pending" <=> g \in thr[t].todo
                 /\ bulk.items[g] = "running" <=> g = thr[t].g /\ thr[t].pc \in Busy
  BY DEF GuestInv, FaultyGuest!BulkExclusive, GuestItems

LEMMA ApplyAllKeeps ==
    ASSUME GuestInv, NEW t \in Bulks, NEW targets \in SUBSET Guests, FaultyGuest!ApplyAll(t, targets)
    PROVE  GuestInv'
<1> DEFINE items == [g \in Guests |-> IF g \in targets THEN "pending" ELSE "absent"]
<1>1. t \in Threads /\ GuestTyped /\ UNCHANGED <<jobs, slot>> /\ ~bulk.running
  BY DEF Threads, GuestInv, FaultyGuest!ApplyAll
<1>2. OnlyThread(t) /\ thr'[t].pc = "reserved" /\ thr'[t].todo = targets /\ "reserved" \notin Busy
  BY <1>1, StartedAll, BusyPlaces DEF FaultyGuest!ApplyAll
<1>3. bulk' = [running |-> TRUE, done |-> 0, items |-> items]
  BY DEF FaultyGuest!ApplyAll
<1>4. /\ bulk'.running /\ bulk'.done = 0
      /\ bulk' \in BulkRecords
      /\ \A g \in Guests : bulk'.items[g] = IF g \in targets THEN "pending" ELSE "absent"
  BY <1>3 DEF FaultyGuest!ItemStates, BulkRecords
<1>5. \A u \in Bulks \ {t} : thr[u].pc = "idle"
  BY <1>1 DEF GuestInv, FaultyGuest!BulkExclusive
<1>6. GuestCounted'
  <2>1. \A g \in Guests : bulk'.items[g] \notin FaultyGuest!Settled
    BY <1>4 DEF FaultyGuest!Settled
  <2> QED
    BY <2>1, <1>4, NoneSettled DEF GuestCounted
<1>7. jobs' \in [1..MaxJobs -> JobRecords] /\ slot' \in [Guests -> 0..MaxJobs]
  BY <1>1 DEF GuestTyped
<1>8. \A g \in Guests : /\ bulk'.items[g] = "pending" <=> g \in thr'[t].todo
                        /\ bulk'.items[g] # "running" /\ thr'[t].pc \notin Busy
  BY <1>2, <1>4
<1> HIDE DEF items
<1> QED
  BY <1>2, <1>4, <1>5, <1>6, <1>7, <1>8, BulkKeeps

LEMMA BulkTakes ==
    ASSUME GuestInv, NEW t \in Threads, NEW g \in Guests, FaultyGuest!BulkTake(t, g)
    PROVE  OnlyThread(t) /\ thr'[t].pc = "gate" /\ thr'[t].g = g /\ thr'[t].todo = thr[t].todo \ {g}
<1> DEFINE r == [[[thr[t] EXCEPT !.pc = "gate"] EXCEPT !.g = g] EXCEPT !.todo = thr[t].todo \ {g}]
<1>1. thr' = [thr EXCEPT ![t].pc = "gate", ![t].g = g, ![t].todo = @ \ {g}]
  BY DEF FaultyGuest!BulkTake
<1>2. thr[t] \in ThreadRecords
  BY DEF GuestInv, GuestTyped
<1>3. "gate" \in FaultyGuest!Counters
  BY BusyPlaces
<1>4. r \in ThreadRecords /\ r.pc = "gate" /\ r.g = g /\ r.todo = thr[t].todo \ {g}
  BY <1>2, <1>3 DEF ThreadRecords
<1>5. thr' = [thr EXCEPT ![t] = r]
  BY <1>1 DEF GuestInv, GuestTyped
<1> HIDE DEF r
<1> QED
  BY <1>4, <1>5, Replaced DEF GuestInv

LEMMA BulkTakeKeeps ==
    ASSUME GuestInv, NEW t \in Threads, NEW g \in Guests, FaultyGuest!BulkTake(t, g)
    PROVE  GuestInv'
<1>1. /\ t \in Bulks /\ thr[t].pc = "loop" /\ g \in thr[t].todo /\ UNCHANGED <<jobs, slot>>
      /\ bulk' = [bulk EXCEPT !.items[g] = "running"]
  BY DEF FaultyGuest!BulkTake
<1>2. bulk \in BulkRecords
  BY DEF GuestInv, GuestTyped
<1>3. "gate" \in Busy /\ "loop" \notin Busy
  BY BusyPlaces
<1>6. OnlyThread(t) /\ thr'[t].pc = "gate" /\ thr'[t].g = g /\ thr'[t].todo = thr[t].todo \ {g}
  BY BulkTakes
<1>7. /\ bulk' \in BulkRecords /\ bulk'.running = bulk.running /\ bulk'.done = bulk.done
      /\ bulk'.items[g] = "running" /\ \A h \in Guests \ {g} : bulk'.items[h] = bulk.items[h]
  BY <1>1, <1>2 DEF BulkRecords, FaultyGuest!ItemStates
<1>8. /\ bulk.running /\ \A u \in Bulks \ {t} : thr[u].pc = "idle"
      /\ \A h \in Guests : /\ bulk.items[h] = "pending" <=> h \in thr[t].todo
                           /\ bulk.items[h] # "running"
  BY <1>1, <1>3, Alone
<1>9. \A h \in Guests : /\ bulk'.items[h] = "pending" <=> h \in thr'[t].todo
                        /\ bulk'.items[h] = "running" <=> h = thr'[t].g /\ thr'[t].pc \in Busy
  BY <1>3, <1>6, <1>7, <1>8
<1>10. GuestCounted'
  <2>1. \A h \in Guests : bulk'.items[h] \in FaultyGuest!Settled <=> bulk.items[h] \in FaultyGuest!Settled
    BY <1>1, <1>7, <1>8 DEF FaultyGuest!Settled
  <2>2. {h \in Guests : bulk'.items[h] \in FaultyGuest!Settled}
            = {h \in Guests : bulk.items[h] \in FaultyGuest!Settled}
    BY <2>1
  <2> QED
    BY <2>2, <1>7 DEF GuestInv, GuestCounted
<1>11. jobs' \in [1..MaxJobs -> JobRecords] /\ slot' \in [Guests -> 0..MaxJobs]
  BY <1>1 DEF GuestInv, GuestTyped
<1> QED
  BY <1>1, <1>6, <1>7, <1>8, <1>9, <1>10, <1>11, BulkKeeps

\* The orchestrator settles the guest in its hand and goes back to its loop.
LEMMA SettleKeeps ==
    ASSUME GuestInv, NEW t \in Bulks, thr[t].pc \in Busy, NEW s \in FaultyGuest!Settled,
           FaultyGuest!Settle(thr[t].g, s), OnlyThread(t), thr'[t].pc = "loop",
           thr'[t].todo = thr[t].todo,
           jobs' \in [1..MaxJobs -> JobRecords], slot' \in [Guests -> 0..MaxJobs]
    PROVE  GuestInv'
<1> DEFINE g == thr[t].g
<1>1. "loop" \notin Busy /\ thr[t].pc # "idle" /\ thr[t].g \in Guests
  BY BusyPlaces DEF GuestInv, GuestInHand, Threads
<1>2. bulk \in BulkRecords
  BY DEF GuestInv, GuestTyped
<1>3. s \in FaultyGuest!ItemStates /\ s # "pending" /\ s # "running"
  BY DEF FaultyGuest!ItemStates, FaultyGuest!Settled
<1>4. bulk' = [bulk EXCEPT !.items[g] = s, !.done = @ + 1] /\ g \in Guests
  BY <1>1 DEF FaultyGuest!Settle
<1> HIDE DEF g
<1>5. /\ bulk' \in BulkRecords /\ bulk'.running = bulk.running /\ bulk'.done = bulk.done + 1
      /\ bulk'.items[g] = s /\ \A h \in Guests \ {g} : bulk'.items[h] = bulk.items[h]
  <2> DEFINE i == [bulk.items EXCEPT ![g] = s]
             d == bulk.done + 1
             b == [bulk EXCEPT !.items = i]
  <2>1. bulk.items \in [Guests -> FaultyGuest!ItemStates] /\ bulk.done \in Nat
    BY <1>2 DEF BulkRecords
  <2>2. /\ i \in [Guests -> FaultyGuest!ItemStates] /\ d \in Nat /\ i[g] = s
        /\ \A h \in Guests \ {g} : i[h] = bulk.items[h]
    BY <2>1, <1>3, <1>4
  <2>3. bulk' = [b EXCEPT !.done = d]
    BY <1>4
  <2> HIDE DEF i, d
  <2>4. b \in BulkRecords /\ b.running = bulk.running /\ b.items = i
    BY <1>2, <2>2 DEF BulkRecords
  <2> HIDE DEF b
  <2>5. bulk' \in BulkRecords /\ bulk'.running = b.running /\ bulk'.done = d /\ bulk'.items = b.items
    BY <2>2, <2>3, <2>4 DEF BulkRecords
  <2> QED
    BY <2>2, <2>4, <2>5 DEF d
<1>6. /\ bulk.running /\ \A u \in Bulks \ {t} : thr[u].pc = "idle"
      /\ \A h \in Guests : /\ bulk.items[h] = "pending" <=> h \in thr[t].todo
                           /\ bulk.items[h] = "running" <=> h = g
  BY <1>1, Alone DEF g
<1>7. \A h \in Guests : /\ bulk'.items[h] = "pending" <=> h \in thr'[t].todo
                        /\ bulk'.items[h] # "running"
  BY <1>3, <1>4, <1>5, <1>6
<1>8. GuestCounted'
  <2>1. bulk.items[g] \notin FaultyGuest!Settled
    BY <1>4, <1>6 DEF FaultyGuest!Settled
  <2> DEFINE A == {h \in Guests : bulk.items[h] \in FaultyGuest!Settled}
             B == {h \in Guests : bulk'.items[h] \in FaultyGuest!Settled}
  <2>2. /\ A \in SUBSET Guests /\ B \in SUBSET Guests /\ g \in Guests /\ g \notin A /\ g \in B
        /\ \A y \in Guests \ {g} : y \in A <=> y \in B
    BY <2>1, <1>4, <1>5
  <2>3. bulk.done = Cardinality(A) /\ bulk'.done = bulk.done + 1
    BY <1>5 DEF GuestInv, GuestCounted
  <2>4. GuestCounted' = (bulk'.done = Cardinality(B))
    BY DEF GuestCounted
  <2> HIDE DEF A, B
  <2>5. Cardinality(B) = Cardinality(A) + 1
    BY <2>2, OneSettled, UpdateJobsAssumption
  <2> QED
    BY <2>3, <2>4, <2>5
<1> QED
  BY <1>1, <1>5, <1>6, <1>7, <1>8, BulkKeeps

LEMMA BulkSkipKeeps ==
    ASSUME GuestInv, NEW t \in Threads, FaultyGuest!BulkSkip(t)
    PROVE  GuestInv'
<1>1. /\ t \in Bulks /\ thr[t].pc = "gate" /\ FaultyGuest!Settle(thr[t].g, "skipped")
      /\ FaultyGuest!Goto(t, "loop") /\ UNCHANGED <<jobs, slot>>
  BY DEF FaultyGuest!BulkSkip
<1>2. "loop" \in FaultyGuest!Counters /\ "gate" \in Busy /\ "skipped" \in FaultyGuest!Settled
  BY BusyPlaces DEF FaultyGuest!Settled
<1>3. OnlyThread(t) /\ thr'[t].pc = "loop" /\ thr'[t].todo = thr[t].todo
  BY <1>1, <1>2, Moved DEF GuestInv
<1>4. jobs' \in [1..MaxJobs -> JobRecords] /\ slot' \in [Guests -> 0..MaxJobs]
  BY <1>1 DEF GuestInv, GuestTyped
<1> QED
  BY <1>1, <1>2, <1>3, <1>4, SettleKeeps

LEMMA Collects ==
    ASSUME GuestInv, NEW t \in Threads, FaultyGuest!Collect(t)
    PROVE  OnlyThread(t) /\ thr'[t].pc = "loop" /\ thr'[t].todo = thr[t].todo
<1> DEFINE q == [[thr[t] EXCEPT !.pc = "loop"] EXCEPT !.job = 0]
           r == [q EXCEPT !.agent = FALSE]
<1>1. thr' = [thr EXCEPT ![t].pc = "loop", ![t].job = 0, ![t].agent = FALSE]
  BY DEF FaultyGuest!Collect
<1>2. "loop" \in FaultyGuest!Counters
  BY BusyPlaces
<1>3. thr[t] \in ThreadRecords /\ 0 \in 0..MaxJobs
  BY UpdateJobsAssumption DEF GuestInv, GuestTyped
<1>4. r \in ThreadRecords /\ r.pc = "loop" /\ r.todo = thr[t].todo
  <2>1. q \in ThreadRecords /\ q.pc = "loop" /\ q.todo = thr[t].todo
    BY <1>2, <1>3 DEF ThreadRecords
  <2> HIDE DEF q
  <2> QED
    BY <2>1 DEF ThreadRecords
<1>5. thr' = [thr EXCEPT ![t] = r]
  BY <1>1 DEF GuestInv, GuestTyped
<1> HIDE DEF r, q
<1> QED
  BY <1>4, <1>5, Replaced DEF GuestInv

LEMMA CollectKeeps ==
    ASSUME GuestInv, NEW t \in Threads, FaultyGuest!Collect(t)
    PROVE  GuestInv'
<1> DEFINE j == slot[thr[t].g]
           s == IF jobs[j].success = "yes" THEN "success" ELSE "failed"
<1>1. /\ t \in Bulks /\ thr[t].pc = "closing" /\ FaultyGuest!Settle(thr[t].g, s) /\ slot' = slot
      /\ jobs' = IF jobs[j].running THEN [jobs EXCEPT ![j] = FaultyGuest!Finished(@, FALSE)] ELSE jobs
  BY DEF FaultyGuest!Collect
<1>2. "closing" \in Busy /\ s \in FaultyGuest!Settled
  BY BusyPlaces DEF FaultyGuest!Settled
<1> HIDE DEF s, j
<1>6. OnlyThread(t) /\ thr'[t].pc = "loop" /\ thr'[t].todo = thr[t].todo
  BY Collects
<1>7. jobs' \in [1..MaxJobs -> JobRecords]
  <2>1. CASE jobs[j].running
    BY <1>1, <2>1, FinishedTyped DEF GuestInv
  <2>2. CASE ~jobs[j].running
    BY <1>1, <2>2 DEF GuestInv, GuestTyped
  <2> QED
    BY <2>1, <2>2
<1>8. slot' \in [Guests -> 0..MaxJobs]
  BY <1>1 DEF GuestInv, GuestTyped
<1> QED
  BY <1>1, <1>2, <1>6, <1>7, <1>8, SettleKeeps

LEMMA BulkEndKeeps ==
    ASSUME GuestInv, NEW t \in Threads, FaultyGuest!BulkEscapes(t) \/ FaultyGuest!BulkEnd(t)
    PROVE  GuestInv'
<1>1. /\ t \in Bulks /\ thr[t].pc \in {"gate", "loop"} /\ UNCHANGED <<jobs, slot>>
      /\ bulk' = [bulk EXCEPT !.running = FALSE] /\ thr' = [thr EXCEPT ![t] = FaultyGuest!Idle]
  BY DEF FaultyGuest!BulkEscapes, FaultyGuest!BulkEnd
<1>2. OnlyThread(t) /\ thr'[t].pc = "idle" /\ "idle" \notin Busy
  BY <1>1, Rested, BusyPlaces DEF GuestInv
<1>3. bulk \in BulkRecords
  BY DEF GuestInv, GuestTyped
<1>4. bulk' \in BulkRecords /\ bulk'.done = bulk.done /\ bulk'.items = bulk.items
  BY <1>1, <1>3 DEF BulkRecords
<1>5. GuestCounted'
  BY <1>4 DEF GuestInv, GuestCounted
<1>6. \A u \in Bulks \ {t} : thr[u].pc = "idle"
  BY <1>1, Alone
<1>7. jobs' \in [1..MaxJobs -> JobRecords] /\ slot' \in [Guests -> 0..MaxJobs]
  BY <1>1 DEF GuestInv, GuestTyped
<1> QED
  BY <1>1, <1>2, <1>4, <1>5, <1>6, <1>7, BulkKeeps

LEMMA CancelKeeps ==
    ASSUME GuestInv, NEW g \in Guests, FaultyGuest!Cancel(g)
    PROVE  GuestInv'
<1> DEFINE j == slot[g]
           r == [jobs[j] EXCEPT !.cancel = TRUE]
<1>1. j # 0 /\ jobs' = [jobs EXCEPT ![j] = r] /\ UNCHANGED <<slot, bulk, thr>>
  BY DEF FaultyGuest!Cancel, FaultyGuest!InFlight
<1>2. j \in 1..MaxJobs
  <2>1. j \in 0..MaxJobs /\ MaxJobs \in Nat
    BY UpdateJobsAssumption DEF GuestInv, GuestTyped
  <2> QED
    BY <2>1, <1>1
<1>3. jobs[j] \in JobRecords
  BY <1>2 DEF GuestInv, GuestTyped
<1>4. r \in JobRecords
  BY <1>3 DEF JobRecords
<1> HIDE DEF j, r
<1>5. jobs' \in [1..MaxJobs -> JobRecords]
  BY <1>1, <1>2, <1>4 DEF GuestInv, GuestTyped
<1> QED
  BY <1>1, <1>5 DEF GuestInv, GuestTyped, GuestInHand, FaultyGuest!BulkExclusive, GuestItems,
                    GuestCounted

LEMMA GuestStart ==
    ASSUME Guest!Init
    PROVE  GuestInv
<1>1. /\ jobs = [j \in 1..MaxJobs |-> FaultyGuest!Collected] /\ slot = [g \in Guests |-> 0]
      /\ bulk = [running |-> FALSE, done |-> 0, items |-> [g \in Guests |-> "absent"]]
      /\ thr = [t \in Threads |-> FaultyGuest!Idle]
  BY DEF Guest!Init, Guest!Collected, FaultyGuest!Collected, Guest!Idle, FaultyGuest!Idle, Threads,
         Guest!Threads, Guest!JobIds, Guest!NoGuest, FaultyGuest!NoGuest
<1>2. FaultyGuest!Collected \in JobRecords /\ MaxJobs \in Nat
  BY UpdateJobsAssumption DEF FaultyGuest!Collected, JobRecords, FaultyGuest!Outcomes
<1>3. bulk \in BulkRecords /\ \A g \in Guests : bulk.items[g] = "absent"
  BY <1>1 DEF BulkRecords, FaultyGuest!ItemStates
<1>4. GuestTyped
  BY <1>1, <1>2, <1>3, IdleTyped DEF GuestTyped
<1>5. \A t \in Threads : thr[t].pc = "idle"
  BY <1>1, IdleTyped
<1>6. GuestInHand /\ FaultyGuest!BulkExclusive /\ GuestItems
  BY <1>5, BusyPlaces DEF GuestInHand, FaultyGuest!BulkExclusive, GuestItems, Threads
<1>7. GuestCounted
  <2>1. \A g \in Guests : bulk.items[g] \notin FaultyGuest!Settled
    BY <1>3 DEF FaultyGuest!Settled
  <2> QED
    BY <2>1, <1>1, NoneSettled DEF GuestCounted
<1> QED
  BY <1>4, <1>6, <1>7 DEF GuestInv

LEMMA GuestStepKeeps ==
    ASSUME GuestInv, FaultyGuest!Next
    PROVE  GuestInv'
<1>1. ASSUME NEW t \in Requests, NEW g \in Guests, FaultyGuest!Apply(t, g) PROVE GuestInv'
  BY <1>1, ApplyKeeps
<1>2. ASSUME NEW t \in Bulks, NEW targets \in SUBSET Guests, FaultyGuest!ApplyAll(t, targets)
      PROVE  GuestInv'
  BY <1>2, ApplyAllKeeps
<1>3. ASSUME NEW g \in Guests, FaultyGuest!Cancel(g) PROVE GuestInv'
  BY <1>3, CancelKeeps
<1>4. ASSUME NEW t \in Threads, FaultyGuest!Advance(t) PROVE GuestInv'
  <2>1. CASE WorkStep(t)
    BY <2>1, WorkWorks, WorkKeeps DEF GuestInv
  <2>2. CASE FaultyGuest!Spawn(t)
    BY <2>2, SpawnKeeps
  <2>3. CASE FaultyGuest!HandlerRaises(t) \/ FaultyGuest!Close(t)
    BY <2>3, RestKeeps
  <2>4. ASSUME NEW g \in Guests, FaultyGuest!BulkTake(t, g) PROVE GuestInv'
    BY <2>4, BulkTakeKeeps
  <2>5. CASE FaultyGuest!BulkSkip(t)
    BY <2>5, BulkSkipKeeps
  <2>6. CASE FaultyGuest!BulkReserve(t)
    BY <2>6, BulkReserveKeeps
  <2>7. CASE FaultyGuest!Collect(t)
    BY <2>7, CollectKeeps
  <2>8. CASE FaultyGuest!BulkEscapes(t) \/ FaultyGuest!BulkEnd(t)
    BY <2>8, BulkEndKeeps
  <2> QED
    BY <1>4, <2>1, <2>2, <2>3, <2>4, <2>5, <2>6, <2>7, <2>8 DEF FaultyGuest!Advance, WorkStep
<1> QED
  BY <1>1, <1>2, <1>3, <1>4 DEF FaultyGuest!Next, FaultyGuest!Start, Threads, FaultyGuest!Threads

----------------------------------------------------------------------------
(* What the guests' modes add. *)

\* A step of a thread under way, but for a query that raises out of the loop.
PlainAdvance(t) ==
    \/ WorkStep(t) \/ FaultyGuest!Spawn(t) \/ FaultyGuest!HandlerRaises(t) \/ FaultyGuest!Close(t)
    \/ \E g \in Guests : FaultyGuest!BulkTake(t, g)
    \/ FaultyGuest!BulkSkip(t) \/ FaultyGuest!BulkReserve(t) \/ FaultyGuest!Collect(t)
    \/ FaultyGuest!BulkEnd(t)

LEMMA Plain ==
    ASSUME Guest!Next
    PROVE  FaultyGuest!Next /\ (FaultyGuest!Start \/ \E t \in Threads : PlainAdvance(t))
<1>0. ASSUME NEW r, NEW ok PROVE Guest!Finished(r, ok) = FaultyGuest!Finished(r, ok)
  BY DEF Guest!Finished, FaultyGuest!Finished
<1>1. ASSUME NEW t, NEW ok, Guest!Finish(t, ok) PROVE FaultyGuest!Finish(t, ok)
  BY <1>0, <1>1 DEF Guest!Finish, FaultyGuest!Finish, Guest!Goto, FaultyGuest!Goto, Guest!Finished,
                    FaultyGuest!Finished
<1>2. ASSUME NEW g, Guest!Reserve(g) PROVE FaultyGuest!Reserve(g)
  BY <1>2 DEF Guest!Reserve, FaultyGuest!Reserve, Guest!JobIds, FaultyGuest!JobIds, Guest!Threads,
              FaultyGuest!Threads, Guest!NewJob, FaultyGuest!NewJob, Guest!Collected,
              FaultyGuest!Collected
<1>3. Guest!Idle = FaultyGuest!Idle
  BY DEF Guest!Idle, FaultyGuest!Idle, Guest!NoGuest, FaultyGuest!NoGuest
<1>4. ASSUME NEW t, NEW c, Guest!Goto(t, c) PROVE FaultyGuest!Goto(t, c)
  BY <1>4 DEF Guest!Goto, FaultyGuest!Goto
<1>5. ASSUME NEW g PROVE Guest!InFlight(g) <=> FaultyGuest!InFlight(g)
  BY DEF Guest!InFlight, FaultyGuest!InFlight
<1>6. ASSUME NEW t PROVE Guest!Cancelled(t) <=> FaultyGuest!Cancelled(t)
  BY DEF Guest!Cancelled, FaultyGuest!Cancelled
<1>7. ASSUME Guest!Start PROVE FaultyGuest!Start
  <2>1. ASSUME NEW t \in Requests, NEW g \in Guests, Guest!Apply(t, g) PROVE FaultyGuest!Apply(t, g)
    BY <2>1, <1>2, <1>3, <1>5 DEF Guest!Apply, FaultyGuest!Apply
  <2>2. ASSUME NEW t \in Bulks, NEW targets \in (SUBSET Guests) \ {{}}, Guest!ApplyAll(t, targets)
        PROVE  FaultyGuest!ApplyAll(t, targets)
    BY <2>2, <1>3 DEF Guest!ApplyAll, FaultyGuest!ApplyAll
  <2>3. ASSUME NEW g \in Guests, Guest!Cancel(g) PROVE FaultyGuest!Cancel(g)
    BY <2>3, <1>5 DEF Guest!Cancel, FaultyGuest!Cancel
  <2> QED
    BY <1>7, <2>1, <2>2, <2>3, Zenon DEF Guest!Start, FaultyGuest!Start
<1>8. ASSUME NEW t \in Threads, Guest!Advance(t) PROVE FaultyGuest!Advance(t) /\ PlainAdvance(t)
  <2>1. ASSUME Guest!Spawn(t) PROVE FaultyGuest!Spawn(t)
    BY <2>1, <1>4 DEF Guest!Spawn, FaultyGuest!Spawn
  <2>2. ~Guest!HandlerRaises(t) /\ ~Guest!BeginRaises(t) /\ ~Guest!RecordRaises(t)
        /\ ~Guest!BulkEscapes(t)
    BY DEF Guest!HandlerRaises, Guest!BeginRaises, Guest!RecordRaises, Guest!BulkEscapes
  <2>3. ASSUME Guest!Begin(t) PROVE FaultyGuest!Begin(t)
    BY <2>3, <1>0 DEF Guest!Begin, FaultyGuest!Begin, Guest!Finished, FaultyGuest!Finished
  <2>4. ASSUME Guest!Lists(t) PROVE FaultyGuest!Lists(t)
    BY <2>4, <1>1, <1>4, <1>6, Zenon DEF Guest!Lists, FaultyGuest!Lists
  <2>5. ASSUME Guest!Upgrade(t) PROVE FaultyGuest!Upgrade(t)
    BY <2>5, <1>1, <1>4, <1>6, Zenon DEF Guest!Upgrade, FaultyGuest!Upgrade
  <2>6. ASSUME Guest!SshRaises(t) PROVE FaultyGuest!SshRaises(t)
    BY <2>6, <1>1 DEF Guest!SshRaises, FaultyGuest!SshRaises
  <2>7. ASSUME Guest!Record(t) PROVE FaultyGuest!Record(t)
    BY <2>7, <1>4 DEF Guest!Record, FaultyGuest!Record
  <2>8. ASSUME Guest!Notify(t) PROVE FaultyGuest!Notify(t)
    BY <2>8, <1>1 DEF Guest!Notify, FaultyGuest!Notify
  <2>9. ASSUME Guest!Close(t) PROVE FaultyGuest!Close(t)
    BY <2>9, <1>3 DEF Guest!Close, FaultyGuest!Close
  <2>10. ASSUME NEW g \in Guests, Guest!BulkTake(t, g) PROVE FaultyGuest!BulkTake(t, g)
    BY <2>10 DEF Guest!BulkTake, FaultyGuest!BulkTake
  <2>11. ASSUME Guest!BulkSkip(t) PROVE FaultyGuest!BulkSkip(t)
    BY <2>11, <1>4 DEF Guest!BulkSkip, FaultyGuest!BulkSkip, Guest!Settle, FaultyGuest!Settle
  <2>12. ASSUME Guest!BulkReserve(t) PROVE FaultyGuest!BulkReserve(t)
    BY <2>12, <1>2, <1>4, <1>5 DEF Guest!BulkReserve, FaultyGuest!BulkReserve
  <2>13. ASSUME Guest!Collect(t) PROVE FaultyGuest!Collect(t)
    BY <2>13 DEF Guest!Collect, FaultyGuest!Collect, Guest!Settle, FaultyGuest!Settle,
                 Guest!Finished, FaultyGuest!Finished
  <2>14. ASSUME Guest!BulkEnd(t) PROVE FaultyGuest!BulkEnd(t)
    BY <2>14, <1>3 DEF Guest!BulkEnd, FaultyGuest!BulkEnd
  <2>15. \/ Guest!Spawn(t) \/ Guest!Begin(t) \/ Guest!Lists(t) \/ Guest!Upgrade(t)
         \/ Guest!SshRaises(t) \/ Guest!Record(t) \/ Guest!Notify(t) \/ Guest!Close(t)
         \/ \E g \in Guests : Guest!BulkTake(t, g)
         \/ Guest!BulkSkip(t) \/ Guest!BulkReserve(t) \/ Guest!Collect(t) \/ Guest!BulkEnd(t)
    BY <1>8, <2>2, Zenon DEF Guest!Advance
  <2> QED
    BY <2>1, <2>3, <2>4, <2>5, <2>6, <2>7, <2>8, <2>9, <2>10, <2>11, <2>12, <2>13, <2>14, <2>15,
       Zenon DEF FaultyGuest!Advance, PlainAdvance, WorkStep
<1> QED
  BY <1>7, <1>8 DEF Guest!Next, FaultyGuest!Next, Threads, Guest!Threads, FaultyGuest!Threads

LEMMA EndedKeeps ==
    ASSUME GuestInv, GuestEnded, FaultyGuest!Start \/ \E t \in Threads : PlainAdvance(t)
    PROVE  GuestEnded'
<1>0. ASSUME UNCHANGED bulk PROVE GuestEnded'
  BY <1>0 DEF GuestEnded
<1>b. bulk \in BulkRecords
  BY DEF GuestInv, GuestTyped
<1>1. ASSUME NEW t \in Bulks, NEW targets, FaultyGuest!ApplyAll(t, targets) PROVE GuestEnded'
  BY <1>1 DEF FaultyGuest!ApplyAll, GuestEnded
<1>2. CASE FaultyGuest!Start
  BY <1>0, <1>1, <1>2 DEF FaultyGuest!Start, FaultyGuest!Apply, FaultyGuest!Cancel
<1>3. ASSUME NEW t \in Threads, PlainAdvance(t) PROVE GuestEnded'
  <2>1. CASE WorkStep(t)
    BY <2>1, <1>0, WorkWorks DEF GuestInv, Works
  <2>2. CASE FaultyGuest!Spawn(t) \/ FaultyGuest!HandlerRaises(t) \/ FaultyGuest!Close(t)
             \/ FaultyGuest!BulkReserve(t)
    BY <2>2, <1>0 DEF FaultyGuest!Spawn, FaultyGuest!HandlerRaises, FaultyGuest!Close,
                      FaultyGuest!BulkReserve
  <2>3. ASSUME t \in Bulks, thr[t].pc # "idle", bulk'.running = bulk.running PROVE GuestEnded'
    BY <2>3, Alone DEF GuestEnded
  <2>4. ASSUME NEW g \in Guests, FaultyGuest!BulkTake(t, g) PROVE GuestEnded'
    <3>1. t \in Bulks /\ thr[t].pc = "loop" /\ bulk' = [bulk EXCEPT !.items[g] = "running"]
      BY <2>4 DEF FaultyGuest!BulkTake
    <3>2. bulk'.running = bulk.running
      BY <3>1, <1>b DEF BulkRecords
    <3> QED
      BY <3>1, <3>2, <2>3
  <2>5. ASSUME NEW g, NEW s, FaultyGuest!Settle(g, s) PROVE bulk'.running = bulk.running
    BY <2>5, <1>b DEF FaultyGuest!Settle, BulkRecords
  <2>6. CASE FaultyGuest!BulkSkip(t)
    BY <2>3, <2>5, <2>6 DEF FaultyGuest!BulkSkip
  <2>7. CASE FaultyGuest!Collect(t)
    BY <2>3, <2>5, <2>7 DEF FaultyGuest!Collect
  <2>8. CASE FaultyGuest!BulkEnd(t)
    <3>1. t \in Bulks /\ thr[t].pc = "loop" /\ thr[t].todo = {} /\ bulk' = [bulk EXCEPT !.running = FALSE]
      BY <2>8 DEF FaultyGuest!BulkEnd
    <3>2. bulk'.items = bulk.items /\ \A g \in Guests : bulk.items[g] \in FaultyGuest!ItemStates
      BY <3>1, <1>b DEF BulkRecords
    <3>3. \A g \in Guests : bulk.items[g] # "pending" /\ bulk.items[g] # "running"
      BY <3>1, Alone, BusyPlaces
    <3> QED
      BY <3>2, <3>3 DEF GuestEnded, FaultyGuest!ItemStates, FaultyGuest!Settled
  <2> QED
    BY <1>3, <2>1, <2>2, <2>4, <2>6, <2>7, <2>8 DEF PlainAdvance
<1> QED
  BY <1>2, <1>3

\* What the run's type invariant and the progress page's properties say of the
\* guests.
LEMMA GuestPromises ==
    ASSUME GuestInv
    PROVE  Guest!TypeOK /\ Guest!BulkExclusive /\ (GuestEnded => Guest!BulkAccounted)
<1> DEFINE A == {g \in Guests : bulk.items[g] \in FaultyGuest!Settled}
<1>1. bulk.done = Cardinality(A) /\ bulk.done = Guest!Cardinality(A)
  BY SameSize DEF GuestInv, GuestCounted
<1>2. A \in SUBSET Guests
  OBVIOUS
<1> HIDE DEF A
<1>3. Cardinality(A) \in 0..Cardinality(Guests)
  <2>1. IsFiniteSet(Guests)
    BY UpdateJobsAssumption
  <2>2. IsFiniteSet(A) /\ Cardinality(A) <= Cardinality(Guests)
    BY <1>2, <2>1, FS_Subset
  <2> QED
    BY <2>1, <2>2, FS_CardinalityType
<1>4. bulk.done \in 0..Guest!Cardinality(Guests)
  BY <1>1, <1>3, SameSize
<1>5. Guest!TypeOK
  <2>1. jobs \in [Guest!JobIds -> [running: BOOLEAN, success: Guest!Outcomes, cancel: BOOLEAN,
                                   cancelled: BOOLEAN]]
    BY DEF GuestInv, GuestTyped, JobRecords, Guest!JobIds, Guest!Outcomes, FaultyGuest!Outcomes
  <2>2. slot \in [Guests -> 0..MaxJobs]
    BY DEF GuestInv, GuestTyped
  <2>3. bulk \in [running: BOOLEAN, done: 0..Guest!Cardinality(Guests),
                  items: [Guests -> Guest!ItemStates]]
    BY <1>4 DEF GuestInv, GuestTyped, BulkRecords, Guest!ItemStates, FaultyGuest!ItemStates
  <2>4. thr \in [Guest!Threads -> [pc: Guest!Counters, g: Guests \cup {Guest!NoGuest}, job: 0..MaxJobs,
                                   agent: BOOLEAN, todo: SUBSET Guests]]
    BY DEF GuestInv, GuestTyped, ThreadRecords, Threads, Guest!Threads, Guest!Counters,
           FaultyGuest!Counters, Guest!AtWork, FaultyGuest!AtWork, Guest!NoGuest
  <2> QED
    BY <2>1, <2>2, <2>3, <2>4 DEF Guest!TypeOK
<1>6. Guest!BulkExclusive
  BY DEF GuestInv, FaultyGuest!BulkExclusive, Guest!BulkExclusive
<1>7. ASSUME GuestEnded PROVE Guest!BulkAccounted
  <2>1. Guest!Settled = FaultyGuest!Settled
    BY DEF Guest!Settled, FaultyGuest!Settled
  <2>2. bulk.done = Guest!Cardinality({g \in Guests : bulk.items[g] \in Guest!Settled})
    BY <2>1, <1>1 DEF A
  <2>3. ~bulk.running => \A g \in Guests : bulk.items[g] \in Guest!Settled \cup {"absent"}
    BY <2>1, <1>7 DEF GuestEnded
  <2>4. ASSUME NEW t \in Bulks, thr[t].pc # "idle"
        PROVE  thr[t].todo = {g \in Guests : bulk.items[g] = "pending"}
    <3>1. thr[t].todo \in SUBSET Guests
      BY DEF GuestInv, GuestTyped, ThreadRecords, Threads
    <3>2. \A g \in Guests : bulk.items[g] = "pending" <=> g \in thr[t].todo
      BY <2>4, Alone
    <3> QED
      BY <3>1, <3>2
  <2> QED
    BY <2>2, <2>3, <2>4 DEF Guest!BulkAccounted
<1> QED
  BY <1>5, <1>6, <1>7

\* The places at which a single update holds its guest.
Holding == FaultyGuest!AtWork \cup {"reserved"}

\* Single updates alone: a guest's job runs as long as a thread holds the guest,
\* the worker writes to that job, and no two guests share one.
SingleInv ==
    /\ \A t \in Bulks : thr[t].pc = "idle"
    /\ \A t \in Requests : thr[t].pc \in Holding => FaultyGuest!InFlight(thr[t].g)
    /\ \A t, u \in Requests :
          thr[t].pc \in Holding /\ thr[u].pc \in Holding /\ thr[t].g = thr[u].g => t = u
    /\ \A t \in Requests : thr[t].pc \in FaultyGuest!AtWork \ {"begin"} => thr[t].job = slot[thr[t].g]
    /\ \A g, h \in Guests : slot[g] # 0 /\ slot[g] = slot[h] => g = h

LEMMA HoldingPlaces ==
    /\ FaultyGuest!AtWork \subseteq Holding /\ "reserved" \in Holding /\ "begin" \in Holding
    /\ Holding \cap {"idle", "closing"} = {} /\ Holding \ {"reserved"} = FaultyGuest!AtWork
    /\ "begin" \in FaultyGuest!AtWork /\ "reserved" \notin FaultyGuest!AtWork
    /\ "idle" \notin FaultyGuest!AtWork /\ "closing" \notin FaultyGuest!AtWork
  BY DEF Holding, FaultyGuest!AtWork

\* Whoever holds a guest knows it, and has a job in it.
LEMMA HoldsGuest ==
    ASSUME GuestInv, SingleInv, NEW t \in Requests, thr[t].pc \in Holding
    PROVE  /\ thr[t].g \in Guests /\ slot[thr[t].g] \in 1..MaxJobs /\ slot[thr[t].g] # 0
           /\ jobs[slot[thr[t].g]].running
<1>1. thr[t].g \in Guests
  BY BusyPlaces DEF GuestInv, GuestInHand, Holding, Threads
<1>2. slot[thr[t].g] # 0 /\ jobs[slot[thr[t].g]].running
  BY DEF SingleInv, FaultyGuest!InFlight
<1>3. slot[thr[t].g] \in 0..MaxJobs /\ MaxJobs \in Nat
  BY <1>1, UpdateJobsAssumption DEF GuestInv, GuestTyped
<1> QED
  BY <1>1, <1>2, <1>3

LEMMA SingleApply ==
    ASSUME GuestInv, SingleInv, NEW t \in Requests, NEW g \in Guests, FaultyGuest!Apply(t, g),
           \A u \in Bulks : thr'[u].pc = "idle"
    PROVE  SingleInv'
<1>1. t \in Threads /\ GuestTyped
  BY DEF Threads, GuestInv
<1>2. OnlyThread(t) /\ thr'[t].pc = "reserved" /\ thr'[t].g = g /\ ~FaultyGuest!InFlight(g)
  BY <1>1, Started DEF FaultyGuest!Apply
<1>3. /\ slot'[g] \in 1..MaxJobs /\ jobs'[slot'[g]].running
      /\ \A h \in Guests \ {g} : /\ slot'[h] = slot[h] /\ slot[h] # slot'[g]
                                 /\ slot[h] # 0 => jobs'[slot[h]] = jobs[slot[h]]
  BY <1>1, ReserveFresh DEF FaultyGuest!Apply
<1>4. slot'[g] # 0
  BY <1>3, UpdateJobsAssumption
<1>5. \A u \in Requests \ {t} : thr'[u] = thr[u]
  BY <1>2 DEF OnlyThread, Threads
<1>6. \A u \in Requests \ {t} : thr'[u].pc \in Holding => thr'[u].g \in Guests \ {g}
  BY <1>2, <1>5, HoldsGuest DEF FaultyGuest!InFlight
<1>8. \A u \in Requests : thr'[u].pc \in Holding => slot'[thr'[u].g] # 0 /\ jobs'[slot'[thr'[u].g]].running
  BY <1>2, <1>3, <1>4, <1>5, <1>6, HoldsGuest
<1>9. \A v, u \in Requests :
          thr'[v].pc \in Holding /\ thr'[u].pc \in Holding /\ thr'[v].g = thr'[u].g => v = u
  BY <1>2, <1>5, <1>6 DEF SingleInv
<1>10. \A u \in Requests : thr'[u].pc \in FaultyGuest!AtWork \ {"begin"} => thr'[u].job = slot'[thr'[u].g]
  <2> SUFFICES ASSUME NEW u \in Requests, thr'[u].pc \in FaultyGuest!AtWork \ {"begin"}
               PROVE  thr'[u].job = slot'[thr'[u].g]
    OBVIOUS
  <2>1. u # t /\ thr'[u].pc \in Holding
    BY <1>2, HoldingPlaces
  <2> QED
    BY <2>1, <1>3, <1>5, <1>6 DEF SingleInv
<1>11. \A k, h \in Guests : slot'[k] # 0 /\ slot'[k] = slot'[h] => k = h
  BY <1>3, <1>4 DEF SingleInv
<1> QED
  BY <1>8, <1>9, <1>10, <1>11 DEF SingleInv, FaultyGuest!InFlight

LEMMA SingleWork ==
    ASSUME GuestInv, SingleInv, NEW t \in Requests, Works(t), \A u \in Bulks : thr'[u].pc = "idle"
    PROVE  SingleInv'
<1>1. /\ thr[t].pc \in FaultyGuest!AtWork /\ thr[t].pc \in Holding /\ UNCHANGED slot
      /\ thr'[t].g = thr[t].g /\ thr'[t].pc \in (FaultyGuest!AtWork \ {"begin"}) \cup {"closing"}
      /\ \A u \in Requests \ {t} : thr'[u] = thr[u]
  BY HoldingPlaces DEF Works, OnlyThread, Threads
<1>2. Held(t) = slot[thr[t].g]
  BY <1>1 DEF Held, SingleInv
<1>3. /\ \A j \in 1..MaxJobs : j # slot[thr[t].g] => jobs'[j] = jobs[j]
      /\ thr'[t].pc \in FaultyGuest!AtWork => jobs' = jobs /\ thr'[t].job = slot[thr[t].g]
  BY <1>2 DEF Works
<1>4. \A u \in Requests : thr'[u].pc \in Holding => thr[u].pc \in Holding /\ thr'[u].g = thr[u].g
  BY <1>1
<1>5. thr'[t].pc \in Holding => thr'[t].pc \in FaultyGuest!AtWork
  BY <1>1, HoldingPlaces
<1>6. \A u \in Requests : thr'[u].pc \in Holding => slot'[thr'[u].g] # 0 /\ jobs'[slot'[thr'[u].g]].running
  <2> SUFFICES ASSUME NEW u \in Requests, thr'[u].pc \in Holding
               PROVE  slot[thr[u].g] # 0 /\ jobs'[slot[thr[u].g]].running
    BY <1>1, <1>4
  <2>1. /\ thr[u].g \in Guests /\ slot[thr[u].g] \in 1..MaxJobs /\ slot[thr[u].g] # 0
        /\ jobs[slot[thr[u].g]].running /\ thr[t].g \in Guests
    BY <1>1, <1>4, HoldsGuest
  <2>2. CASE u = t
    BY <2>1, <2>2, <1>3, <1>5
  <2>3. CASE u # t
    <3>1. thr[u].g # thr[t].g
      BY <2>3, <1>1, <1>4 DEF SingleInv
    <3>2. slot[thr[u].g] # slot[thr[t].g]
      BY <2>1, <3>1 DEF SingleInv
    <3> QED
      BY <2>1, <3>2, <1>3
  <2> QED
    BY <2>2, <2>3
<1>7. \A v, u \in Requests :
          thr'[v].pc \in Holding /\ thr'[u].pc \in Holding /\ thr'[v].g = thr'[u].g => v = u
  BY <1>4 DEF SingleInv
<1>8. \A u \in Requests : thr'[u].pc \in FaultyGuest!AtWork \ {"begin"} => thr'[u].job = slot'[thr'[u].g]
  BY <1>1, <1>3 DEF SingleInv
<1>9. \A k, h \in Guests : slot'[k] # 0 /\ slot'[k] = slot'[h] => k = h
  BY <1>1 DEF SingleInv
<1> QED
  BY <1>6, <1>7, <1>8, <1>9 DEF SingleInv, FaultyGuest!InFlight

\* A thread that holds its guest goes on holding it, or lets go; nothing else
\* happens.
LEMMA SingleMove ==
    ASSUME GuestInv, SingleInv, NEW t \in Requests, OnlyThread(t), UNCHANGED <<jobs, slot>>,
           \A u \in Bulks : thr'[u].pc = "idle",
           \/ thr'[t].pc \notin Holding
           \/ thr'[t].pc = "begin" /\ thr[t].pc = "reserved" /\ thr'[t].g = thr[t].g
    PROVE  SingleInv'
<1>1. \A u \in Requests \ {t} : thr'[u] = thr[u]
  BY DEF OnlyThread, Threads
<1>2. \A u \in Requests : thr'[u].pc \in Holding => thr[u].pc \in Holding /\ thr'[u].g = thr[u].g
  BY <1>1, HoldingPlaces
<1>3. \A u \in Requests : thr'[u].pc \in Holding => slot'[thr'[u].g] # 0 /\ jobs'[slot'[thr'[u].g]].running
  BY <1>2, HoldsGuest
<1>4. \A v, u \in Requests :
          thr'[v].pc \in Holding /\ thr'[u].pc \in Holding /\ thr'[v].g = thr'[u].g => v = u
  BY <1>2 DEF SingleInv
<1>5. \A u \in Requests : thr'[u].pc \in FaultyGuest!AtWork \ {"begin"} => thr'[u].job = slot'[thr'[u].g]
  BY <1>1, HoldingPlaces DEF SingleInv
<1> QED
  BY <1>3, <1>4, <1>5 DEF SingleInv, FaultyGuest!InFlight

LEMMA SingleCancel ==
    ASSUME GuestInv, SingleInv, NEW g \in Guests, FaultyGuest!Cancel(g)
    PROVE  SingleInv'
<1>1. /\ slot[g] # 0 /\ jobs[slot[g]].running /\ UNCHANGED <<slot, thr>>
      /\ jobs' = [jobs EXCEPT ![slot[g]].cancel = TRUE]
  BY DEF FaultyGuest!Cancel, FaultyGuest!InFlight
<1>2. \A j \in 1..MaxJobs : jobs[j].running => jobs'[j].running
  BY <1>1 DEF GuestInv, GuestTyped, JobRecords
<1>3. \A u \in Requests : thr'[u].pc \in Holding => slot'[thr'[u].g] # 0 /\ jobs'[slot'[thr'[u].g]].running
  BY <1>1, <1>2, HoldsGuest
<1> QED
  BY <1>1, <1>3 DEF SingleInv, FaultyGuest!InFlight

LEMMA UnderWay ==
    ASSUME NEW t \in Threads, FaultyGuest!Advance(t)
    PROVE  thr[t].pc # "idle"
  BY DEF FaultyGuest!Advance, FaultyGuest!Spawn, FaultyGuest!HandlerRaises, FaultyGuest!Begin,
         FaultyGuest!BeginRaises, FaultyGuest!Lists, FaultyGuest!Upgrade, FaultyGuest!SshRaises,
         FaultyGuest!Record, FaultyGuest!RecordRaises, FaultyGuest!Notify, FaultyGuest!Close,
         FaultyGuest!BulkTake, FaultyGuest!BulkSkip, FaultyGuest!BulkReserve,
         FaultyGuest!BulkEscapes, FaultyGuest!Collect, FaultyGuest!BulkEnd

LEMMA SingleStepKeeps ==
    ASSUME GuestInv, SingleInv, FaultyGuest!Next, \A u \in Bulks : thr'[u].pc = "idle"
    PROVE  SingleInv'
<1>1. ASSUME NEW t \in Requests, NEW g \in Guests, FaultyGuest!Apply(t, g) PROVE SingleInv'
  BY <1>1, SingleApply
<1>2. ASSUME NEW t \in Bulks, NEW targets \in SUBSET Guests, FaultyGuest!ApplyAll(t, targets)
      PROVE  FALSE
  <2>1. thr'[t].pc = "reserved"
    BY <1>2, StartedAll DEF FaultyGuest!ApplyAll, GuestInv, Threads
  <2> QED
    BY <2>1
<1>3. ASSUME NEW g \in Guests, FaultyGuest!Cancel(g) PROVE SingleInv'
  BY <1>3, SingleCancel
<1>4. ASSUME NEW t \in Threads, FaultyGuest!Advance(t) PROVE SingleInv'
  <2>1. t \in Requests /\ t \notin Bulks
    BY <1>4, UnderWay, UpdateJobsAssumption DEF SingleInv, Threads
  <2>2. CASE WorkStep(t)
    BY <2>1, <2>2, WorkWorks, SingleWork DEF GuestInv
  <2>3. CASE FaultyGuest!Spawn(t)
    <3>1. thr[t].pc = "reserved" /\ FaultyGuest!Goto(t, "begin") /\ UNCHANGED <<jobs, slot>>
      BY <2>1, <2>3 DEF FaultyGuest!Spawn
    <3>2. OnlyThread(t) /\ thr'[t].pc = "begin" /\ thr'[t].g = thr[t].g
      BY <3>1, Moved, BusyPlaces DEF GuestInv
    <3> QED
      BY <2>1, <3>1, <3>2, SingleMove
  <2>4. CASE FaultyGuest!HandlerRaises(t) \/ FaultyGuest!Close(t)
    <3>1. thr' = [thr EXCEPT ![t] = FaultyGuest!Idle] /\ UNCHANGED <<jobs, slot>>
      BY <2>4 DEF FaultyGuest!HandlerRaises, FaultyGuest!Close
    <3>2. OnlyThread(t) /\ thr'[t].pc \notin Holding
      BY <3>1, Rested, HoldingPlaces DEF GuestInv
    <3> QED
      BY <2>1, <3>1, <3>2, SingleMove
  <2>5. WorkStep(t) \/ FaultyGuest!Spawn(t) \/ FaultyGuest!HandlerRaises(t) \/ FaultyGuest!Close(t)
    BY <1>4, <2>1 DEF FaultyGuest!Advance, WorkStep, FaultyGuest!BulkTake, FaultyGuest!BulkSkip,
         FaultyGuest!BulkReserve, FaultyGuest!BulkEscapes, FaultyGuest!Collect, FaultyGuest!BulkEnd
  <2> QED
    BY <2>2, <2>3, <2>4, <2>5
<1> QED
  BY <1>1, <1>2, <1>3, <1>4 DEF FaultyGuest!Next, FaultyGuest!Start, Threads, FaultyGuest!Threads

----------------------------------------------------------------------------
(* Hosts. *)

HostBusy == FaultyHost!AtWork \cup {"gate", "collect"}

HostCounters == FaultyHost!AtWork \cup {"idle", "checked", "spawned", "loop", "gate", "collect"}

HostJobs == [running: BOOLEAN, success: FaultyHost!Outcomes, cancelled: BOOLEAN]

HostThreads == [pc: HostCounters, h: Hosts \cup {"none"}, ok: BOOLEAN, todo: SUBSET Hosts]

HostBulks == [running: BOOLEAN, done: Nat, items: [Hosts -> FaultyHost!ItemStates]]

HostTyped ==
    /\ job \in [Hosts -> HostJobs]
    /\ hostBulk \in HostBulks
    /\ hostThr \in [Threads -> HostThreads]

\* A thread that has a host in hand knows which; a single update is never in
\* the orchestrator's places.
HostInHand ==
    /\ \A t \in Threads : hostThr[t].pc \in HostBusy => hostThr[t].h \in Hosts
    /\ \A t \in Requests : hostThr[t].pc \in FaultyHost!AtWork \cup {"idle"}

\* The thread has the bulk slot.
Active(t) == hostThr[t].pc \notin {"idle", "checked"}

HostExclusive ==
    \A t \in Bulks : Active(t) => hostBulk.running /\ \A u \in Bulks : Active(u) => u = t

\* What an orchestrator's items say of its list and of the host in its hand.
HostItemsOf(t) ==
    IF hostThr[t].pc = "spawned"
    THEN \A h \in Hosts : hostBulk.items[h] \in {"pending", "absent"}
    ELSE \A h \in Hosts :
            /\ hostBulk.items[h] = "pending" <=> h \in hostThr[t].todo
            /\ hostBulk.items[h] = "running" <=> h = hostThr[t].h /\ hostThr[t].pc \in HostBusy

HostItems == \A t \in Bulks : Active(t) => HostItemsOf(t)

HostCounted == hostBulk.done = Cardinality({h \in Hosts : hostBulk.items[h] \in FaultyHost!Settled})

\* Greenlets reserve the bulk slot at once; with threads there is one user of it.
HostShape ==
    /\ mode = "hosts_bulk" => \A t \in Bulks : hostThr[t].pc # "checked"
    /\ mode # "hosts_bulk" => \A t \in Bulks \ {b1} : hostThr[t].pc = "idle"

HostInv == HostTyped /\ HostInHand /\ HostExclusive /\ HostItems /\ HostCounted

LEMMA HostPlaces ==
    /\ HostBusy \cap {"idle", "checked", "spawned", "loop"} = {} /\ HostBusy \subseteq HostCounters
    /\ FaultyHost!AtWork \cup {"gate", "collect"} = HostBusy
    /\ FaultyHost!AtWork \cap {"gate", "collect", "idle", "checked", "spawned", "loop"} = {}
    /\ {"idle", "checked", "spawned", "loop"} \subseteq HostCounters
    /\ FaultyHost!AtWork = {"begin", "apt", "record", "end"}
  BY DEF HostBusy, HostCounters, FaultyHost!AtWork

OnlyHostThread(t) ==
    /\ hostThr' \in [Threads -> HostThreads]
    /\ \A u \in Threads \ {t} : hostThr'[u] = hostThr[u]

LEMMA HostReplaced ==
    ASSUME HostTyped, NEW t \in Threads, NEW r \in HostThreads, hostThr' = [hostThr EXCEPT ![t] = r]
    PROVE  OnlyHostThread(t) /\ hostThr'[t] = r
<1> HIDE DEF HostThreads
<1> QED
  BY DEF HostTyped, OnlyHostThread

LEMMA HostMoved ==
    ASSUME HostTyped, NEW t \in Threads, NEW c \in HostCounters, FaultyHost!Goto(t, c)
    PROVE  /\ OnlyHostThread(t) /\ hostThr'[t].pc = c /\ hostThr'[t].h = hostThr[t].h
           /\ hostThr'[t].todo = hostThr[t].todo
<1> DEFINE r == [hostThr[t] EXCEPT !.pc = c]
<1>1. hostThr[t] \in HostThreads
  BY DEF HostTyped
<1>2. r \in HostThreads /\ r.pc = c /\ r.h = hostThr[t].h /\ r.todo = hostThr[t].todo
  BY <1>1 DEF HostThreads
<1>3. hostThr' = [hostThr EXCEPT ![t] = r]
  BY DEF FaultyHost!Goto
<1> HIDE DEF r
<1> QED
  BY <1>2, <1>3, HostReplaced

\* The worker comes to an end, or past apt-get, with its outcome.
ComesTo(t, c, b) == hostThr' = [hostThr EXCEPT ![t].pc = c, ![t].ok = b]

LEMMA HostCameTo ==
    ASSUME HostTyped, NEW t \in Threads, NEW c \in HostCounters, NEW b \in BOOLEAN, ComesTo(t, c, b)
    PROVE  /\ OnlyHostThread(t) /\ hostThr'[t].pc = c /\ hostThr'[t].h = hostThr[t].h
           /\ hostThr'[t].todo = hostThr[t].todo
<1> DEFINE r == [[hostThr[t] EXCEPT !.pc = c] EXCEPT !.ok = b]
<1>1. hostThr[t] \in HostThreads
  BY DEF HostTyped
<1>2. r \in HostThreads /\ r.pc = c /\ r.h = hostThr[t].h /\ r.todo = hostThr[t].todo
  BY <1>1 DEF HostThreads
<1>3. hostThr' = [hostThr EXCEPT ![t] = r]
  BY DEF ComesTo, HostTyped
<1> HIDE DEF r
<1> QED
  BY <1>2, <1>3, HostReplaced

LEMMA HostIdleTyped == FaultyHost!Idle \in HostThreads /\ FaultyHost!Idle.pc = "idle"
  BY DEF FaultyHost!Idle, FaultyHost!NoHost, HostCounters, HostThreads

LEMMA HostRested ==
    ASSUME HostTyped, NEW t \in Threads, hostThr' = [hostThr EXCEPT ![t] = FaultyHost!Idle]
    PROVE  OnlyHostThread(t) /\ hostThr'[t].pc = "idle"
<1> DEFINE r == FaultyHost!Idle
<1>1. r \in HostThreads /\ r.pc = "idle" /\ hostThr' = [hostThr EXCEPT ![t] = r]
  BY HostIdleTyped
<1> HIDE DEF r
<1> QED
  BY <1>1, HostReplaced

LEMMA HostStarted ==
    ASSUME HostTyped, NEW t \in Threads, NEW h \in Hosts,
           hostThr' = [hostThr EXCEPT ![t] = [FaultyHost!Idle EXCEPT !.pc = "begin", !.h = h]]
    PROVE  OnlyHostThread(t) /\ hostThr'[t].pc = "begin" /\ hostThr'[t].h = h
<1> DEFINE r == [FaultyHost!Idle EXCEPT !.pc = "begin", !.h = h]
<1>1. "begin" \in HostCounters
  BY DEF HostCounters, FaultyHost!AtWork
<1>2. r \in HostThreads /\ r.pc = "begin" /\ r.h = h
  BY <1>1, HostIdleTyped DEF HostThreads
<1> HIDE DEF r
<1> QED
  BY <1>2, HostReplaced DEF r

\* A step of one thread that leaves the bulk record alone, and its own place
\* in the orchestrator's loop.
LEMMA HostCalmKeeps ==
    ASSUME HostInv, NEW t \in Threads, OnlyHostThread(t), UNCHANGED hostBulk,
           job' \in [Hosts -> HostJobs],
           hostThr'[t].pc \in HostBusy => hostThr'[t].h \in Hosts,
           t \in Requests => hostThr'[t].pc \in FaultyHost!AtWork \cup {"idle"},
           t \in Bulks => \/ hostThr'[t].pc \in {"idle", "checked"}
                          \/ /\ hostThr[t].pc \in HostBusy /\ hostThr'[t].pc \in HostBusy
                             /\ hostThr'[t].todo = hostThr[t].todo /\ hostThr'[t].h = hostThr[t].h
    PROVE  HostInv'
<1>1. HostTyped'
  BY DEF HostInv, HostTyped, OnlyHostThread
<1>2. HostInHand'
  BY DEF HostInv, HostInHand, OnlyHostThread, Threads
<1>3. \A u \in Bulks : hostThr'[u].pc \notin {"idle", "checked"} => Active(u)
  BY HostPlaces DEF OnlyHostThread, Threads, Active
<1>4. HostExclusive'
  BY <1>3 DEF HostInv, HostExclusive, Active
<1>5. ASSUME NEW u \in Bulks, hostThr'[u].pc \notin {"idle", "checked"} PROVE HostItemsOf(u)'
  <2>1. HostItemsOf(u)
    BY <1>3, <1>5 DEF HostInv, HostItems
  <2>2. CASE u # t
    <3>1. hostThr'[u] = hostThr[u]
      BY <2>2 DEF OnlyHostThread, Threads
    <3> QED
      BY <2>1, <3>1 DEF HostItemsOf
  <2>3. CASE u = t
    <3>1. /\ hostThr[u].pc \in HostBusy /\ hostThr'[u].pc \in HostBusy
          /\ hostThr[u].pc # "spawned" /\ hostThr'[u].pc # "spawned"
          /\ hostThr'[u].todo = hostThr[u].todo /\ hostThr'[u].h = hostThr[u].h
      BY <1>5, <2>3, HostPlaces
    <3> QED
      BY <2>1, <3>1 DEF HostItemsOf
  <2> QED
    BY <2>2, <2>3
<1>6. HostItems'
  BY <1>5 DEF HostItems, Active
<1>7. HostCounted'
  BY DEF HostInv, HostCounted
<1> QED
  BY <1>1, <1>2, <1>4, <1>6, <1>7 DEF HostInv

\* A step of the one orchestrator there is.
LEMMA HostBulkKeeps ==
    ASSUME HostInv, NEW t \in Bulks, OnlyHostThread(t), \A u \in Bulks \ {t} : ~Active(u),
           job' \in [Hosts -> HostJobs], hostBulk' \in HostBulks,
           hostThr'[t].pc \in HostBusy => hostThr'[t].h \in Hosts,
           hostThr'[t].pc # "idle" => hostBulk'.running /\ HostItemsOf(t)',
           HostCounted'
    PROVE  HostInv'
<1>1. HostTyped'
  BY DEF HostInv, HostTyped, OnlyHostThread
<1>2. HostInHand'
  BY UpdateJobsAssumption DEF HostInv, HostInHand, OnlyHostThread, Threads
<1>3. \A u \in Bulks : hostThr'[u].pc \notin {"idle", "checked"} => u = t
  BY DEF OnlyHostThread, Threads, Active
<1>4. HostExclusive'
  BY <1>3 DEF HostExclusive, Active
<1>5. HostItems'
  <2> SUFFICES ASSUME NEW u \in Bulks, hostThr'[u].pc \notin {"idle", "checked"}
               PROVE  HostItemsOf(u)'
    BY DEF HostItems, Active
  <2>1. u = t
    BY <1>3
  <2> QED
    BY <2>1
<1> QED
  BY <1>1, <1>2, <1>4, <1>5 DEF HostInv

HostWorkStep(t) ==
    FaultyHost!Begin(t) \/ FaultyHost!Apt(t) \/ FaultyHost!Record(t)

\* A step of _run_apply before its end: the worker stays on its host.
LEMMA HostWorks ==
    ASSUME HostTyped, NEW t \in Threads, HostWorkStep(t)
    PROVE  /\ UNCHANGED <<job, hostBulk>> /\ OnlyHostThread(t)
           /\ hostThr[t].pc \in FaultyHost!AtWork /\ hostThr'[t].pc \in FaultyHost!AtWork
           /\ hostThr'[t].h = hostThr[t].h /\ hostThr'[t].todo = hostThr[t].todo
<1>0. {"apt", "end", "record"} \subseteq HostCounters /\ {"apt", "end", "record"} \subseteq FaultyHost!AtWork
  BY DEF HostCounters, FaultyHost!AtWork
<1>1. UNCHANGED <<job, hostBulk>> /\ hostThr[t].pc \in FaultyHost!AtWork
  BY DEF HostWorkStep, FaultyHost!Begin, FaultyHost!Apt, FaultyHost!Record, FaultyHost!AtWork
<1>2. \/ \E c \in {"apt", "end"} : FaultyHost!Goto(t, c)
      \/ ComesTo(t, "end", FALSE) \/ ComesTo(t, "record", TRUE)
  BY DEF HostWorkStep, FaultyHost!Begin, FaultyHost!Apt, FaultyHost!Record, ComesTo
<1> QED
  BY <1>0, <1>1, <1>2, HostMoved, HostCameTo

LEMMA HostWorkKeeps ==
    ASSUME HostInv, NEW t \in Threads, HostWorkStep(t)
    PROVE  HostInv'
<1>1. /\ UNCHANGED <<job, hostBulk>> /\ OnlyHostThread(t)
      /\ hostThr[t].pc \in FaultyHost!AtWork /\ hostThr'[t].pc \in FaultyHost!AtWork
      /\ hostThr'[t].h = hostThr[t].h /\ hostThr'[t].todo = hostThr[t].todo
  BY HostWorks DEF HostInv
<1>2. hostThr[t].pc \in HostBusy /\ hostThr'[t].pc \in HostBusy
  BY <1>1, HostPlaces, Zenon
<1>3. hostThr[t].h \in Hosts /\ job' \in [Hosts -> HostJobs]
  BY <1>1, <1>2 DEF HostInv, HostInHand, HostTyped
<1> QED
  BY <1>1, <1>2, <1>3, HostCalmKeeps

\* What _run_apply writes when it ends, into the record now kept for the host.
LEMMA HostEnds ==
    ASSUME HostInv, NEW t \in Threads, FaultyHost!End(t)
    PROVE  /\ UNCHANGED hostBulk /\ OnlyHostThread(t) /\ hostThr[t].pc = "end" /\ hostThr[t].h \in Hosts
           /\ job' \in [Hosts -> HostJobs] /\ ~job'[hostThr[t].h].running
           /\ \A h \in Hosts \ {hostThr[t].h} : job'[h] = job[h]
           /\ IF t \in Bulks THEN /\ hostThr'[t].pc = "collect" /\ hostThr'[t].h = hostThr[t].h
                                  /\ hostThr'[t].todo = hostThr[t].todo
              ELSE hostThr'[t].pc = "idle"
<1> DEFINE h == hostThr[t].h
           s == IF hostThr[t].ok THEN "yes" ELSE "no"
           r == [[job[h] EXCEPT !.running = FALSE] EXCEPT !.success = s]
<1>1. hostThr[t].pc = "end" /\ h \in Hosts /\ UNCHANGED hostBulk
  BY HostPlaces DEF FaultyHost!End, HostInv, HostInHand
<1>2. job[h] \in HostJobs /\ s \in FaultyHost!Outcomes
  BY <1>1 DEF HostInv, HostTyped, FaultyHost!Outcomes
<1>3. job' = [job EXCEPT ![h] = r]
  BY <1>1 DEF FaultyHost!End, HostInv, HostTyped
<1> HIDE DEF s
<1>4. r \in HostJobs /\ ~r.running
  BY <1>2 DEF HostJobs
<1> HIDE DEF r, h
<1>5. job' \in [Hosts -> HostJobs] /\ ~job'[h].running /\ \A k \in Hosts \ {h} : job'[k] = job[k]
  BY <1>1, <1>3, <1>4 DEF HostInv, HostTyped
<1>6. CASE t \in Bulks
  <2>1. FaultyHost!Goto(t, "collect") /\ "collect" \in HostCounters
    BY <1>6 DEF FaultyHost!End, FaultyHost!Goto, HostCounters
  <2>2. /\ OnlyHostThread(t) /\ hostThr'[t].pc = "collect" /\ hostThr'[t].h = hostThr[t].h
        /\ hostThr'[t].todo = hostThr[t].todo
    BY <2>1, HostMoved DEF HostInv
  <2> QED
    BY <1>1, <1>5, <1>6, <2>2 DEF h
<1>7. CASE t \notin Bulks
  <2>1. OnlyHostThread(t) /\ hostThr'[t].pc = "idle"
    BY <1>7, HostRested DEF FaultyHost!End, HostInv
  <2> QED
    BY <1>1, <1>5, <1>7, <2>1 DEF h
<1> QED
  BY <1>6, <1>7

LEMMA HostEndKeeps ==
    ASSUME HostInv, NEW t \in Threads, FaultyHost!End(t)
    PROVE  HostInv'
<1>1. t \in Requests => t \notin Bulks
  BY UpdateJobsAssumption
<1>2. {"end", "collect"} \subseteq HostBusy /\ "idle" \notin HostBusy
  BY DEF HostBusy, FaultyHost!AtWork
<1> QED
  BY <1>1, <1>2, HostEnds, HostCalmKeeps

LEMMA HostApplyKeeps ==
    ASSUME HostInv, NEW t \in Requests, NEW h \in Hosts, FaultyHost!Apply(t, h)
    PROVE  HostInv'
<1>1. t \in Threads /\ t \notin Bulks /\ HostTyped /\ hostBulk' = hostBulk
  BY UpdateJobsAssumption DEF Threads, HostInv, FaultyHost!Apply
<1>2. OnlyHostThread(t) /\ hostThr'[t].pc = "begin" /\ hostThr'[t].h = h
  BY <1>1, HostStarted DEF FaultyHost!Apply
<1>3. FaultyHost!NewJob \in HostJobs
  BY DEF FaultyHost!NewJob, HostJobs, FaultyHost!Outcomes
<1>4. job' \in [Hosts -> HostJobs]
  BY <1>1, <1>3 DEF FaultyHost!Apply, HostTyped
<1>5. "begin" \in FaultyHost!AtWork
  BY DEF FaultyHost!AtWork
<1> QED
  BY <1>1, <1>2, <1>4, <1>5, HostCalmKeeps

LEMMA HostCancels ==
    ASSUME HostInv, NEW h \in Hosts, FaultyHost!Cancel(h)
    PROVE  /\ job' \in [Hosts -> HostJobs] /\ UNCHANGED <<hostBulk, hostThr>>
           /\ \A k \in Hosts : job'[k].running = job[k].running
<1> DEFINE r == [job[h] EXCEPT !.cancelled = TRUE]
<1>1. job[h] \in HostJobs /\ job' = [job EXCEPT ![h] = r] /\ UNCHANGED <<hostBulk, hostThr>>
  BY DEF HostInv, HostTyped, FaultyHost!Cancel
<1>2. r \in HostJobs /\ r.running = job[h].running
  BY <1>1 DEF HostJobs
<1> HIDE DEF r
<1> QED
  BY <1>1, <1>2 DEF HostInv, HostTyped

LEMMA HostCancelKeeps ==
    ASSUME HostInv, NEW h \in Hosts, FaultyHost!Cancel(h)
    PROVE  HostInv'
<1>1. job' \in [Hosts -> HostJobs] /\ UNCHANGED <<hostBulk, hostThr>>
  BY HostCancels
<1> QED
  BY <1>1 DEF HostInv, HostTyped, HostInHand, HostExclusive, HostItems, HostItemsOf, HostCounted, Active

LEMMA BulkCheckKeeps ==
    ASSUME HostInv, NEW t \in Bulks, FaultyHost!BulkCheck(t)
    PROVE  HostInv'
<1>1. t \in Threads /\ t \notin Requests /\ FaultyHost!Goto(t, "checked") /\ UNCHANGED <<job, hostBulk>>
  BY UpdateJobsAssumption DEF Threads, FaultyHost!BulkCheck
<1>2. "checked" \in HostCounters /\ "checked" \notin HostBusy
  BY HostPlaces
<1>3. OnlyHostThread(t) /\ hostThr'[t].pc = "checked" /\ job' \in [Hosts -> HostJobs]
  BY <1>1, <1>2, HostMoved DEF HostInv, HostTyped
<1> QED
  BY <1>1, <1>2, <1>3, HostCalmKeeps

\* The bulk slot is reserved by the only user of it.
LEMMA SetBulkKeeps ==
    ASSUME HostInv, NEW t \in Bulks, NEW targets, FaultyHost!SetBulk(t, targets),
           \A u \in Bulks \ {t} : ~Active(u)
    PROVE  HostInv' /\ hostThr'[t].pc = "spawned" /\ hostBulk'.running
<1> DEFINE items == [h \in Hosts |-> IF h \in targets THEN "pending" ELSE "absent"]
<1>1. t \in Threads /\ FaultyHost!Goto(t, "spawned") /\ UNCHANGED job
      /\ hostBulk' = [running |-> TRUE, done |-> 0, items |-> items]
  BY DEF Threads, FaultyHost!SetBulk
<1>2. "spawned" \in HostCounters /\ "spawned" \notin HostBusy
  BY HostPlaces
<1>3. OnlyHostThread(t) /\ hostThr'[t].pc = "spawned" /\ job' \in [Hosts -> HostJobs]
  BY <1>1, <1>2, HostMoved DEF HostInv, HostTyped
<1>4. /\ hostBulk' \in HostBulks /\ hostBulk'.running /\ hostBulk'.done = 0
      /\ \A h \in Hosts : hostBulk'.items[h] \in {"pending", "absent"}
  BY <1>1 DEF HostBulks, FaultyHost!ItemStates
<1>5. HostItemsOf(t)'
  BY <1>3, <1>4 DEF HostItemsOf
<1>6. HostCounted'
  <2>1. \A h \in Hosts : hostBulk'.items[h] \notin FaultyHost!Settled
    BY <1>4 DEF FaultyHost!Settled
  <2> QED
    BY <2>1, <1>4, NoneSettled DEF HostCounted
<1> HIDE DEF items
<1>7. HostInv'
  BY <1>2, <1>3, <1>4, <1>5, <1>6, HostBulkKeeps
<1> QED
  BY <1>3, <1>4, <1>7

\* While an orchestrator runs the bulk slot is its own.
LEMMA HostAlone ==
    ASSUME HostInv, NEW t \in Bulks, Active(t)
    PROVE  hostBulk.running /\ HostItemsOf(t) /\ \A u \in Bulks \ {t} : ~Active(u)
  BY DEF HostInv, HostExclusive, HostItems

LEMMA BulkBegins ==
    ASSUME HostInv, NEW t \in Bulks, FaultyHost!BulkBegin(t)
    PROVE  /\ OnlyHostThread(t) /\ hostThr[t].pc = "spawned" /\ hostThr'[t].pc = "loop"
           /\ hostThr'[t].todo = {h \in Hosts : hostBulk.items[h] # "absent"}
           /\ UNCHANGED <<job, hostBulk>>
<1> DEFINE todo == {h \in Hosts : hostBulk.items[h] # "absent"}
           r == [[hostThr[t] EXCEPT !.pc = "loop"] EXCEPT !.todo = todo]
<1>1. hostThr[t] \in HostThreads /\ todo \in SUBSET Hosts /\ "loop" \in HostCounters /\ t \in Threads
  BY DEF HostInv, HostTyped, Threads, HostCounters
<1>2. hostThr' = [hostThr EXCEPT ![t] = r]
  BY <1>1 DEF FaultyHost!BulkBegin, HostInv, HostTyped
<1> HIDE DEF todo
<1>3. r \in HostThreads /\ r.pc = "loop" /\ r.todo = todo
  BY <1>1 DEF HostThreads
<1> HIDE DEF r
<1>4. OnlyHostThread(t) /\ hostThr'[t].pc = "loop" /\ hostThr'[t].todo = todo
  BY <1>1, <1>2, <1>3, HostReplaced DEF HostInv
<1> QED
  BY <1>4 DEF FaultyHost!BulkBegin, todo

LEMMA BulkBeginKeeps ==
    ASSUME HostInv, NEW t \in Bulks, FaultyHost!BulkBegin(t)
    PROVE  HostInv'
<1>1. /\ OnlyHostThread(t) /\ hostThr[t].pc = "spawned" /\ hostThr'[t].pc = "loop"
      /\ hostThr'[t].todo = {h \in Hosts : hostBulk.items[h] # "absent"}
      /\ UNCHANGED <<job, hostBulk>>
  BY BulkBegins
<1>2. hostBulk.running /\ HostItemsOf(t) /\ \A u \in Bulks \ {t} : ~Active(u)
  BY <1>1, HostAlone DEF Active
<1>3. \A h \in Hosts : hostBulk.items[h] \in {"pending", "absent"}
  BY <1>1, <1>2 DEF HostItemsOf
<1>4. "loop" \notin HostBusy
  BY HostPlaces
<1>5. HostItemsOf(t)'
  BY <1>1, <1>3, <1>4 DEF HostItemsOf
<1>6. HostCounted' /\ job' \in [Hosts -> HostJobs] /\ hostBulk' \in HostBulks
  BY <1>1 DEF HostInv, HostCounted, HostTyped
<1> QED
  BY <1>1, <1>2, <1>4, <1>5, <1>6, HostBulkKeeps

LEMMA HostTakes ==
    ASSUME HostInv, NEW t \in Bulks, NEW h \in Hosts, FaultyHost!BulkTake(t, h)
    PROVE  /\ OnlyHostThread(t) /\ hostThr[t].pc = "loop" /\ hostThr'[t].pc = "gate" /\ hostThr'[t].h = h
           /\ hostThr'[t].todo = hostThr[t].todo \ {h} /\ FaultyHost!Ready(t, h) /\ UNCHANGED job
           /\ hostBulk' \in HostBulks /\ hostBulk'.running = hostBulk.running
           /\ hostBulk'.done = hostBulk.done /\ hostBulk'.items[h] = "running"
           /\ \A k \in Hosts \ {h} : hostBulk'.items[k] = hostBulk.items[k]
<1> DEFINE todo == hostThr[t].todo \ {h}
           q == [[hostThr[t] EXCEPT !.pc = "gate"] EXCEPT !.h = h]
           r == [q EXCEPT !.todo = todo]
           i == [hostBulk.items EXCEPT ![h] = "running"]
<1>1. hostThr[t] \in HostThreads /\ "gate" \in HostCounters /\ t \in Threads /\ hostBulk \in HostBulks
  BY DEF HostInv, HostTyped, Threads, HostCounters
<1>2. hostThr' = [hostThr EXCEPT ![t] = r] /\ hostBulk' = [hostBulk EXCEPT !.items = i]
  BY <1>1 DEF FaultyHost!BulkTake, HostInv, HostTyped
<1>3. todo \in SUBSET Hosts
  BY <1>1 DEF HostThreads
<1>4. /\ i \in [Hosts -> FaultyHost!ItemStates] /\ i[h] = "running"
      /\ \A k \in Hosts \ {h} : i[k] = hostBulk.items[k]
  BY <1>1 DEF HostBulks, FaultyHost!ItemStates
<1> HIDE DEF todo, i
<1>5. q \in HostThreads /\ q.pc = "gate" /\ q.h = h
  BY <1>1 DEF HostThreads
<1> HIDE DEF q
<1>6. r \in HostThreads /\ r.pc = "gate" /\ r.h = h /\ r.todo = todo
  BY <1>3, <1>5 DEF HostThreads
<1> HIDE DEF r
<1>7. OnlyHostThread(t) /\ hostThr'[t].pc = "gate" /\ hostThr'[t].h = h /\ hostThr'[t].todo = todo
  BY <1>1, <1>2, <1>6, HostReplaced DEF HostInv
<1>8. /\ hostBulk' \in HostBulks /\ hostBulk'.running = hostBulk.running
      /\ hostBulk'.done = hostBulk.done /\ hostBulk'.items = i
  BY <1>1, <1>2, <1>4 DEF HostBulks
<1> QED
  BY <1>4, <1>7, <1>8 DEF FaultyHost!BulkTake, todo

LEMMA HostTakeKeeps ==
    ASSUME HostInv, NEW t \in Bulks, NEW h \in Hosts, FaultyHost!BulkTake(t, h)
    PROVE  HostInv'
<1>1. /\ OnlyHostThread(t) /\ hostThr[t].pc = "loop" /\ hostThr'[t].pc = "gate" /\ hostThr'[t].h = h
      /\ hostThr'[t].todo = hostThr[t].todo \ {h} /\ UNCHANGED job
      /\ hostBulk' \in HostBulks /\ hostBulk'.running = hostBulk.running
      /\ hostBulk'.done = hostBulk.done /\ hostBulk'.items[h] = "running"
      /\ \A k \in Hosts \ {h} : hostBulk'.items[k] = hostBulk.items[k]
  BY HostTakes
<1>2. h \in hostThr[t].todo
  BY DEF FaultyHost!BulkTake, FaultyHost!Ready
<1>3. hostBulk.running /\ HostItemsOf(t) /\ \A u \in Bulks \ {t} : ~Active(u)
  BY <1>1, HostAlone DEF Active
<1>4. "loop" \notin HostBusy /\ "gate" \in HostBusy
  BY HostPlaces, Zenon
<1>5. \A k \in Hosts : /\ hostBulk.items[k] = "pending" <=> k \in hostThr[t].todo
                       /\ hostBulk.items[k] # "running"
  BY <1>1, <1>3, <1>4 DEF HostItemsOf
<1>6. HostItemsOf(t)'
  BY <1>1, <1>4, <1>5 DEF HostItemsOf
<1>7. HostCounted'
  <2>1. \A k \in Hosts : hostBulk'.items[k] \in FaultyHost!Settled <=> hostBulk.items[k] \in FaultyHost!Settled
    BY <1>1, <1>2, <1>5 DEF FaultyHost!Settled
  <2>2. {k \in Hosts : hostBulk'.items[k] \in FaultyHost!Settled}
            = {k \in Hosts : hostBulk.items[k] \in FaultyHost!Settled}
    BY <2>1
  <2> QED
    BY <2>2, <1>1 DEF HostInv, HostCounted
<1>8. job' \in [Hosts -> HostJobs]
  BY <1>1 DEF HostInv, HostTyped
<1> QED
  BY <1>1, <1>3, <1>6, <1>7, <1>8, HostBulkKeeps

\* The orchestrator settles the host in its hand and goes back to its loop.
LEMMA HostSettles ==
    ASSUME HostInv, NEW t \in Bulks, hostThr[t].pc \in HostBusy, NEW s \in FaultyHost!Settled,
           FaultyHost!Settle(t, s), job' \in [Hosts -> HostJobs]
    PROVE  /\ HostInv' /\ OnlyHostThread(t) /\ hostThr'[t].pc = "loop"
           /\ hostThr'[t].todo = hostThr[t].todo /\ hostBulk'.running
<1> DEFINE h == hostThr[t].h
<1>1. "loop" \notin HostBusy /\ Active(t) /\ hostThr[t].h \in Hosts /\ t \in Threads
      /\ "loop" \in HostCounters /\ hostThr[t].pc # "spawned"
  BY HostPlaces DEF HostInv, HostInHand, Threads, Active
<1>2. OnlyHostThread(t) /\ hostThr'[t].pc = "loop" /\ hostThr'[t].todo = hostThr[t].todo
  BY <1>1, HostMoved DEF FaultyHost!Settle, HostInv
<1>3. hostBulk \in HostBulks /\ s \in FaultyHost!ItemStates /\ s # "pending" /\ s # "running"
  BY DEF HostInv, HostTyped, FaultyHost!ItemStates, FaultyHost!Settled
<1>4. hostBulk' = [hostBulk EXCEPT !.items[h] = s, !.done = @ + 1] /\ h \in Hosts
  BY <1>1 DEF FaultyHost!Settle
<1> HIDE DEF h
<1>5. /\ hostBulk' \in HostBulks /\ hostBulk'.running = hostBulk.running
      /\ hostBulk'.done = hostBulk.done + 1
      /\ hostBulk'.items[h] = s /\ \A k \in Hosts \ {h} : hostBulk'.items[k] = hostBulk.items[k]
  <2> DEFINE i == [hostBulk.items EXCEPT ![h] = s]
             d == hostBulk.done + 1
             b == [hostBulk EXCEPT !.items = i]
  <2>1. hostBulk.items \in [Hosts -> FaultyHost!ItemStates] /\ hostBulk.done \in Nat
    BY <1>3 DEF HostBulks
  <2>2. /\ i \in [Hosts -> FaultyHost!ItemStates] /\ d \in Nat /\ i[h] = s
        /\ \A k \in Hosts \ {h} : i[k] = hostBulk.items[k]
    BY <2>1, <1>3, <1>4
  <2>3. hostBulk' = [b EXCEPT !.done = d]
    BY <1>4
  <2> HIDE DEF i, d
  <2>4. b \in HostBulks /\ b.running = hostBulk.running /\ b.items = i
    BY <1>3, <2>2 DEF HostBulks
  <2> HIDE DEF b
  <2>5. /\ hostBulk' \in HostBulks /\ hostBulk'.running = b.running /\ hostBulk'.done = d
        /\ hostBulk'.items = b.items
    BY <2>2, <2>3, <2>4 DEF HostBulks
  <2> QED
    BY <2>2, <2>4, <2>5 DEF d
<1>6. hostBulk.running /\ HostItemsOf(t) /\ \A u \in Bulks \ {t} : ~Active(u)
  BY <1>1, HostAlone
<1>7. \A k \in Hosts : /\ hostBulk.items[k] = "pending" <=> k \in hostThr[t].todo
                       /\ hostBulk.items[k] = "running" <=> k = h
  BY <1>1, <1>6 DEF HostItemsOf, h
<1>8. HostItemsOf(t)'
  BY <1>1, <1>2, <1>3, <1>4, <1>5, <1>7 DEF HostItemsOf
<1>9. HostCounted'
  <2>1. hostBulk.items[h] \notin FaultyHost!Settled
    BY <1>4, <1>7 DEF FaultyHost!Settled
  <2> DEFINE A == {k \in Hosts : hostBulk.items[k] \in FaultyHost!Settled}
             B == {k \in Hosts : hostBulk'.items[k] \in FaultyHost!Settled}
  <2>2. /\ A \in SUBSET Hosts /\ B \in SUBSET Hosts /\ h \in Hosts /\ h \notin A /\ h \in B
        /\ \A y \in Hosts \ {h} : y \in A <=> y \in B
    BY <2>1, <1>4, <1>5
  <2>3. hostBulk.done = Cardinality(A) /\ hostBulk'.done = hostBulk.done + 1
    BY <1>5 DEF HostInv, HostCounted
  <2>4. HostCounted' = (hostBulk'.done = Cardinality(B))
    BY DEF HostCounted
  <2> HIDE DEF A, B
  <2>5. Cardinality(B) = Cardinality(A) + 1
    BY <2>2, OneSettled, UpdateJobsAssumption
  <2> QED
    BY <2>3, <2>4, <2>5
<1>10. HostInv'
  BY <1>1, <1>2, <1>5, <1>6, <1>8, <1>9, HostBulkKeeps
<1> QED
  BY <1>2, <1>5, <1>6, <1>10

LEMMA HostSkipKeeps ==
    ASSUME HostInv, NEW t \in Bulks, FaultyHost!BulkSkip(t)
    PROVE  /\ HostInv' /\ OnlyHostThread(t) /\ hostThr'[t].pc = "loop"
           /\ hostThr'[t].todo = hostThr[t].todo /\ hostBulk'.running
           /\ hostThr[t].pc = "gate" /\ UNCHANGED job
<1>1. hostThr[t].pc = "gate" /\ FaultyHost!Settle(t, "skipped") /\ UNCHANGED job
  BY DEF FaultyHost!BulkSkip
<1>2. "skipped" \in FaultyHost!Settled /\ job' \in [Hosts -> HostJobs]
  BY <1>1 DEF FaultyHost!Settled, HostInv, HostTyped
<1>3. hostThr[t].pc \in HostBusy
  BY <1>1 DEF HostBusy
<1> QED
  BY <1>1, <1>2, <1>3, HostSettles

\* What the orchestrator does when its worker came back.
LEMMA HostCollects ==
    ASSUME HostInv, NEW t \in Bulks, FaultyHost!Collect(t)
    PROVE  /\ HostInv' /\ OnlyHostThread(t) /\ hostThr'[t].pc = "loop"
           /\ hostThr'[t].todo = hostThr[t].todo /\ hostBulk'.running
           /\ hostThr[t].pc = "collect" /\ \A k \in Hosts : job'[k].running => job[k].running
<1> DEFINE h == hostThr[t].h
           s == IF job[h].success = "yes" THEN "success" ELSE "failed"
           o == IF job[h].success = "none" THEN "no" ELSE job[h].success
           r == [[job[h] EXCEPT !.running = FALSE] EXCEPT !.success = o]
<1>1. hostThr[t].pc = "collect" /\ FaultyHost!Settle(t, s) /\ s \in FaultyHost!Settled
  BY DEF FaultyHost!Collect, FaultyHost!Settled
<1>2. hostThr[t].pc \in HostBusy
  BY <1>1 DEF HostBusy
<1>3. h \in Hosts /\ job[h] \in HostJobs
  BY <1>2 DEF HostInv, HostInHand, HostTyped, Threads
<1>4. job' = job \/ job' = [job EXCEPT ![h] = r]
  BY <1>3 DEF FaultyHost!Collect, HostInv, HostTyped
<1>5. o \in FaultyHost!Outcomes
  BY <1>3 DEF HostJobs, FaultyHost!Outcomes
<1> HIDE DEF o
<1>6. r \in HostJobs /\ ~r.running
  BY <1>3, <1>5 DEF HostJobs
<1> HIDE DEF r, h, s
<1>7. job' \in [Hosts -> HostJobs] /\ \A k \in Hosts : job'[k].running => job[k].running
  BY <1>3, <1>4, <1>6 DEF HostInv, HostTyped
<1> QED
  BY <1>1, <1>2, <1>7, HostSettles

LEMMA HostReserves ==
    ASSUME HostInv, NEW t \in Bulks, FaultyHost!BulkReserve(t)
    PROVE  /\ HostInv' /\ OnlyHostThread(t) /\ hostThr[t].pc = "gate" /\ hostThr'[t].pc = "begin"
           /\ hostThr'[t].todo = hostThr[t].todo /\ hostThr'[t].h = hostThr[t].h
           /\ \A k \in Hosts : job'[k].running => k = hostThr[t].h \/ job[k].running
           /\ UNCHANGED hostBulk
<1>1. hostThr[t].pc = "gate" /\ FaultyHost!Goto(t, "begin") /\ UNCHANGED hostBulk
      /\ job' = [job EXCEPT ![hostThr[t].h] = FaultyHost!NewJob] /\ t \in Threads /\ t \notin Requests
  BY UpdateJobsAssumption DEF FaultyHost!BulkReserve, Threads
<1>2. {"gate", "begin"} \subseteq HostBusy /\ "begin" \in HostCounters
  BY DEF HostBusy, HostCounters, FaultyHost!AtWork
<1>3. /\ OnlyHostThread(t) /\ hostThr'[t].pc = "begin" /\ hostThr'[t].h = hostThr[t].h
      /\ hostThr'[t].todo = hostThr[t].todo
  BY <1>1, <1>2, HostMoved DEF HostInv
<1>4. hostThr[t].h \in Hosts
  BY <1>1, <1>2 DEF HostInv, HostInHand
<1>5. FaultyHost!NewJob \in HostJobs
  BY DEF FaultyHost!NewJob, HostJobs, FaultyHost!Outcomes
<1>6. /\ job' \in [Hosts -> HostJobs]
      /\ \A k \in Hosts : job'[k].running => k = hostThr[t].h \/ job[k].running
  BY <1>1, <1>4, <1>5 DEF HostInv, HostTyped
<1>7. HostInv'
  BY <1>1, <1>2, <1>3, <1>4, <1>6, HostCalmKeeps
<1> QED
  BY <1>1, <1>3, <1>6, <1>7

\* The orchestrator leaves, by the end of its loop or out of it.
LEMMA HostLeaves ==
    ASSUME HostInv, NEW t \in Bulks, FaultyHost!BulkEscapes(t) \/ FaultyHost!BulkEnd(t)
    PROVE  /\ HostInv' /\ OnlyHostThread(t) /\ hostThr'[t].pc = "idle" /\ UNCHANGED job
           /\ hostThr[t].pc \in {"gate", "loop"} /\ hostBulk'.items = hostBulk.items
<1>1. /\ hostThr[t].pc \in {"gate", "loop"} /\ UNCHANGED job /\ t \in Threads
      /\ hostBulk' = [hostBulk EXCEPT !.running = FALSE] /\ hostThr' = [hostThr EXCEPT ![t] = FaultyHost!Idle]
  BY DEF FaultyHost!BulkEscapes, FaultyHost!BulkEnd, Threads
<1>2. OnlyHostThread(t) /\ hostThr'[t].pc = "idle" /\ "idle" \notin HostBusy
  BY <1>1, HostRested, HostPlaces DEF HostInv
<1>3. hostBulk \in HostBulks
  BY DEF HostInv, HostTyped
<1>4. hostBulk' \in HostBulks /\ hostBulk'.done = hostBulk.done /\ hostBulk'.items = hostBulk.items
  BY <1>1, <1>3 DEF HostBulks
<1>5. HostCounted' /\ job' \in [Hosts -> HostJobs]
  BY <1>1, <1>4 DEF HostInv, HostCounted, HostTyped
<1>6. \A u \in Bulks \ {t} : ~Active(u)
  BY <1>1, HostAlone DEF Active
<1>7. HostInv'
  BY <1>2, <1>4, <1>5, <1>6, HostBulkKeeps
<1> QED
  BY <1>1, <1>2, <1>4, <1>7

\* `apply_all_updates' under gevent.
HostApplyAll(t, targets) ==
    hostThr[t].pc = "idle" /\ ~hostBulk.running /\ FaultyHost!SetBulk(t, targets)

HostStep ==
    \/ \E t \in Bulks, targets \in SUBSET Hosts : HostApplyAll(t, targets)
    \/ FaultyHost!Next

\* The places from which an orchestrator goes on are not those of a single update.
LEMMA OrchestratorOnly ==
    ASSUME HostInv, NEW t \in Threads,
           hostThr[t].pc \in {"checked", "spawned", "loop", "gate", "collect"}
    PROVE  t \in Bulks
  BY HostPlaces DEF HostInv, HostInHand, Threads

LEMMA BulkSetKeeps ==
    ASSUME HostInv, HostShape, NEW t \in Threads, NEW targets, FaultyHost!BulkSet(t, targets)
    PROVE  HostInv' /\ t \in Bulks /\ mode # "hosts_bulk"
<1>1. hostThr[t].pc = "checked" /\ FaultyHost!SetBulk(t, targets) /\ t \in Bulks
  BY OrchestratorOnly DEF FaultyHost!BulkSet
<1>2. mode # "hosts_bulk" /\ \A u \in Bulks \ {t} : ~Active(u)
  BY <1>1 DEF HostShape, Active
<1> QED
  BY <1>1, <1>2, SetBulkKeeps

LEMMA HostStepKeeps ==
    ASSUME HostInv, HostShape, HostStep
    PROVE  HostInv'
<1>1. ASSUME NEW t \in Bulks, NEW targets, HostApplyAll(t, targets) PROVE HostInv'
  <2>1. \A u \in Bulks : ~Active(u)
    BY <1>1 DEF HostApplyAll, HostInv, HostExclusive
  <2> QED
    BY <2>1, <1>1, SetBulkKeeps DEF HostApplyAll
<1>2. ASSUME NEW t \in Requests, NEW h \in Hosts, FaultyHost!Apply(t, h) PROVE HostInv'
  BY <1>2, HostApplyKeeps
<1>3. ASSUME NEW t \in Bulks, FaultyHost!BulkCheck(t) PROVE HostInv'
  BY <1>3, BulkCheckKeeps
<1>4. ASSUME NEW h \in Hosts, FaultyHost!Cancel(h) PROVE HostInv'
  BY <1>4, HostCancelKeeps
<1>5. ASSUME NEW t \in Threads, FaultyHost!Advance(t) PROVE HostInv'
  <2>1. CASE HostWorkStep(t)
    BY <2>1, HostWorkKeeps
  <2>2. CASE FaultyHost!End(t)
    BY <2>2, HostEndKeeps
  <2>3. ASSUME NEW targets, FaultyHost!BulkSet(t, targets) PROVE HostInv'
    BY <2>3, BulkSetKeeps
  <2>4. CASE FaultyHost!BulkBegin(t)
    BY <2>4, OrchestratorOnly, BulkBeginKeeps DEF FaultyHost!BulkBegin
  <2>5. ASSUME NEW h \in Hosts, FaultyHost!BulkTake(t, h) PROVE HostInv'
    <3>1. t \in Bulks
      BY <2>5, OrchestratorOnly DEF FaultyHost!BulkTake
    <3> QED
      BY <2>5, <3>1, HostTakeKeeps
  <2>6. CASE FaultyHost!BulkSkip(t)
    BY <2>6, OrchestratorOnly, HostSkipKeeps DEF FaultyHost!BulkSkip
  <2>7. CASE FaultyHost!BulkReserve(t)
    BY <2>7, OrchestratorOnly, HostReserves DEF FaultyHost!BulkReserve
  <2>8. CASE FaultyHost!BulkEscapes(t) \/ FaultyHost!BulkEnd(t)
    <3>1. t \in Bulks
      BY <2>8, OrchestratorOnly DEF FaultyHost!BulkEscapes, FaultyHost!BulkEnd
    <3> QED
      BY <2>8, <3>1, HostLeaves
  <2>9. CASE FaultyHost!Collect(t)
    BY <2>9, OrchestratorOnly, HostCollects DEF FaultyHost!Collect
  <2> QED
    BY <1>5, <2>1, <2>2, <2>3, <2>4, <2>5, <2>6, <2>7, <2>8, <2>9
    DEF FaultyHost!Advance, HostWorkStep
<1>6. ASSUME NEW t \in Bulks, NEW targets, FaultyHost!ApplyAll(t, targets) PROVE FALSE
  BY <1>6 DEF FaultyHost!ApplyAll
<1> QED
  BY <1>1, <1>2, <1>3, <1>4, <1>5, <1>6
  DEF HostStep, FaultyHost!Next, FaultyHost!Start, Threads, FaultyHost!Threads

----------------------------------------------------------------------------
(* What the hosts' modes add. *)

\* A step of a thread under way, but for a query that raises out of the loop.
HostPlainAdvance(t) ==
    \/ HostWorkStep(t) \/ FaultyHost!End(t)
    \/ \E targets \in FaultyHost!Targets : FaultyHost!BulkSet(t, targets)
    \/ FaultyHost!BulkBegin(t)
    \/ \E h \in Hosts : FaultyHost!BulkTake(t, h)
    \/ FaultyHost!BulkSkip(t) \/ FaultyHost!BulkReserve(t) \/ FaultyHost!Collect(t)
    \/ FaultyHost!BulkEnd(t)

\* The steps of greenlets.
GreenletStep ==
    \/ \E t \in Requests, h \in Hosts : FaultyHost!Apply(t, h)
    \/ \E t \in Bulks, targets \in SUBSET Hosts : HostApplyAll(t, targets)
    \/ \E h \in Hosts : FaultyHost!Cancel(h)
    \/ \E t \in Threads : HostPlainAdvance(t)

LEMMA Greenlets ==
    ASSUME Host!Next
    PROVE  GreenletStep
<1>1. ASSUME NEW t \in Threads, Host!Advance(t) PROVE HostPlainAdvance(t)
  <2>1. ASSUME Host!Begin(t) PROVE FaultyHost!Begin(t)
    BY <2>1 DEF Host!Begin, FaultyHost!Begin, Host!Goto, FaultyHost!Goto
  <2>2. ASSUME Host!Apt(t) PROVE FaultyHost!Apt(t)
    BY <2>2 DEF Host!Apt, FaultyHost!Apt
  <2>3. ASSUME Host!Record(t) PROVE FaultyHost!Record(t)
    BY <2>3 DEF Host!Record, FaultyHost!Record, Host!Goto, FaultyHost!Goto
  <2>4. ASSUME Host!End(t) PROVE FaultyHost!End(t)
    BY <2>4 DEF Host!End, FaultyHost!End, Host!Idle, FaultyHost!Idle, Host!NoHost, FaultyHost!NoHost
  <2>5. ASSUME Host!BulkBegin(t) PROVE FaultyHost!BulkBegin(t)
    BY <2>5 DEF Host!BulkBegin, FaultyHost!BulkBegin
  <2>6. ASSUME Host!BulkSkip(t) PROVE FaultyHost!BulkSkip(t)
    BY <2>6 DEF Host!BulkSkip, FaultyHost!BulkSkip, Host!Settle, FaultyHost!Settle, Host!Goto,
         FaultyHost!Goto
  <2>7. ASSUME Host!BulkReserve(t) PROVE FaultyHost!BulkReserve(t)
    BY <2>7 DEF Host!BulkReserve, FaultyHost!BulkReserve, Host!Goto, FaultyHost!Goto, Host!NewJob,
         FaultyHost!NewJob
  <2>8. ASSUME Host!Collect(t) PROVE FaultyHost!Collect(t)
    BY <2>8 DEF Host!Collect, FaultyHost!Collect, Host!Settle, FaultyHost!Settle, Host!Goto,
         FaultyHost!Goto
  <2>9. ASSUME Host!BulkEnd(t) PROVE FaultyHost!BulkEnd(t)
    BY <2>9 DEF Host!BulkEnd, FaultyHost!BulkEnd, Host!Idle, FaultyHost!Idle, Host!NoHost,
         FaultyHost!NoHost
  <2>10. ASSUME NEW targets \in SUBSET Hosts, Host!BulkSet(t, targets) PROVE FaultyHost!BulkSet(t, targets)
    BY <2>10 DEF Host!BulkSet, FaultyHost!BulkSet, Host!SetBulk, FaultyHost!SetBulk, Host!Goto,
         FaultyHost!Goto
  <2>11. ASSUME NEW h \in Hosts, Host!BulkTake(t, h) PROVE FaultyHost!BulkTake(t, h)
    BY <2>11 DEF Host!BulkTake, FaultyHost!BulkTake, Host!Ready, FaultyHost!Ready
  <2>12. ~Host!BulkEscapes(t)
    BY DEF Host!BulkEscapes
  <2>13. \A targets \in Host!Targets : targets \in SUBSET Hosts /\ targets \in FaultyHost!Targets
    BY DEF Host!Targets, FaultyHost!Targets
  <2> QED
    BY <1>1, <2>1, <2>2, <2>3, <2>4, <2>5, <2>6, <2>7, <2>8, <2>9, <2>10, <2>11, <2>12,
       <2>13, Zenon DEF Host!Advance, HostPlainAdvance, HostWorkStep
<1>2. ASSUME NEW t \in Requests, NEW h \in Hosts, Host!Apply(t, h) PROVE FaultyHost!Apply(t, h)
  BY <1>2 DEF Host!Apply, FaultyHost!Apply, Host!NewJob, FaultyHost!NewJob, Host!Idle,
              FaultyHost!Idle, Host!NoHost, FaultyHost!NoHost
<1>3. ASSUME NEW h \in Hosts, Host!Cancel(h) PROVE FaultyHost!Cancel(h)
  BY <1>3 DEF Host!Cancel, FaultyHost!Cancel
<1>4. ASSUME NEW t \in Bulks, NEW targets \in Host!Targets, Host!ApplyAll(t, targets)
      PROVE  targets \in SUBSET Hosts /\ HostApplyAll(t, targets)
  BY <1>4 DEF Host!ApplyAll, HostApplyAll, Host!SetBulk, FaultyHost!SetBulk, Host!Goto,
              FaultyHost!Goto, Host!Targets
<1>5. ASSUME NEW t \in Bulks PROVE ~Host!BulkCheck(t)
  BY DEF Host!BulkCheck
<1> QED
  BY <1>1, <1>2, <1>3, <1>4, <1>5, Zenon
  DEF Host!Next, Host!Start, GreenletStep, Threads, Host!Threads

LEMMA GreenletsAlike ==
    ASSUME GreenletStep
    PROVE  HostStep
<1>1. ASSUME NEW t \in Threads, HostPlainAdvance(t) PROVE FaultyHost!Advance(t)
  BY <1>1, Zenon DEF HostPlainAdvance, FaultyHost!Advance, HostWorkStep
<1> QED
  BY <1>1, Zenon DEF GreenletStep, HostStep, FaultyHost!Next, FaultyHost!Start, Threads,
                     FaultyHost!Threads

LEMMA ThreadsAlike ==
    ASSUME ThreadedHost!Next
    PROVE  FaultyHost!Next
<1>1. ASSUME NEW t \in Threads, ThreadedHost!Advance(t) PROVE FaultyHost!Advance(t)
  <2>1. ASSUME ThreadedHost!Begin(t) PROVE FaultyHost!Begin(t)
    BY <2>1 DEF ThreadedHost!Begin, FaultyHost!Begin, ThreadedHost!Goto, FaultyHost!Goto
  <2>2. ASSUME ThreadedHost!Apt(t) PROVE FaultyHost!Apt(t)
    BY <2>2 DEF ThreadedHost!Apt, FaultyHost!Apt
  <2>3. ASSUME ThreadedHost!Record(t) PROVE FaultyHost!Record(t)
    BY <2>3 DEF ThreadedHost!Record, FaultyHost!Record, ThreadedHost!Goto, FaultyHost!Goto
  <2>4. ASSUME ThreadedHost!End(t) PROVE FaultyHost!End(t)
    BY <2>4 DEF ThreadedHost!End, FaultyHost!End, ThreadedHost!Idle, FaultyHost!Idle,
         ThreadedHost!NoHost, FaultyHost!NoHost
  <2>5. ASSUME ThreadedHost!BulkBegin(t) PROVE FaultyHost!BulkBegin(t)
    BY <2>5 DEF ThreadedHost!BulkBegin, FaultyHost!BulkBegin
  <2>6. ASSUME ThreadedHost!BulkSkip(t) PROVE FaultyHost!BulkSkip(t)
    BY <2>6 DEF ThreadedHost!BulkSkip, FaultyHost!BulkSkip, ThreadedHost!Settle, FaultyHost!Settle,
         ThreadedHost!Goto, FaultyHost!Goto
  <2>7. ASSUME ThreadedHost!BulkReserve(t) PROVE FaultyHost!BulkReserve(t)
    BY <2>7 DEF ThreadedHost!BulkReserve, FaultyHost!BulkReserve, ThreadedHost!Goto, FaultyHost!Goto,
         ThreadedHost!NewJob, FaultyHost!NewJob
  <2>8. ASSUME ThreadedHost!Collect(t) PROVE FaultyHost!Collect(t)
    BY <2>8 DEF ThreadedHost!Collect, FaultyHost!Collect, ThreadedHost!Settle, FaultyHost!Settle,
         ThreadedHost!Goto, FaultyHost!Goto
  <2>9. ASSUME ThreadedHost!BulkEnd(t) PROVE FaultyHost!BulkEnd(t)
    BY <2>9 DEF ThreadedHost!BulkEnd, FaultyHost!BulkEnd, ThreadedHost!Idle, FaultyHost!Idle,
         ThreadedHost!NoHost, FaultyHost!NoHost
  <2>10. ASSUME NEW targets \in SUBSET Hosts, ThreadedHost!BulkSet(t, targets)
         PROVE  FaultyHost!BulkSet(t, targets)
    BY <2>10 DEF ThreadedHost!BulkSet, FaultyHost!BulkSet, ThreadedHost!SetBulk, FaultyHost!SetBulk,
         ThreadedHost!Goto, FaultyHost!Goto
  <2>11. ASSUME NEW h \in Hosts, ThreadedHost!BulkTake(t, h) PROVE FaultyHost!BulkTake(t, h)
    BY <2>11 DEF ThreadedHost!BulkTake, FaultyHost!BulkTake, ThreadedHost!Ready, FaultyHost!Ready
  <2>12. ~ThreadedHost!BulkEscapes(t)
    BY DEF ThreadedHost!BulkEscapes
  <2>13. \A targets \in ThreadedHost!Targets : targets \in SUBSET Hosts /\ targets \in FaultyHost!Targets
    BY DEF ThreadedHost!Targets, FaultyHost!Targets
  <2> QED
    BY <1>1, <2>1, <2>2, <2>3, <2>4, <2>5, <2>6, <2>7, <2>8, <2>9, <2>10, <2>11, <2>12,
       <2>13, Zenon DEF ThreadedHost!Advance, FaultyHost!Advance
<1>2. ASSUME NEW t \in Requests, NEW h \in Hosts, ThreadedHost!Apply(t, h) PROVE FaultyHost!Apply(t, h)
  BY <1>2 DEF ThreadedHost!Apply, FaultyHost!Apply, ThreadedHost!NewJob, FaultyHost!NewJob, ThreadedHost!Idle,
              FaultyHost!Idle, ThreadedHost!NoHost, FaultyHost!NoHost
<1>3. ASSUME NEW h \in Hosts, ThreadedHost!Cancel(h) PROVE FaultyHost!Cancel(h)
  BY <1>3 DEF ThreadedHost!Cancel, FaultyHost!Cancel
<1>4. ASSUME NEW t \in Bulks, NEW targets PROVE ~ThreadedHost!ApplyAll(t, targets)
  BY DEF ThreadedHost!ApplyAll
<1>5. ASSUME NEW t \in Bulks, ThreadedHost!BulkCheck(t) PROVE FaultyHost!BulkCheck(t)
  BY <1>5 DEF ThreadedHost!BulkCheck, FaultyHost!BulkCheck, ThreadedHost!Goto, FaultyHost!Goto
<1> QED
  BY <1>1, <1>2, <1>3, <1>4, <1>5, Zenon
  DEF ThreadedHost!Next, ThreadedHost!Start, FaultyHost!Next, FaultyHost!Start, Threads,
      ThreadedHost!Threads, FaultyHost!Threads

LEMMA HostStart ==
    ASSUME Host!Init
    PROVE  HostInv
<1>1. /\ job = [h \in Hosts |-> FaultyHost!NoJob]
      /\ hostBulk = [running |-> FALSE, done |-> 0, items |-> [h \in Hosts |-> "absent"]]
      /\ hostThr = [t \in Threads |-> FaultyHost!Idle]
  BY DEF Host!Init, Host!NoJob, FaultyHost!NoJob, Host!Idle, FaultyHost!Idle, Threads,
         Host!Threads, Host!NoHost, FaultyHost!NoHost
<1>2. FaultyHost!NoJob \in HostJobs
  BY DEF FaultyHost!NoJob, HostJobs, FaultyHost!Outcomes
<1>3. hostBulk \in HostBulks /\ \A h \in Hosts : hostBulk.items[h] = "absent"
  BY <1>1 DEF HostBulks, FaultyHost!ItemStates
<1>4. HostTyped
  BY <1>1, <1>2, <1>3, HostIdleTyped DEF HostTyped
<1>5. \A t \in Threads : hostThr[t].pc = "idle"
  BY <1>1, HostIdleTyped
<1>6. HostInHand /\ HostExclusive /\ HostItems
  BY <1>5, HostPlaces DEF HostInHand, HostExclusive, HostItems, Threads, Active
<1>7. HostCounted
  <2>1. \A h \in Hosts : hostBulk.items[h] \notin FaultyHost!Settled
    BY <1>3 DEF FaultyHost!Settled
  <2> QED
    BY <2>1, <1>1, NoneSettled DEF HostCounted
<1> QED
  BY <1>4, <1>6, <1>7 DEF HostInv

LEMMA HostTypesOK ==
    ASSUME HostInv
    PROVE  Host!TypeOK
<1> DEFINE A == {h \in Hosts : hostBulk.items[h] \in FaultyHost!Settled}
<1>1. hostBulk.done = Cardinality(A)
  BY DEF HostInv, HostCounted
<1>2. A \in SUBSET Hosts
  OBVIOUS
<1> HIDE DEF A
<1>3. Cardinality(A) \in 0..Cardinality(Hosts)
  <2>1. IsFiniteSet(Hosts)
    BY UpdateJobsAssumption
  <2>2. IsFiniteSet(A) /\ Cardinality(A) <= Cardinality(Hosts)
    BY <1>2, <2>1, FS_Subset
  <2> QED
    BY <2>1, <2>2, FS_CardinalityType
<1>4. hostBulk.done \in 0..Host!Cardinality(Hosts)
  BY <1>1, <1>3, SameSize
<1>5. job \in [Hosts -> [running: BOOLEAN, success: Host!Outcomes, cancelled: BOOLEAN]]
  BY DEF HostInv, HostTyped, HostJobs, Host!Outcomes, FaultyHost!Outcomes
<1>6. hostBulk \in [running: BOOLEAN, done: 0..Host!Cardinality(Hosts), items: [Hosts -> Host!ItemStates]]
  BY <1>4 DEF HostInv, HostTyped, HostBulks, Host!ItemStates, FaultyHost!ItemStates
<1>7. hostThr \in [Host!Threads ->
                     [pc: Host!AtWork \cup {"idle", "checked", "spawned", "loop", "gate", "collect"},
                      h: Hosts \cup {Host!NoHost}, ok: BOOLEAN, todo: SUBSET Hosts]]
  BY DEF HostInv, HostTyped, HostThreads, Threads, Host!Threads, HostCounters,
         Host!AtWork, FaultyHost!AtWork, Host!NoHost
<1> QED
  BY <1>5, <1>6, <1>7 DEF Host!TypeOK

\* Single updates alone: a host's record runs as long as a worker is on the
\* host, and no two are.
HostSingle ==
    /\ \A t \in Bulks : hostThr[t].pc = "idle"
    /\ \A t \in Requests : hostThr[t].pc \in FaultyHost!AtWork => job[hostThr[t].h].running
    /\ \A t, u \in Requests :
          hostThr[t].pc \in FaultyHost!AtWork /\ hostThr[u].pc \in FaultyHost!AtWork
             /\ hostThr[t].h = hostThr[u].h => t = u

LEMMA HostUnderWay ==
    ASSUME NEW t, FaultyHost!Advance(t)
    PROVE  hostThr[t].pc # "idle"
  BY DEF FaultyHost!Advance, FaultyHost!Begin, FaultyHost!Apt, FaultyHost!Record, FaultyHost!End,
         FaultyHost!BulkSet, FaultyHost!BulkBegin, FaultyHost!BulkTake, FaultyHost!BulkSkip,
         FaultyHost!BulkReserve, FaultyHost!BulkEscapes, FaultyHost!Collect, FaultyHost!BulkEnd

LEMMA HostSingleKeeps ==
    ASSUME HostInv, HostSingle, FaultyHost!Next, \A t \in Bulks : hostThr'[t].pc = "idle"
    PROVE  HostSingle'
<1>0. \A t \in Requests : hostThr[t].pc \in FaultyHost!AtWork => hostThr[t].h \in Hosts
  BY HostPlaces DEF HostInv, HostInHand, Threads
<1>1. ASSUME NEW t \in Requests, NEW h \in Hosts, FaultyHost!Apply(t, h) PROVE HostSingle'
  <2>1. t \in Threads /\ HostTyped /\ ~job[h].running /\ job' = [job EXCEPT ![h] = FaultyHost!NewJob]
    BY <1>1 DEF Threads, HostInv, FaultyHost!Apply
  <2>2. OnlyHostThread(t) /\ hostThr'[t].pc = "begin" /\ hostThr'[t].h = h
    BY <1>1, <2>1, HostStarted DEF FaultyHost!Apply
  <2>3. \A u \in Requests \ {t} : hostThr'[u] = hostThr[u]
    BY <2>2 DEF OnlyHostThread, Threads
  <2>4. job'[h].running /\ \A k \in Hosts \ {h} : job'[k] = job[k]
    BY <2>1 DEF HostTyped, FaultyHost!NewJob
  <2>5. \A u \in Requests \ {t} : hostThr[u].pc \in FaultyHost!AtWork =>
            hostThr[u].h \in Hosts \ {h} /\ job'[hostThr[u].h].running
    BY <1>0, <2>1, <2>4 DEF HostSingle
  <2> QED
    BY <2>2, <2>3, <2>4, <2>5 DEF HostSingle
<1>2. ASSUME NEW h \in Hosts, FaultyHost!Cancel(h) PROVE HostSingle'
  <2>1. UNCHANGED hostThr /\ \A k \in Hosts : job'[k].running = job[k].running
    BY <1>2, HostCancels
  <2> QED
    BY <1>0, <2>1 DEF HostSingle
<1>3. ASSUME NEW t \in Bulks, FaultyHost!BulkCheck(t) PROVE FALSE
  <2>1. hostThr'[t].pc = "checked"
    BY <1>3, HostMoved, HostPlaces DEF FaultyHost!BulkCheck, HostInv, Threads
  <2> QED
    BY <2>1
<1>4. ASSUME NEW t \in Bulks, NEW targets, FaultyHost!ApplyAll(t, targets) PROVE FALSE
  BY <1>4 DEF FaultyHost!ApplyAll
<1>5. ASSUME NEW t \in Threads, FaultyHost!Advance(t) PROVE HostSingle'
  <2>1. t \in Requests /\ t \notin Bulks /\ hostThr[t].pc \in FaultyHost!AtWork
    BY <1>5, HostUnderWay, UpdateJobsAssumption DEF HostSingle, Threads, HostInv, HostInHand
  <2>2. CASE HostWorkStep(t)
    <3>1. /\ UNCHANGED job /\ hostThr'[t].h = hostThr[t].h
          /\ \A u \in Requests \ {t} : hostThr'[u] = hostThr[u]
      BY <2>2, HostWorks DEF HostInv, OnlyHostThread, Threads
    <3> QED
      BY <2>1, <3>1 DEF HostSingle
  <2>3. CASE FaultyHost!End(t)
    <3>1. /\ hostThr'[t].pc = "idle" /\ \A u \in Requests \ {t} : hostThr'[u] = hostThr[u]
          /\ \A h \in Hosts \ {hostThr[t].h} : job'[h] = job[h]
      BY <2>1, <2>3, HostEnds DEF OnlyHostThread, Threads
    <3>2. "idle" \notin FaultyHost!AtWork
      BY HostPlaces
    <3>3. \A u \in Requests \ {t} : hostThr[u].pc \in FaultyHost!AtWork =>
              hostThr[u].h \in Hosts \ {hostThr[t].h}
      BY <1>0, <2>1 DEF HostSingle
    <3> QED
      BY <3>1, <3>2, <3>3 DEF HostSingle
  <2>4. hostThr[t].pc \notin {"checked", "spawned", "loop", "gate", "collect"}
    BY <2>1, HostPlaces
  <2>5. HostWorkStep(t) \/ FaultyHost!End(t)
    BY <1>5, <2>4 DEF FaultyHost!Advance, HostWorkStep, FaultyHost!BulkSet, FaultyHost!BulkBegin,
         FaultyHost!BulkTake, FaultyHost!BulkSkip, FaultyHost!BulkReserve, FaultyHost!BulkEscapes,
         FaultyHost!Collect, FaultyHost!BulkEnd
  <2> QED
    BY <2>2, <2>3, <2>5
<1> QED
  BY <1>1, <1>2, <1>3, <1>4, <1>5
  DEF FaultyHost!Next, FaultyHost!Start, Threads, FaultyHost!Threads

\* Bulk runs of greenlets alone: one that ended has settled its hosts, a record
\* runs only while the orchestrator's worker is on the host, and once a backup
\* server is in its hand no node is left on its list.
GreenletInv ==
    /\ \A t \in Requests : hostThr[t].pc = "idle"
    /\ \A t \in Bulks : hostThr[t].pc # "checked"
    /\ ~hostBulk.running => \A h \in Hosts : hostBulk.items[h] \in FaultyHost!Settled \cup {"absent"}
    /\ \A h \in Hosts : job[h].running =>
          \E t \in Bulks : hostThr[t].pc \in FaultyHost!AtWork /\ hostThr[t].h = h
    /\ \A t \in Bulks : hostThr[t].pc \in HostBusy /\ hostThr[t].h \in Pbs => hostThr[t].todo \subseteq Pbs

LEMMA GreenletKeeps ==
    ASSUME GreenletInv, NEW t \in Bulks, OnlyHostThread(t), \A u \in Requests : hostThr'[u].pc = "idle",
           hostThr'[t].pc # "checked",
           ~hostBulk'.running => \A h \in Hosts : hostBulk'.items[h] \in FaultyHost!Settled \cup {"absent"},
           \A h \in Hosts : job'[h].running =>
               \/ hostThr'[t].pc \in FaultyHost!AtWork /\ hostThr'[t].h = h
               \/ job[h].running /\ ~(hostThr[t].pc \in FaultyHost!AtWork /\ hostThr[t].h = h),
           hostThr'[t].pc \in HostBusy /\ hostThr'[t].h \in Pbs => hostThr'[t].todo \subseteq Pbs
    PROVE  GreenletInv'
<1>1. \A u \in Bulks \ {t} : hostThr'[u] = hostThr[u]
  BY DEF OnlyHostThread, Threads
<1>2. ASSUME NEW h \in Hosts, job'[h].running
      PROVE  \E u \in Bulks : hostThr'[u].pc \in FaultyHost!AtWork /\ hostThr'[u].h = h
  <2>1. CASE hostThr'[t].pc \in FaultyHost!AtWork /\ hostThr'[t].h = h
    BY <2>1
  <2>2. CASE job[h].running /\ ~(hostThr[t].pc \in FaultyHost!AtWork /\ hostThr[t].h = h)
    <3>1. PICK u \in Bulks : hostThr[u].pc \in FaultyHost!AtWork /\ hostThr[u].h = h
      BY <2>2 DEF GreenletInv
    <3> QED
      BY <2>2, <3>1, <1>1
  <2> QED
    BY <1>2, <2>1, <2>2
<1>3. \A u \in Bulks : hostThr'[u].pc \in HostBusy /\ hostThr'[u].h \in Pbs => hostThr'[u].todo \subseteq Pbs
  BY <1>1 DEF GreenletInv
<1>4. \A u \in Bulks : hostThr'[u].pc # "checked"
  BY <1>1 DEF GreenletInv
<1> QED
  BY <1>2, <1>3, <1>4 DEF GreenletInv

LEMMA GreenletStepKeeps ==
    ASSUME HostInv, HostShape, mode = "hosts_bulk", GreenletInv, GreenletStep,
           \A u \in Requests : hostThr'[u].pc = "idle"
    PROVE  GreenletInv'
<1>1. ASSUME NEW t \in Requests, NEW h \in Hosts, FaultyHost!Apply(t, h) PROVE FALSE
  <2>1. hostThr'[t].pc = "begin"
    BY <1>1, HostStarted DEF FaultyHost!Apply, HostInv, Threads
  <2> QED
    BY <2>1
<1>2. ASSUME NEW t \in Bulks, NEW targets, HostApplyAll(t, targets) PROVE GreenletInv'
  <2>1. /\ hostThr[t].pc = "idle" /\ UNCHANGED job /\ hostBulk'.running
        /\ OnlyHostThread(t) /\ hostThr'[t].pc = "spawned"
    <3>1. hostThr[t].pc = "idle" /\ UNCHANGED job /\ FaultyHost!Goto(t, "spawned") /\ hostBulk'.running
      BY <1>2 DEF HostApplyAll, FaultyHost!SetBulk
    <3> QED
      BY <3>1, HostMoved, HostPlaces DEF HostInv, Threads
  <2>2. "idle" \notin FaultyHost!AtWork /\ "spawned" \notin HostBusy
    BY HostPlaces
  <2> QED
    BY <2>1, <2>2, GreenletKeeps
<1>3. ASSUME NEW h \in Hosts, FaultyHost!Cancel(h) PROVE GreenletInv'
  <2>1. UNCHANGED <<hostBulk, hostThr>> /\ \A k \in Hosts : job'[k].running = job[k].running
    BY <1>3, HostCancels
  <2> QED
    BY <2>1 DEF GreenletInv
<1>4. ASSUME NEW t \in Threads, HostPlainAdvance(t) PROVE GreenletInv'
  <2>0. t \in Bulks
    <3>1. FaultyHost!Advance(t)
      BY <1>4, Zenon DEF HostPlainAdvance, FaultyHost!Advance, HostWorkStep
    <3> QED
      BY <3>1, HostUnderWay DEF GreenletInv, Threads
  <2>a. ASSUME hostThr[t].pc \notin {"idle", "checked"} PROVE hostBulk.running
    BY <2>0, <2>a, HostAlone DEF Active
  <2>p. /\ FaultyHost!AtWork \cap {"idle", "checked", "spawned", "loop", "gate", "collect"} = {}
        /\ HostBusy \cap {"idle", "checked", "spawned", "loop"} = {} /\ "gate" \in HostBusy
        /\ FaultyHost!AtWork \subseteq HostBusy /\ "end" \in FaultyHost!AtWork /\ "begin" \in FaultyHost!AtWork
    BY DEF HostBusy, FaultyHost!AtWork
  <2>1. CASE HostWorkStep(t)
    <3>1. /\ UNCHANGED <<job, hostBulk>> /\ OnlyHostThread(t)
          /\ hostThr[t].pc \in FaultyHost!AtWork /\ hostThr'[t].pc \in FaultyHost!AtWork
          /\ hostThr'[t].h = hostThr[t].h /\ hostThr'[t].todo = hostThr[t].todo
      BY <2>1, HostWorks DEF HostInv
    <3>2. hostThr[t].pc \in HostBusy /\ hostBulk'.running /\ hostThr'[t].pc # "checked"
      BY <3>1, <2>a, <2>p
    <3>3. hostThr'[t].pc \in HostBusy /\ hostThr'[t].h \in Pbs => hostThr'[t].todo \subseteq Pbs
      BY <2>0, <3>1, <3>2 DEF GreenletInv
    <3> QED
      BY <2>0, <3>1, <3>2, <3>3, GreenletKeeps
  <2>2. CASE FaultyHost!End(t)
    <3>1. /\ UNCHANGED hostBulk /\ OnlyHostThread(t) /\ hostThr[t].pc = "end" /\ hostThr[t].h \in Hosts
          /\ ~job'[hostThr[t].h].running
          /\ \A h \in Hosts \ {hostThr[t].h} : job'[h] = job[h]
          /\ hostThr'[t].h = hostThr[t].h /\ hostThr'[t].todo = hostThr[t].todo
          /\ hostThr'[t].pc = "collect"
      BY <2>0, <2>2, HostEnds
    <3>2. hostThr[t].pc \in HostBusy /\ hostBulk'.running
      BY <3>1, <2>a, <2>p
    <3>3. hostThr'[t].pc \in HostBusy /\ hostThr'[t].h \in Pbs => hostThr'[t].todo \subseteq Pbs
      BY <2>0, <3>1, <3>2 DEF GreenletInv
    <3>4. \A h \in Hosts : job'[h].running => job[h].running /\ hostThr[t].h # h
      BY <3>1
    <3> QED
      BY <2>0, <3>1, <3>2, <3>3, <3>4, GreenletKeeps
  <2>3. ASSUME NEW targets, FaultyHost!BulkSet(t, targets) PROVE FALSE
    BY <2>3, BulkSetKeeps
  <2>4. CASE FaultyHost!BulkBegin(t)
    <3>1. /\ OnlyHostThread(t) /\ hostThr[t].pc = "spawned" /\ hostThr'[t].pc = "loop"
          /\ UNCHANGED <<job, hostBulk>>
      BY <2>0, <2>4, BulkBegins
    <3>2. hostThr[t].pc \notin FaultyHost!AtWork /\ hostThr'[t].pc \notin HostBusy /\ hostBulk'.running
      BY <3>1, <2>a, <2>p
    <3> QED
      BY <2>0, <3>1, <3>2, GreenletKeeps
  <2>5. ASSUME NEW h \in Hosts, FaultyHost!BulkTake(t, h) PROVE GreenletInv'
    <3>1. /\ OnlyHostThread(t) /\ hostThr[t].pc = "loop" /\ hostThr'[t].pc = "gate" /\ hostThr'[t].h = h
          /\ hostThr'[t].todo = hostThr[t].todo \ {h} /\ FaultyHost!Ready(t, h) /\ UNCHANGED job
          /\ hostBulk'.running = hostBulk.running
      BY <2>0, <2>5, HostTakes
    <3>2. hostThr[t].pc \notin FaultyHost!AtWork /\ hostBulk'.running
      BY <3>1, <2>a, <2>p
    <3>3. hostThr'[t].h \in Pbs => hostThr'[t].todo \subseteq Pbs
      BY <3>1 DEF FaultyHost!Ready
    <3> QED
      BY <2>0, <3>1, <3>2, <3>3, GreenletKeeps
  <2>6. CASE FaultyHost!BulkSkip(t)
    <3>1. /\ OnlyHostThread(t) /\ hostThr'[t].pc = "loop" /\ hostBulk'.running
          /\ hostThr[t].pc = "gate" /\ UNCHANGED job
      BY <2>0, <2>6, HostSkipKeeps
    <3>2. hostThr[t].pc \notin FaultyHost!AtWork /\ hostThr'[t].pc \notin HostBusy
      BY <3>1, <2>p
    <3> QED
      BY <2>0, <3>1, <3>2, GreenletKeeps
  <2>7. CASE FaultyHost!BulkReserve(t)
    <3>1. /\ OnlyHostThread(t) /\ hostThr[t].pc = "gate" /\ hostThr'[t].pc = "begin"
          /\ hostThr'[t].todo = hostThr[t].todo /\ hostThr'[t].h = hostThr[t].h
          /\ \A k \in Hosts : job'[k].running => k = hostThr[t].h \/ job[k].running
          /\ UNCHANGED hostBulk
      BY <2>0, <2>7, HostReserves
    <3>2. /\ hostThr[t].pc \notin FaultyHost!AtWork /\ hostThr'[t].pc \in FaultyHost!AtWork
          /\ hostBulk'.running /\ hostThr[t].pc \in HostBusy
      BY <3>1, <2>a, <2>p
    <3>3. hostThr'[t].h \in Pbs => hostThr'[t].todo \subseteq Pbs
      BY <2>0, <3>1, <3>2 DEF GreenletInv
    <3> QED
      BY <2>0, <3>1, <3>2, <3>3, GreenletKeeps
  <2>8. CASE FaultyHost!Collect(t)
    <3>1. /\ OnlyHostThread(t) /\ hostThr'[t].pc = "loop" /\ hostBulk'.running
          /\ hostThr[t].pc = "collect" /\ \A k \in Hosts : job'[k].running => job[k].running
      BY <2>0, <2>8, HostCollects
    <3>2. hostThr[t].pc \notin FaultyHost!AtWork /\ hostThr'[t].pc \notin HostBusy
      BY <3>1, <2>p
    <3> QED
      BY <2>0, <3>1, <3>2, GreenletKeeps
  <2>9. CASE FaultyHost!BulkEnd(t)
    <3>1. /\ OnlyHostThread(t) /\ hostThr'[t].pc = "idle" /\ UNCHANGED job
          /\ hostBulk'.items = hostBulk.items
      BY <2>0, <2>9, HostLeaves
    <3>2. hostThr[t].pc = "loop" /\ hostThr[t].todo = {}
      BY <2>9 DEF FaultyHost!BulkEnd
    <3>3. hostThr[t].pc \notin FaultyHost!AtWork /\ hostThr[t].pc \notin HostBusy /\ hostThr'[t].pc \notin HostBusy
      BY <3>1, <3>2, <2>p
    <3>4. HostItemsOf(t)
      BY <2>0, <3>2, HostAlone DEF Active
    <3>5. \A h \in Hosts : hostBulk.items[h] # "pending" /\ hostBulk.items[h] # "running"
      BY <3>2, <3>3, <3>4 DEF HostItemsOf
    <3>6. \A h \in Hosts : hostBulk.items[h] \in FaultyHost!ItemStates
      BY DEF HostInv, HostTyped, HostBulks
    <3>7. \A h \in Hosts : hostBulk'.items[h] \in FaultyHost!Settled \cup {"absent"}
      BY <3>1, <3>5, <3>6 DEF FaultyHost!ItemStates, FaultyHost!Settled
    <3> QED
      BY <2>0, <3>1, <3>3, <3>7, GreenletKeeps
  <2> QED
    BY <1>4, <2>1, <2>2, <2>3, <2>4, <2>5, <2>6, <2>7, <2>8, <2>9 DEF HostPlainAdvance
<1> QED
  BY <1>1, <1>2, <1>3, <1>4 DEF GreenletStep

LEMMA GreenletPromises ==
    ASSUME HostInv, HostShape, mode = "hosts_bulk", GreenletInv
    PROVE  Host!BulkExclusive /\ Host!BulkAccounted /\ Host!PbsAfterNodes
<1>0. Host!Settled = FaultyHost!Settled /\ Host!AtWork = FaultyHost!AtWork
  BY DEF Host!Settled, FaultyHost!Settled, Host!AtWork, FaultyHost!AtWork
<1>1. Host!BulkExclusive
  BY DEF HostInv, HostExclusive, Active, Host!BulkExclusive
<1>2. Host!BulkAccounted
  <2>1. hostBulk.done = Host!Cardinality({h \in Hosts : hostBulk.items[h] \in Host!Settled})
    BY <1>0, SameSize DEF HostInv, HostCounted
  <2> QED
    BY <1>0, <2>1 DEF GreenletInv, Host!BulkAccounted
<1>3. Host!PbsAfterNodes
  <2> SUFFICES ASSUME NEW t \in Bulks, hostThr[t].pc \in FaultyHost!AtWork, hostThr[t].h \in Pbs,
                      NEW h \in Hosts \ Pbs
               PROVE  hostBulk.items[h] \in FaultyHost!Settled \cup {"absent"} /\ ~job[h].running
    BY <1>0 DEF Host!PbsAfterNodes
  <2>1. Active(t) /\ hostThr[t].pc \in HostBusy /\ hostThr[t].pc # "spawned"
    BY HostPlaces DEF Active
  <2>2. HostItemsOf(t) /\ \A u \in Bulks \ {t} : ~Active(u)
    BY <2>1, HostAlone
  <2>3. hostThr[t].todo \subseteq Pbs
    BY <2>1 DEF GreenletInv
  <2>4. hostBulk.items[h] # "pending" /\ hostBulk.items[h] # "running"
    BY <2>1, <2>2, <2>3 DEF HostItemsOf
  <2>5. hostBulk.items[h] \in FaultyHost!ItemStates
    BY DEF HostInv, HostTyped, HostBulks
  <2>6. ~job[h].running
    <3> SUFFICES ASSUME job[h].running PROVE FALSE
      OBVIOUS
    <3>1. PICK u \in Bulks : hostThr[u].pc \in FaultyHost!AtWork /\ hostThr[u].h = h
      BY DEF GreenletInv
    <3>2. Active(u)
      BY <3>1, HostPlaces DEF Active
    <3>3. u = t
      BY <2>2, <3>2
    <3> QED
      BY <3>1, <3>3
  <2> QED
    BY <2>4, <2>5, <2>6 DEF FaultyHost!ItemStates, FaultyHost!Settled
<1> QED
  BY <1>1, <1>2, <1>3

----------------------------------------------------------------------------
(* Guests and hosts together. *)

Modes == {"guests", "guests_bulk", "guests_mixed", "guests_db", "guests_db_bulk",
          "hosts", "hosts_bulk", "hosts_mixed"}

UpdatesInv ==
    /\ mode \in Modes
    /\ GuestInv /\ HostInv /\ HostShape
    /\ mode \notin DbModes => GuestEnded
    /\ mode = "guests" => SingleInv
    /\ mode = "guests_bulk" => \A t \in Requests : thr[t].pc = "idle"
    /\ mode = "hosts" => HostSingle
    /\ mode = "hosts_bulk" => GreenletInv

LEMMA ModesKnown ==
    /\ DOMAIN GuestModes = {"guests", "guests_bulk", "guests_mixed", "guests_db", "guests_db_bulk"}
    /\ DOMAIN HostModes = {"hosts", "hosts_bulk", "hosts_mixed"}
    /\ GuestModes["guests"].threads = Requests /\ GuestModes["guests_bulk"].threads = Bulks
    /\ HostModes["hosts"].threads = Requests /\ HostModes["hosts_bulk"].threads = Bulks
    /\ HostModes["hosts_mixed"].threads = {r1, b1}
  BY DEF GuestModes, HostModes

LEMMA UpdatesStart ==
    ASSUME MCInit
    PROVE  UpdatesInv
<1>1. mode \in Modes
  BY ModesKnown DEF MCInit, Modes
<1>2. GuestInv /\ HostInv
  BY GuestStart, HostStart DEF MCInit
<1>3. /\ \A t \in Threads : thr[t].pc = "idle" /\ hostThr[t].pc = "idle"
      /\ \A g \in Guests : slot[g] = 0 /\ bulk.items[g] = "absent"
      /\ \A h \in Hosts : ~job[h].running /\ hostBulk.items[h] = "absent"
  BY DEF MCInit, Guest!Init, Host!Init, Guest!Idle, Host!Idle, Threads, Guest!Threads, Host!Threads,
         Host!NoJob
<1>4. GuestEnded /\ SingleInv
  BY <1>3, HoldingPlaces DEF GuestEnded, SingleInv, Threads
<1>5. HostShape /\ HostSingle /\ GreenletInv
  BY <1>3, HostPlaces DEF HostShape, HostSingle, GreenletInv, Threads
<1> QED
  BY <1>1, <1>2, <1>3, <1>4, <1>5 DEF UpdatesInv, Threads

LEMMA GuestStepSound ==
    ASSUME UpdatesInv, GuestNext
    PROVE  UpdatesInv' /\ FaultyGuest!Next
<1>1. /\ mode \in {"guests", "guests_bulk", "guests_mixed", "guests_db", "guests_db_bulk"}
      /\ UNCHANGED <<mode, job, hostBulk, hostThr>> /\ GuestsOfMode
      /\ mode \notin DbModes => Guest!Next
      /\ mode \in DbModes => FaultyGuest!Next
  BY ModesKnown DEF GuestNext, hostVars
<1>2. /\ FaultyGuest!Next
      /\ mode \notin DbModes => FaultyGuest!Start \/ \E t \in Threads : PlainAdvance(t)
  BY <1>1, Plain
<1>3. GuestInv'
  BY <1>2, GuestStepKeeps DEF UpdatesInv
<1>4. mode \notin DbModes => GuestEnded'
  BY <1>2, EndedKeeps DEF UpdatesInv
<1>5. \A t \in Threads \ GuestModes[mode].threads : thr'[t].pc = "idle"
  BY <1>1 DEF GuestsOfMode, Guest!Idle
<1>6. mode = "guests" => SingleInv'
  <2> SUFFICES ASSUME mode = "guests" PROVE SingleInv'
    OBVIOUS
  <2>1. \A t \in Bulks : thr'[t].pc = "idle"
    BY <1>5, ModesKnown, UpdateJobsAssumption DEF Threads
  <2> QED
    BY <2>1, <1>2, SingleStepKeeps DEF UpdatesInv
<1>7. mode = "guests_bulk" => \A t \in Requests : thr'[t].pc = "idle"
  BY <1>5, ModesKnown, UpdateJobsAssumption DEF Threads
<1>8. HostInv' /\ HostShape'
  BY <1>1 DEF UpdatesInv, HostInv, HostTyped, HostInHand, HostExclusive, HostItems, HostItemsOf,
              HostCounted, Active, HostShape
<1>9. mode' = mode /\ mode \notin {"hosts", "hosts_bulk"}
  BY <1>1
<1> QED
  BY <1>2, <1>3, <1>4, <1>6, <1>7, <1>8, <1>9 DEF UpdatesInv

LEMMA HostStepSound ==
    ASSUME UpdatesInv, HostNext
    PROVE  UpdatesInv' /\ UNCHANGED thr
<1>1. /\ mode \in {"hosts", "hosts_bulk", "hosts_mixed"}
      /\ UNCHANGED <<mode, jobs, slot, bulk, thr>> /\ HostsOfMode
      /\ mode = "hosts_bulk" => Host!Next
      /\ mode = "hosts" => ThreadedHost!Next
      /\ mode = "hosts_mixed" => FaultyHost!Next
  BY ModesKnown DEF HostNext, guestVars
<1>2. /\ mode = "hosts_bulk" => GreenletStep
      /\ mode = "hosts" => FaultyHost!Next
      /\ HostStep
  BY <1>1, Greenlets, GreenletsAlike, ThreadsAlike DEF HostStep
<1>3. HostInv'
  BY <1>2, HostStepKeeps DEF UpdatesInv
<1>4. \A t \in Threads \ HostModes[mode].threads : hostThr'[t].pc = "idle"
  BY <1>1 DEF HostsOfMode, Host!Idle
<1>5. mode = "hosts" => HostSingle' /\ \A t \in Bulks : hostThr'[t].pc = "idle"
  <2> SUFFICES ASSUME mode = "hosts" PROVE HostSingle' /\ \A t \in Bulks : hostThr'[t].pc = "idle"
    OBVIOUS
  <2>1. \A t \in Bulks : hostThr'[t].pc = "idle"
    BY <1>4, ModesKnown, UpdateJobsAssumption DEF Threads
  <2> QED
    BY <2>1, <1>2, HostSingleKeeps DEF UpdatesInv
<1>6. mode = "hosts_bulk" => GreenletInv'
  <2> SUFFICES ASSUME mode = "hosts_bulk" PROVE GreenletInv'
    OBVIOUS
  <2>1. \A t \in Requests : hostThr'[t].pc = "idle"
    BY <1>4, ModesKnown, UpdateJobsAssumption DEF Threads
  <2> QED
    BY <2>1, <1>2, GreenletStepKeeps DEF UpdatesInv
<1>7. mode = "hosts_mixed" => \A t \in Bulks \ {b1} : hostThr'[t].pc = "idle"
  BY <1>4, ModesKnown, UpdateJobsAssumption DEF Threads
<1>8. mode = "hosts_bulk" => \A t \in Bulks : hostThr'[t].pc # "checked"
  BY <1>6 DEF GreenletInv
<1>9. HostShape'
  BY <1>1, <1>5, <1>7, <1>8 DEF HostShape
<1>10. GuestInv' /\ GuestEnded' = GuestEnded
  BY <1>1 DEF UpdatesInv, GuestInv, GuestTyped, GuestInHand, FaultyGuest!BulkExclusive, GuestItems,
              GuestCounted, GuestEnded
<1>11. mode' = mode /\ mode \notin {"guests", "guests_bulk"} \cup DbModes
  BY <1>1 DEF DbModes
<1> QED
  BY <1>1, <1>3, <1>5, <1>6, <1>9, <1>10, <1>11 DEF UpdatesInv

LEMMA UpdatesKept ==
    ASSUME UpdatesInv, [MCNext]_MCVars
    PROVE  UpdatesInv'
<1>1. CASE MCNext
  BY <1>1, GuestStepSound, HostStepSound DEF MCNext
<1>2. CASE UNCHANGED MCVars
  BY <1>2 DEF MCVars, guestVars, hostVars, UpdatesInv, GuestInv, GuestTyped, GuestInHand,
      FaultyGuest!BulkExclusive, GuestItems, GuestCounted, GuestEnded, SingleInv, FaultyGuest!InFlight,
      HostInv, HostTyped, HostInHand, HostExclusive, HostItems, HostItemsOf, HostCounted, Active,
      HostShape, HostSingle, GreenletInv
<1> QED
  BY <1>1, <1>2

LEMMA UpdatesPromised ==
    ASSUME UpdatesInv
    PROVE  UpdatesSound
<1>1. Guest!TypeOK /\ Host!TypeOK
  BY GuestPromises, HostTypesOK DEF UpdatesInv
<1>2. mode \notin DbModes => Guest!BulkExclusive /\ Guest!BulkAccounted
  BY GuestPromises DEF UpdatesInv
<1>3. mode = "hosts_bulk" => Host!BulkExclusive /\ Host!BulkAccounted /\ Host!PbsAfterNodes
  BY GreenletPromises DEF UpdatesInv
<1>4. Guest!AtWork = FaultyGuest!AtWork /\ Host!AtWork = FaultyHost!AtWork
  BY DEF Guest!AtWork, FaultyGuest!AtWork, Host!AtWork, FaultyHost!AtWork
<1>5. ASSUME mode = "guests" PROVE Guest!OneRunPerGuest
  BY <1>4, <1>5, HoldingPlaces DEF UpdatesInv, SingleInv, Guest!OneRunPerGuest, Guest!Threads
<1>6. ASSUME mode = "guests_bulk" PROVE Guest!OneRunPerGuest
  BY <1>4, <1>6, HoldingPlaces DEF UpdatesInv, GuestInv, FaultyGuest!BulkExclusive,
                                   Guest!OneRunPerGuest, Guest!Threads
<1>7. ASSUME mode = "hosts" PROVE Host!OneRunPerHost /\ Host!StatusReflectsRun
  <2>1. \A t \in Host!Threads : hostThr[t].pc \in FaultyHost!AtWork => t \in Requests
    BY <1>7, HostPlaces DEF UpdatesInv, HostSingle, Host!Threads
  <2> QED
    BY <1>4, <1>7, <2>1 DEF UpdatesInv, HostSingle, Host!OneRunPerHost, Host!StatusReflectsRun
<1> QED
  BY <1>1, <1>2, <1>3, <1>5, <1>6, <1>7 DEF UpdatesSound, RunsExclusive, BulkSound

\* The single and bulk updates of guests and hosts keep out of each other's way
\* and account for what they did (routes/api.py and routes/hosts.py), for any
\* number of guests, hosts, requests and bulk requests.
THEOREM UpdatesSoundHolds == MCSpec => []UpdatesSound
<1>1. MCInit => UpdatesInv
  BY UpdatesStart
<1>2. UpdatesInv /\ [MCNext]_MCVars => UpdatesInv'
  BY UpdatesKept
<1>3. UpdatesInv => UpdatesSound
  BY UpdatesPromised
<1> QED
  BY <1>1, <1>2, <1>3, PTL DEF MCSpec

\* A thread's step that is not one of _run_update_background takes nobody to the
\* upgrade or to the recording of it.
LEMMA ElsewherePlaces ==
    ASSUME GuestInv, NEW t \in Threads, FaultyGuest!Advance(t), ~WorkStep(t)
    PROVE  OnlyThread(t) /\ thr'[t].pc \notin {"upgrade", "record"}
<1>0. {"loop", "begin", "gate"} \subseteq FaultyGuest!Counters
  BY DEF FaultyGuest!Counters, FaultyGuest!AtWork
<1>1. CASE FaultyGuest!Spawn(t) \/ FaultyGuest!BulkSkip(t) \/ FaultyGuest!BulkReserve(t)
  <2>1. \E c \in {"loop", "begin"} : FaultyGuest!Goto(t, c)
    BY <1>1 DEF FaultyGuest!Spawn, FaultyGuest!BulkSkip, FaultyGuest!BulkReserve
  <2> QED
    BY <2>1, <1>0, Moved DEF GuestInv
<1>2. CASE FaultyGuest!HandlerRaises(t) \/ FaultyGuest!Close(t) \/ FaultyGuest!BulkEscapes(t)
           \/ FaultyGuest!BulkEnd(t)
  <2>1. thr' = [thr EXCEPT ![t] = FaultyGuest!Idle]
    BY <1>2 DEF FaultyGuest!HandlerRaises, FaultyGuest!Close, FaultyGuest!BulkEscapes,
                FaultyGuest!BulkEnd
  <2> QED
    BY <2>1, Rested DEF GuestInv
<1>3. ASSUME NEW g \in Guests, FaultyGuest!BulkTake(t, g)
      PROVE  OnlyThread(t) /\ thr'[t].pc \notin {"upgrade", "record"}
  BY <1>3, BulkTakes
<1>4. CASE FaultyGuest!Collect(t)
  BY <1>4, Collects
<1> QED
  BY <1>1, <1>2, <1>3, <1>4 DEF FaultyGuest!Advance, WorkStep

\* The worker asks cancel_requested before both.
LEMMA WorkHeeds ==
    ASSUME GuestInv, NEW t \in Threads, WorkStep(t), FaultyGuest!Cancelled(t)
    PROVE  /\ thr'[t].pc \notin {"upgrade", "record"}
           /\ thr[t].pc = "agent" => thr'[t].pc = "closing"
<1>0. {"closing", "lists", "agent", "notify"} \subseteq FaultyGuest!Counters
  BY DEF FaultyGuest!Counters, FaultyGuest!AtWork
<1>1. ASSUME NEW c \in {"closing", "notify"}, FaultyGuest!Goto(t, c) PROVE thr'[t].pc = c
  BY <1>0, <1>1, Moved DEF GuestInv
<1>2. ASSUME NEW ok, FaultyGuest!Finish(t, ok) PROVE thr'[t].pc = "closing"
  BY <1>1, <1>2 DEF FaultyGuest!Finish
<1>3. CASE FaultyGuest!Begin(t)
  <2> DEFINE j == slot[thr[t].g]
  <2>1. \E c \in {"closing", "lists", "agent"} : FindsJob(t, j, c) \/ FindsJobAndAgent(t, j, c)
    BY <1>3 DEF FaultyGuest!Begin, FindsJob, FindsJobAndAgent
  <2>2. j \in 0..MaxJobs
    BY <1>3 DEF FaultyGuest!Begin, GuestInv, GuestTyped, GuestInHand, Busy, FaultyGuest!AtWork
  <2> HIDE DEF j
  <2> QED
    BY <1>3, <2>1, <2>2, <1>0, JobFound DEF GuestInv, FaultyGuest!Begin
<1>4. CASE FaultyGuest!BeginRaises(t) \/ FaultyGuest!Record(t)
  BY <1>1, <1>4 DEF FaultyGuest!BeginRaises, FaultyGuest!Record
<1>5. CASE FaultyGuest!Lists(t) \/ FaultyGuest!Upgrade(t) \/ FaultyGuest!RecordRaises(t)
           \/ FaultyGuest!Notify(t)
  BY <1>2, <1>5 DEF FaultyGuest!Lists, FaultyGuest!Upgrade, FaultyGuest!RecordRaises,
                    FaultyGuest!Notify
<1>6. CASE FaultyGuest!SshRaises(t)
  <2>1. CASE thr' = [thr EXCEPT ![t].pc = "agent", ![t].agent = TRUE]
    BY <1>6, <2>1 DEF GuestInv, GuestTyped, ThreadRecords, FaultyGuest!SshRaises
  <2> QED
    BY <1>2, <1>6, <2>1 DEF FaultyGuest!SshRaises
<1> QED
  BY <1>3, <1>4, <1>5, <1>6 DEF WorkStep

\* What a step does with a thread whose job was asked to stop.
Heeds(t) ==
    /\ thr'[t].pc \in {"upgrade", "record"} => thr'[t].pc = thr[t].pc
    /\ thr[t].pc = "agent" => thr'[t].pc \in {"agent", "closing"}

LEMMA StepHeeds ==
    ASSUME GuestInv, FaultyGuest!Next, NEW t \in Threads, FaultyGuest!Cancelled(t)
    PROVE  Heeds(t)
<1>0. ASSUME NEW u \in Threads, OnlyThread(u), thr'[u].pc \notin {"upgrade", "record"}, thr[u].pc # "agent"
      PROVE  Heeds(t)
  BY <1>0 DEF OnlyThread, Heeds
<1>1. ASSUME NEW u \in Requests, NEW g \in Guests, FaultyGuest!Apply(u, g)
      PROVE  Heeds(t)
  <2>1. u \in Threads /\ OnlyThread(u) /\ thr'[u].pc = "reserved" /\ thr[u].pc = "idle"
    BY <1>1, Started DEF FaultyGuest!Apply, GuestInv, Threads
  <2> QED
    BY <2>1, <1>0
<1>2. ASSUME NEW u \in Bulks, NEW targets \in SUBSET Guests, FaultyGuest!ApplyAll(u, targets)
      PROVE  Heeds(t)
  <2>1. u \in Threads /\ OnlyThread(u) /\ thr'[u].pc = "reserved" /\ thr[u].pc = "idle"
    BY <1>2, StartedAll DEF FaultyGuest!ApplyAll, GuestInv, Threads
  <2> QED
    BY <2>1, <1>0
<1>3. ASSUME NEW g \in Guests, FaultyGuest!Cancel(g) PROVE Heeds(t)
  BY <1>3 DEF FaultyGuest!Cancel, Heeds
<1>4. ASSUME NEW u \in Threads, FaultyGuest!Advance(u) PROVE Heeds(t)
  <2>1. CASE ~WorkStep(u)
    <3>1. thr[u].pc # "agent"
      BY <1>4, <2>1 DEF FaultyGuest!Advance, WorkStep, FaultyGuest!Spawn, FaultyGuest!HandlerRaises,
         FaultyGuest!Close, FaultyGuest!BulkTake, FaultyGuest!BulkSkip, FaultyGuest!BulkReserve,
         FaultyGuest!BulkEscapes, FaultyGuest!Collect, FaultyGuest!BulkEnd
    <3> QED
      BY <2>1, <3>1, <1>4, <1>0, ElsewherePlaces
  <2>2. CASE WorkStep(u) /\ u # t
    BY <2>2, WorkWorks DEF Works, OnlyThread, GuestInv, Heeds
  <2>3. CASE WorkStep(u) /\ u = t
    BY <2>3, WorkHeeds DEF Heeds
  <2> QED
    BY <2>1, <2>2, <2>3
<1> QED
  BY <1>1, <1>2, <1>3, <1>4
  DEF FaultyGuest!Next, FaultyGuest!Start, Threads, FaultyGuest!Threads

\* A job that was asked to stop starts no upgrade over SSH and records none that
\* had not come back; one it starts through the agent after SSH raised is its
\* last, and is not recorded (_run_update_background), whoever else updates what,
\* database faults included.
THEOREM CancelHeededHolds == MCSpec => CancelHeeded
<1>1. MCInit => UpdatesInv
  BY UpdatesStart
<1>2. UpdatesInv /\ [MCNext]_MCVars => UpdatesInv'
  BY UpdatesKept
<1>3. UpdatesInv /\ [MCNext]_MCVars =>
        [\A t \in Guest!Threads : Guest!Cancelled(t) =>
            /\ thr'[t].pc \in {"upgrade", "record"} => thr'[t].pc = thr[t].pc
            /\ thr[t].pc = "agent" => thr'[t].pc \in {"agent", "closing"}]_(Guest!vars)
  <2> SUFFICES ASSUME UpdatesInv, [MCNext]_MCVars, NEW t \in Guest!Threads, Guest!Cancelled(t)
               PROVE  Heeds(t)
    BY DEF Heeds
  <2>1. CASE GuestNext
    <3>1. FaultyGuest!Next /\ GuestInv /\ t \in Threads /\ FaultyGuest!Cancelled(t)
      BY <2>1, GuestStepSound DEF UpdatesInv, Guest!Threads, Threads, Guest!Cancelled,
                                  FaultyGuest!Cancelled
    <3> QED
      BY <3>1, StepHeeds
  <2>2. CASE HostNext \/ UNCHANGED MCVars
    BY <2>2, HostStepSound DEF MCVars, guestVars, Heeds
  <2> QED
    BY <2>1, <2>2 DEF MCNext
<1> QED
  BY <1>1, <1>2, <1>3, PTL DEF MCSpec, CancelHeeded, Guest!CancelHeeded
=============================================================================
