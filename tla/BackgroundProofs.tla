-------------------------- MODULE BackgroundProofs --------------------------
(***************************************************************************)
(* That a guest is scanned by one thread at a time and the scan pages show *)
(* what goes on, for any guests and any number of single, bulk and         *)
(* scheduled scans, with or without faults of the database; and that what  *)
(* a Proxmox job shows is how its task ended, for any guests and tasks.    *)
(***************************************************************************)
EXTENDS MCBackground, FiniteSetTheorems, TLAPS

\* The types of a thread, a job and the bulk slot.
Pcs == {"idle", "begin", "waiting", "scanning", "loop"}
Thread == [pc : Pcs, g : Guests \cup {Nobody}, todo : SUBSET Guests, poisoned : BOOLEAN]
Job == [running : BOOLEAN, success : {"none", "yes", "no"}]
Slot == [running : BOOLEAN, done : Nat, items : [Guests -> ItemStates]]

LEMMA TypeParts ==
    TypeOK <=>
        /\ job \in [Guests -> Job] /\ bulk \in Slot
        /\ lock \in [Guests -> Threads \cup {Nobody}]
        /\ thr \in [Threads -> Thread]
        /\ wedged \subseteq Guests \cup {BulkSlot}
  BY DEF TypeOK, Thread, Pcs, Job, Slot

\* The parts of SlotsTruthful: the single jobs,
JobsTruthful ==
    \A g \in Guests :
        job[g].running <=>
            \/ g \in wedged
            \/ \E t \in Singles : thr[t].pc # "idle" /\ thr[t].g = g

\* the one orchestrator of the bulk slot,
OneBulk == \A t, u \in Bulks : thr[t].pc # "idle" /\ thr[u].pc # "idle" => t = u
BulkTruthful == bulk.running <=> BulkSlot \in wedged \/ \E t \in Bulks : thr[t].pc # "idle"

\* and the slot's count and items.
SettledItems == {g \in Guests : bulk.items[g] \in Settled}
DoneCounted == bulk.done = Cardinality(SettledItems)
EndedSettled == ~bulk.running => \A g \in Guests : bulk.items[g] \in Settled \cup {"absent"}

LEMMA SlotsParts ==
    SlotsTruthful <=> JobsTruthful /\ OneBulk /\ BulkTruthful /\ DoneCounted /\ EndedSettled
  BY DEF SlotsTruthful, JobsTruthful, OneBulk, BulkTruthful, SettledItems, DoneCounted, EndedSettled

\* What concerns the single jobs, and what concerns the bulk slot.
SinglesInv == SinglesApart /\ JobsTruthful
BulksInv == OneBulk /\ BulkTruthful /\ DoneCounted /\ EndedSettled /\ ItemsTracked

LEMMA IInvParts == IInv <=> TypeOK /\ OneScanPerGuest /\ LocksHeld /\ SinglesInv /\ BulksInv
  BY SlotsParts DEF IInv, ScansSound, SinglesInv, BulksInv

----------------------------------------------------------------------------
(* What a step of one thread does to the others: nothing. *)

LEMMA ThreadMoves ==
    ASSUME thr \in [Threads -> Thread], NEW t \in Threads, NEW v \in Thread,
           thr' = [thr EXCEPT ![t] = v]
    PROVE  /\ thr' \in [Threads -> Thread] /\ thr'[t] = v
           /\ \A u \in Threads : u # t => thr'[u] = thr[u]
  OBVIOUS

LEMMA IdleType ==
    /\ Idle \in Thread
    /\ \A g \in Guests : [Idle EXCEPT !.pc = "begin", !.g = g] \in Thread
    /\ \A gs \in SUBSET Guests : [Idle EXCEPT !.pc = "loop", !.todo = gs] \in Thread
  BY DEF Idle, Thread, Pcs

\* The kinds of threads.
LEMMA Kinds ==
    /\ \A t \in Singles : t \in Threads /\ t \notin Bulks /\ t \notin Crons
    /\ \A t \in Bulks : t \in Threads /\ t \notin Singles /\ t \notin Crons
    /\ \A t \in Crons : t \in Threads /\ t \notin Singles /\ t \notin Bulks
    /\ \A t \in Threads : t \in Singles \/ t \in Bulks \/ t \in Crons
    /\ \A t \in Threads : t # Nobody
  BY ThreadsAssumption DEF Threads

\* A step that leaves the single scans and their jobs alone.
LEMMA SinglesFrame ==
    ASSUME SinglesInv, job' = job, \A g \in Guests : g \in wedged' <=> g \in wedged,
           \A t \in Singles : thr'[t] = thr[t], LocksHeld
    PROVE  SinglesInv'
<1>1. \A t \in Singles : thr[t].pc # "idle" => thr[t].g \in Guests
  BY Kinds DEF LocksHeld, SinglesInv, SinglesApart, Underway
<1>2. SinglesApart'
  BY <1>1 DEF SinglesInv, SinglesApart
<1>3. JobsTruthful'
  BY DEF SinglesInv, JobsTruthful
<1> QED
  BY <1>2, <1>3 DEF SinglesInv

\* A step that leaves the bulk scan alone.
LEMMA BulksFrame ==
    ASSUME BulksInv, bulk' = bulk, BulkSlot \in wedged' <=> BulkSlot \in wedged,
           \A t \in Bulks : thr'[t] = thr[t]
    PROVE  BulksInv'
<1>1. OneBulk' /\ BulkTruthful'
  BY DEF BulksInv, OneBulk, BulkTruthful
<1>2. DoneCounted' /\ EndedSettled'
  BY DEF BulksInv, DoneCounted, EndedSettled, SettledItems
<1>3. ItemsTracked'
  BY DEF BulksInv, ItemsTracked
<1> QED
  BY <1>1, <1>2, <1>3 DEF BulksInv

\* A thread that does not scan yet needs no lock.
LEMMA LocksFrame ==
    ASSUME LocksHeld, lock' = lock, NEW t \in Threads,
           \A u \in Threads : u # t => thr'[u] = thr[u],
           thr'[t].pc \in Underway => thr'[t].g \in Guests, thr'[t].pc # "scanning"
    PROVE  LocksHeld'
  BY DEF LocksHeld

\* A thread that takes a free lock disturbs no other.
LEMMA LocksTaken ==
    ASSUME TypeOK, LocksHeld, NEW t \in Threads, thr[t].g \in Guests, lock[thr[t].g] = Nobody,
           lock' = [lock EXCEPT ![thr[t].g] = t],
           \A u \in Threads : u # t => thr'[u] = thr[u], thr'[t].g = thr[t].g
    PROVE  LocksHeld'
<1>1. lock \in [Guests -> Threads \cup {Nobody}]
  BY TypeParts
<1> QED
  BY <1>1, Kinds DEF LocksHeld, Underway

\* A thread that gives its own lock back disturbs no other.
LEMMA LocksGiven ==
    ASSUME TypeOK, LocksHeld, NEW t \in Threads, thr[t].pc = "scanning", Unlocked(t),
           \A u \in Threads : u # t => thr'[u] = thr[u],
           thr'[t].pc \notin Underway
    PROVE  LocksHeld'
<1>1. lock \in [Guests -> Threads \cup {Nobody}]
  BY TypeParts
<1> QED
  BY <1>1, Kinds DEF LocksHeld, Underway, Unlocked

LEMMA UnlockedType ==
    ASSUME TypeOK, NEW t, Unlocked(t) PROVE lock' \in [Guests -> Threads \cup {Nobody}]
<1>1. lock \in [Guests -> Threads \cup {Nobody}]
  BY TypeParts
<1> QED
  BY <1>1 DEF Unlocked

\* The parts make the whole after a step too.
LEMMA Assembled ==
    ASSUME job' \in [Guests -> Job], bulk' \in Slot,
           lock' \in [Guests -> Threads \cup {Nobody}], thr' \in [Threads -> Thread],
           wedged' \subseteq Guests \cup {BulkSlot},
           LocksHeld', SinglesInv', BulksInv'
    PROVE  IInv'
<1>1. TypeOK'
  BY DEF TypeOK, Thread, Job, Slot, Pcs
<1>2. OneScanPerGuest'
  BY DEF LocksHeld, OneScanPerGuest
<1>3. SlotsTruthful'
  BY DEF SinglesInv, BulksInv, SlotsTruthful, JobsTruthful, OneBulk, BulkTruthful, SettledItems,
         DoneCounted, EndedSettled
<1> QED
  BY <1>1, <1>2, <1>3 DEF IInv, ScansSound, SinglesInv, BulksInv

----------------------------------------------------------------------------
(* The single scans. *)

LEMMA ScanSingleKeeps ==
    ASSUME IInv, NEW t \in Singles, NEW g \in Guests, ScanSingle(t, g)
    PROVE  IInv'
<1> DEFINE v == [Idle EXCEPT !.pc = "begin", !.g = g]
<1> USE IInvParts, TypeParts, Kinds
<1>1. /\ v \in Thread /\ v.pc = "begin" /\ v.g = g
  BY IdleType DEF Idle
<1>2. thr' = [thr EXCEPT ![t] = v] /\ thr[t].pc = "idle" /\ ~job[g].running
  BY DEF ScanSingle
<1> HIDE DEF v
<1>3. /\ thr' \in [Threads -> Thread] /\ thr'[t] = v
      /\ \A u \in Threads : u # t => thr'[u] = thr[u]
  BY <1>1, <1>2, ThreadMoves
<1>4. job' = [job EXCEPT ![g] = NewJob] /\ UNCHANGED <<bulk, lock, wedged>> /\ NewJob \in Job
  BY DEF ScanSingle, NewJob, Job
<1>5. job' \in [Guests -> Job]
  BY <1>4
<1>6. LocksHeld'
  BY <1>1, <1>3, <1>4, LocksFrame
<1>7. g \notin wedged /\ \A u \in Singles : thr[u].pc # "idle" => thr[u].g # g
  BY <1>2 DEF SinglesInv, JobsTruthful
<1>8. SinglesApart'
  BY <1>1, <1>3, <1>4, <1>7 DEF SinglesInv, SinglesApart, Underway
<1>9. JobsTruthful'
  <2>1. job'[g].running /\ thr'[t].pc # "idle" /\ thr'[t].g = g
    BY <1>1, <1>3, <1>4 DEF NewJob
  <2>2. ASSUME NEW h \in Guests, h # g
        PROVE  job'[h].running <=> h \in wedged' \/ \E u \in Singles : thr'[u].pc # "idle" /\ thr'[u].g = h
    BY <1>1, <1>2, <1>3, <1>4, <2>2 DEF SinglesInv, JobsTruthful
  <2> QED
    BY <2>1, <2>2 DEF JobsTruthful
<1>10. BulksInv'
  BY <1>3, <1>4, BulksFrame
<1> QED
  BY <1>3, <1>4, <1>5, <1>6, <1>8, <1>9, <1>10, Assembled DEF SinglesInv

LEMMA ScanSingleRaisesKeeps ==
    ASSUME IInv, NEW g \in Guests, ScanSingleRaises(g)
    PROVE  IInv'
<1> USE IInvParts, TypeParts, Kinds
<1>1. /\ job' = [job EXCEPT ![g] = NewJob] /\ NewJob \in Job /\ wedged' = wedged \cup {g}
      /\ UNCHANGED <<bulk, lock, thr>> /\ ~job[g].running
  BY DEF ScanSingleRaises, NewJob, Job
<1>2. job' \in [Guests -> Job] /\ wedged' \subseteq Guests \cup {BulkSlot}
  BY <1>1
<1>3. LocksHeld'
  BY <1>1 DEF LocksHeld
<1>4. \A u \in Singles : thr[u].pc # "idle" => thr[u].g # g
  BY <1>1 DEF SinglesInv, JobsTruthful
<1>5. SinglesApart'
  BY <1>1, <1>4 DEF SinglesInv, SinglesApart
<1>6. JobsTruthful'
  BY <1>1 DEF SinglesInv, JobsTruthful, NewJob
<1>7. BulksInv'
  BY <1>1, BulksFrame, GuestsAssumption
<1> QED
  BY <1>1, <1>2, <1>3, <1>5, <1>6, <1>7, Assembled DEF SinglesInv

\* The thread of a single scan ends its job and is idle again: what
\* SingleBegin does for a guest that is gone and SingleScanned does.
LEMMA FinishKeeps ==
    ASSUME IInv, NEW t \in Singles, thr[t].pc # "idle", NEW success \in {"yes", "no"},
           FinishJob(thr[t].g, success), thr' = [thr EXCEPT ![t] = Idle],
           lock' \in [Guests -> Threads \cup {Nobody}], LocksHeld', UNCHANGED <<bulk, wedged>>
    PROVE  IInv'
<1> USE IInvParts, TypeParts, Kinds
<1> DEFINE g == thr[t].g
           j == [running |-> FALSE, success |-> success]
<1>1. g \in Guests /\ g \notin wedged /\ \A u \in Singles : thr[u].pc # "idle" /\ thr[u].g = g => u = t
  BY DEF LocksHeld, SinglesInv, SinglesApart, Underway
<1>2. /\ thr' \in [Threads -> Thread] /\ thr'[t] = Idle /\ Idle.pc = "idle"
      /\ \A u \in Threads : u # t => thr'[u] = thr[u]
  BY IdleType, ThreadMoves DEF Idle
<1>3. job' = [job EXCEPT ![g] = j] /\ j \in Job /\ ~j.running
  BY DEF FinishJob, Job
<1> HIDE DEF g, j
<1>4. job' \in [Guests -> Job] /\ ~job'[g].running
  BY <1>1, <1>3
<1>5. SinglesApart'
  BY <1>2 DEF SinglesInv, SinglesApart
<1>6. JobsTruthful'
  <2>1. ~job'[g].running /\ g \notin wedged' /\ ~\E u \in Singles : thr'[u].pc # "idle" /\ thr'[u].g = g
    BY <1>1, <1>2, <1>4
  <2>2. ASSUME NEW h \in Guests, h # g
        PROVE  job'[h].running <=> h \in wedged' \/ \E u \in Singles : thr'[u].pc # "idle" /\ thr'[u].g = h
    BY <1>2, <1>3, <2>2 DEF SinglesInv, JobsTruthful, g
  <2> QED
    BY <2>1, <2>2 DEF JobsTruthful
<1>7. BulksInv'
  BY <1>2, BulksFrame
<1> QED
  BY <1>2, <1>4, <1>5, <1>6, <1>7, Assembled DEF SinglesInv

\* A thread of a single scan goes on with its guest.
LEMMA SingleMovesOn ==
    ASSUME IInv, NEW t \in Singles, thr[t].pc # "idle", NEW pc \in Underway,
           Goto(t, pc), UNCHANGED <<job, wedged>>
    PROVE  SinglesInv' /\ thr' \in [Threads -> Thread]
           /\ thr'[t].pc = pc /\ thr'[t].g = thr[t].g /\ \A u \in Threads : u # t => thr'[u] = thr[u]
<1> USE IInvParts, TypeParts, Kinds
<1> DEFINE v == [thr[t] EXCEPT !.pc = pc]
<1>1. v \in Thread /\ v.pc = pc /\ v.g = thr[t].g
  BY SMTT(30) DEF Thread, Pcs, Underway
<1>2. thr' = [thr EXCEPT ![t] = v]
  BY DEF Goto
<1> HIDE DEF v
<1>3. /\ thr' \in [Threads -> Thread] /\ thr'[t] = v
      /\ \A u \in Threads : u # t => thr'[u] = thr[u]
  BY <1>1, <1>2, ThreadMoves
<1>4. pc # "idle"
  BY DEF Underway
<1>5. SinglesApart'
  BY <1>1, <1>3, <1>4 DEF SinglesInv, SinglesApart
<1>6. JobsTruthful'
  BY <1>1, <1>3, <1>4 DEF SinglesInv, JobsTruthful
<1> QED
  BY <1>1, <1>3, <1>5, <1>6 DEF SinglesInv

LEMMA SingleBeginKeeps ==
    ASSUME IInv, NEW t \in Singles, SingleBegin(t)
    PROVE  IInv'
<1> USE IInvParts, TypeParts, Kinds
<1>1. thr[t].pc = "begin" /\ UNCHANGED <<bulk, lock, wedged>>
  BY DEF SingleBegin
<1>2. CASE Goto(t, "waiting") /\ UNCHANGED job
  <2>1. /\ SinglesInv' /\ thr' \in [Threads -> Thread]
        /\ thr'[t].pc = "waiting" /\ thr'[t].g = thr[t].g
        /\ \A u \in Threads : u # t => thr'[u] = thr[u]
    BY <1>1, <1>2, SingleMovesOn DEF Underway
  <2>2. LocksHeld'
    BY <1>1, <2>1, LocksFrame DEF LocksHeld, Underway
  <2>3. BulksInv'
    BY <1>1, <2>1, BulksFrame
  <2> QED
    BY <1>1, <1>2, <2>1, <2>2, <2>3, Assembled
<1>3. CASE FinishJob(thr[t].g, "no") /\ thr' = [thr EXCEPT ![t] = Idle]
  <2>1. LocksHeld'
    BY <1>1, <1>3, IdleType, ThreadMoves, LocksFrame, ZenonT(60) DEF Idle, Underway
  <2> QED
    BY <1>1, <1>3, <2>1, FinishKeeps
<1> QED
  BY <1>2, <1>3 DEF SingleBegin

LEMMA SingleBeginRaisesKeeps ==
    ASSUME IInv, NEW t \in Singles, SingleBeginRaises(t)
    PROVE  IInv'
<1> USE IInvParts, TypeParts, Kinds
<1> DEFINE g == thr[t].g
<1>1. /\ thr[t].pc = "begin" /\ wedged' = wedged \cup {g} /\ thr' = [thr EXCEPT ![t] = Idle]
      /\ UNCHANGED <<job, bulk, lock>>
  BY DEF SingleBeginRaises
<1>2. g \in Guests /\ \A u \in Singles : thr[u].pc # "idle" /\ thr[u].g = g => u = t
  BY <1>1 DEF LocksHeld, SinglesInv, SinglesApart, Underway
<1>3. /\ thr' \in [Threads -> Thread] /\ thr'[t] = Idle /\ Idle.pc = "idle"
      /\ \A u \in Threads : u # t => thr'[u] = thr[u]
  BY <1>1, IdleType, ThreadMoves DEF Idle
<1>4. LocksHeld'
  BY <1>1, <1>3, LocksFrame DEF Underway
<1>5. job[g].running
  BY <1>1, <1>2 DEF SinglesInv, JobsTruthful
<1> HIDE DEF g
<1>6. SinglesApart'
  BY <1>1, <1>2, <1>3 DEF SinglesInv, SinglesApart
<1>7. JobsTruthful'
  BY <1>1, <1>2, <1>3, <1>5 DEF SinglesInv, JobsTruthful, g
<1>8. BulksInv'
  BY <1>1, <1>2, <1>3, BulksFrame, GuestsAssumption
<1> QED
  BY <1>1, <1>2, <1>3, <1>4, <1>6, <1>7, <1>8, Assembled DEF SinglesInv

LEMMA SingleScannedKeeps ==
    ASSUME IInv, NEW t \in Singles, SingleScanned(t)
    PROVE  IInv'
<1> USE IInvParts, TypeParts, Kinds
<1>1. /\ thr[t].pc = "scanning" /\ Unlocked(t) /\ thr' = [thr EXCEPT ![t] = Idle]
      /\ UNCHANGED <<bulk, wedged>>
  BY DEF SingleScanned
<1>2. PICK success \in {"yes", "no"} : FinishJob(thr[t].g, success)
  BY DEF SingleScanned
<1>3. thr'[t].pc \notin Underway /\ \A u \in Threads : u # t => thr'[u] = thr[u]
  BY <1>1, IdleType, ThreadMoves DEF Idle, Underway
<1>4. LocksHeld' /\ lock' \in [Guests -> Threads \cup {Nobody}]
  BY <1>1, <1>3, LocksGiven, UnlockedType
<1> QED
  BY <1>1, <1>2, <1>4, FinishKeeps

----------------------------------------------------------------------------
(* The bulk scan. *)

\* The items are finitely many, and settling one that was not counts one more.
LEMMA SettledFinite == IsFiniteSet(SettledItems) /\ Cardinality(SettledItems) \in Nat
<1>1. SettledItems \subseteq Guests
  BY DEF SettledItems
<1>2. IsFiniteSet(SettledItems)
  BY <1>1, GuestsAssumption, FS_Subset
<1> QED
  BY <1>2, FS_CardinalityType

LEMMA SettleCounts ==
    ASSUME bulk \in Slot, DoneCounted, NEW g \in Guests, bulk.items[g] \notin Settled,
           NEW state \in Settled, Settle(g, state)
    PROVE  /\ bulk' \in Slot /\ DoneCounted' /\ bulk'.running = bulk.running
           /\ bulk'.items[g] = state
           /\ \A h \in Guests : h # g => bulk'.items[h] = bulk.items[h]
<1>1. /\ bulk' \in Slot /\ bulk'.running = bulk.running /\ bulk'.done = bulk.done + 1
      /\ bulk'.items[g] = state /\ \A h \in Guests : h # g => bulk'.items[h] = bulk.items[h]
  <2>1. state \in ItemStates /\ bulk.items \in [Guests -> ItemStates] /\ bulk.done \in Nat
    BY DEF Slot, Settled, ItemStates
  <2> DEFINE items == [bulk.items EXCEPT ![g] = state]
  <2>2. bulk' = [running |-> bulk.running, done |-> bulk.done + 1, items |-> items]
    BY DEF Settle, Slot
  <2>3. /\ items \in [Guests -> ItemStates] /\ items[g] = state
        /\ \A h \in Guests : h # g => items[h] = bulk.items[h]
    BY <2>1
  <2> HIDE DEF items
  <2> QED
    BY <2>1, <2>2, <2>3 DEF Slot
<1>2. g \notin SettledItems /\ SettledItems' = SettledItems \cup {g}
  BY <1>1 DEF SettledItems
<1>3. Cardinality(SettledItems') = Cardinality(SettledItems) + 1
  BY <1>2, SettledFinite, FS_AddElement
<1> QED
  BY <1>1, <1>3 DEF DoneCounted

\* An item that is begun is not settled, and none is counted.
LEMMA BeginCountsNone ==
    ASSUME bulk \in Slot, DoneCounted, NEW g \in Guests, bulk.items[g] \notin Settled,
           bulk' = [bulk EXCEPT !.items[g] = "running"]
    PROVE  /\ bulk' \in Slot /\ DoneCounted' /\ bulk'.running = bulk.running
           /\ bulk'.items[g] = "running"
           /\ \A h \in Guests : h # g => bulk'.items[h] = bulk.items[h]
<1>1. /\ bulk' \in Slot /\ bulk'.running = bulk.running /\ bulk'.done = bulk.done
      /\ bulk'.items[g] = "running" /\ \A h \in Guests : h # g => bulk'.items[h] = bulk.items[h]
  BY DEF Slot, ItemStates
<1>2. SettledItems' = SettledItems
  BY <1>1 DEF SettledItems, Settled
<1> QED
  BY <1>1, <1>2 DEF DoneCounted

LEMMA ScanAllKeeps ==
    ASSUME IInv, NEW t \in Bulks, NEW targets \in SUBSET Guests, ScanAll(t, targets)
    PROVE  IInv'
<1> USE IInvParts, TypeParts, Kinds
<1> DEFINE v == [Idle EXCEPT !.pc = "loop", !.todo = targets]
           items == [g \in Guests |-> IF g \in targets THEN "pending" ELSE "absent"]
<1>1. v \in Thread /\ v.pc = "loop" /\ v.todo = targets
  BY IdleType DEF Idle
<1>2. /\ thr' = [thr EXCEPT ![t] = v] /\ ~bulk.running /\ UNCHANGED <<job, lock, wedged>>
      /\ bulk' = [running |-> TRUE, done |-> 0, items |-> items]
  BY DEF ScanAll
<1>3. items \in [Guests -> ItemStates]
  BY DEF ItemStates
<1>4. \A g \in Guests : items[g] = IF g \in targets THEN "pending" ELSE "absent"
  OBVIOUS
<1> HIDE DEF v, items
<1>5. /\ bulk' \in Slot /\ bulk'.running /\ bulk'.done = 0 /\ bulk'.items = items
  BY <1>2, <1>3 DEF Slot
<1>6. /\ thr' \in [Threads -> Thread] /\ thr'[t] = v
      /\ \A u \in Threads : u # t => thr'[u] = thr[u]
  BY <1>1, <1>2, ThreadMoves
<1>7. LocksHeld'
  BY <1>1, <1>2, <1>6, LocksFrame DEF Underway
<1>8. SinglesInv'
  BY <1>2, <1>6, SinglesFrame
<1>9. \A u \in Bulks : thr[u].pc = "idle"
  BY <1>2 DEF BulksInv, BulkTruthful
<1>10. OneBulk' /\ BulkTruthful' /\ EndedSettled'
  BY <1>1, <1>5, <1>6, <1>9 DEF OneBulk, BulkTruthful, EndedSettled
<1>11. DoneCounted'
  <2>1. SettledItems' = {}
    BY <1>4, <1>5 DEF SettledItems, Settled
  <2> QED
    BY <1>5, <2>1, FS_EmptySet DEF DoneCounted
<1>12. BulkSlot \notin wedged
  BY <1>2 DEF BulksInv, BulkTruthful
<1>13. ItemsTracked'
  <2>1. \A u \in Bulks : thr'[u].pc # "idle" => u = t
    BY <1>6, <1>9
  <2>2. \A g \in Guests : (bulk'.items[g] = "pending" <=> g \in targets) /\ bulk'.items[g] # "running"
    BY <1>4, <1>5
  <2> QED
    BY <1>1, <1>2, <1>6, <1>12, <2>1, <2>2 DEF ItemsTracked
<1> QED
  BY <1>2, <1>5, <1>6, <1>7, <1>8, <1>10, <1>11, <1>13, Assembled DEF BulksInv

\* The items show the orchestrator's guests, as ItemsTracked has it.
Shown(items, v) ==
    \A g \in Guests :
        /\ items[g] = "pending" <=> g \in v.todo
        /\ items[g] = "running" <=> v.pc \in {"waiting", "scanning"} /\ v.g = g

LEMMA ItemsShown ==
    ASSUME BulksInv, NEW t \in Bulks, thr[t].pc # "idle" PROVE Shown(bulk.items, thr[t])
  BY DEF BulksInv, ItemsTracked, Shown

\* A step of the orchestrator that leaves it at work and its items true.
LEMMA BulkMovesOn ==
    ASSUME IInv, NEW t \in Bulks, thr[t].pc # "idle", NEW v \in Thread, v.pc \notin {"idle", "begin"},
           thr' = [thr EXCEPT ![t] = v],
           bulk' \in Slot, DoneCounted', bulk'.running = bulk.running, Shown(bulk'.items, v),
           UNCHANGED <<job, wedged>>, lock' \in [Guests -> Threads \cup {Nobody}], LocksHeld'
    PROVE  IInv'
<1> USE IInvParts, TypeParts, Kinds
<1>1. /\ thr' \in [Threads -> Thread] /\ thr'[t] = v
      /\ \A u \in Threads : u # t => thr'[u] = thr[u]
  BY ThreadMoves
<1>2. \A u \in Bulks : u # t => thr[u].pc = "idle" /\ thr'[u].pc = "idle"
  BY <1>1 DEF BulksInv, OneBulk
<1>3. SinglesInv'
  BY <1>1, SinglesFrame
<1>4. OneBulk' /\ BulkTruthful'
  BY <1>1, <1>2 DEF BulksInv, OneBulk, BulkTruthful
<1>5. EndedSettled'
  BY DEF BulksInv, BulkTruthful, EndedSettled
<1>6. ItemsTracked'
  <2>1. BulkSlot \notin wedged
    BY DEF BulksInv, ItemsTracked
  <2> QED
    BY <1>1, <1>2, <2>1 DEF ItemsTracked, Shown
<1> QED
  BY <1>1, <1>3, <1>4, <1>5, <1>6, Assembled DEF BulksInv

LEMMA BulkTakeKeeps ==
    ASSUME IInv, NEW t \in Bulks, NEW g \in Guests, BulkTake(t, g)
    PROVE  IInv'
<1> USE IInvParts, TypeParts, Kinds
<1>1. thr[t].pc = "loop" /\ g \in thr[t].todo /\ UNCHANGED <<job, lock, wedged>> /\ thr[t] \in Thread
  BY DEF BulkTake
<1>2. bulk.items[g] = "pending" /\ bulk.items[g] \notin Settled /\ DoneCounted /\ bulk \in Slot
  BY <1>1 DEF BulksInv, ItemsTracked, Settled
<1>3. CASE /\ bulk' = [bulk EXCEPT !.items[g] = "running"]
           /\ thr' = [thr EXCEPT ![t].pc = "waiting", ![t].g = g, ![t].todo = @ \ {g}]
  <2> DEFINE v == [thr[t] EXCEPT !.pc = "waiting", !.g = g, !.todo = @ \ {g}]
  <2>1. v \in Thread /\ v.pc = "waiting" /\ v.g = g /\ v.todo = thr[t].todo \ {g}
    BY <1>1 DEF Thread, Pcs
  <2>2. thr' = [thr EXCEPT ![t] = v]
    BY <1>3
  <2> HIDE DEF v
  <2>3. LocksHeld'
    BY <1>1, <2>1, <2>2, ThreadMoves, LocksFrame
  <2>4. /\ bulk' \in Slot /\ DoneCounted' /\ bulk'.running = bulk.running
        /\ bulk'.items[g] = "running"
        /\ \A h \in Guests : h # g => bulk'.items[h] = bulk.items[h]
    BY <1>2, <1>3, BeginCountsNone
  <2>5. Shown(bulk'.items, v)
    BY <1>1, <2>1, <2>4, ItemsShown DEF Shown
  <2> QED
    BY <1>1, <2>1, <2>2, <2>3, <2>4, <2>5, BulkMovesOn
<1>4. CASE Settle(g, "skipped") /\ thr' = [thr EXCEPT ![t].todo = @ \ {g}]
  <2> DEFINE v == [thr[t] EXCEPT !.todo = @ \ {g}]
  <2>1. v \in Thread /\ v.pc = "loop" /\ v.g = thr[t].g /\ v.todo = thr[t].todo \ {g}
    BY <1>1 DEF Thread
  <2>2. thr' = [thr EXCEPT ![t] = v]
    BY <1>4
  <2> HIDE DEF v
  <2>3. LocksHeld'
    BY <1>1, <2>1, <2>2, ThreadMoves, LocksFrame DEF Underway
  <2>4. /\ bulk' \in Slot /\ DoneCounted' /\ bulk'.running = bulk.running
        /\ bulk'.items[g] = "skipped"
        /\ \A h \in Guests : h # g => bulk'.items[h] = bulk.items[h]
    BY <1>2, <1>4, SettleCounts DEF Settled
  <2>5. Shown(bulk'.items, v)
    BY <1>1, <2>1, <2>4, ItemsShown DEF Shown
  <2> QED
    BY <1>1, <2>1, <2>2, <2>3, <2>4, <2>5, BulkMovesOn
<1> QED
  BY <1>3, <1>4 DEF BulkTake

LEMMA BulkScannedKeeps ==
    ASSUME IInv, NEW t \in Bulks, BulkScanned(t)
    PROVE  IInv'
<1> USE IInvParts, TypeParts, Kinds
<1> DEFINE g == thr[t].g
<1>1. thr[t].pc = "scanning" /\ Unlocked(t) /\ UNCHANGED <<job, wedged>> /\ thr[t] \in Thread
  BY DEF BulkScanned
<1>2. g \in Guests
  BY <1>1 DEF LocksHeld, Underway
<1>3. /\ bulk.items[g] = "running" /\ bulk.items[g] \notin Settled /\ DoneCounted /\ bulk \in Slot
      /\ g \notin thr[t].todo
  BY <1>1, <1>2 DEF BulksInv, ItemsTracked, Settled
<1>4. PICK state \in {"success", "failed"}, broken \in BOOLEAN :
         /\ Settle(g, state)
         /\ thr' = [thr EXCEPT ![t].pc = "loop", ![t].g = Nobody, ![t].poisoned = @ \/ broken]
  BY DEF BulkScanned
<1> DEFINE v == [thr[t] EXCEPT !.pc = "loop", !.g = Nobody, !.poisoned = @ \/ broken]
<1>5. v \in Thread /\ v.pc = "loop" /\ v.g = Nobody /\ v.todo = thr[t].todo
  BY <1>1 DEF Thread, Pcs
<1>6. thr' = [thr EXCEPT ![t] = v]
  BY <1>4
<1> HIDE DEF v
<1>7. thr'[t].pc \notin Underway /\ \A u \in Threads : u # t => thr'[u] = thr[u]
  BY <1>5, <1>6, ThreadMoves DEF Underway
<1>8. LocksHeld' /\ lock' \in [Guests -> Threads \cup {Nobody}]
  BY <1>1, <1>7, LocksGiven, UnlockedType
<1>9. /\ bulk' \in Slot /\ DoneCounted' /\ bulk'.running = bulk.running
      /\ bulk'.items[g] = state
      /\ \A h \in Guests : h # g => bulk'.items[h] = bulk.items[h]
  BY <1>2, <1>3, <1>4, SettleCounts DEF Settled
<1>10. Shown(bulk'.items, v)
  BY <1>1, <1>2, <1>3, <1>5, <1>9, ItemsShown DEF Shown
<1> QED
  BY <1>1, <1>5, <1>6, <1>8, <1>9, <1>10, BulkMovesOn

\* The orchestrator ends, of itself or of an exception.
LEMMA BulkEndKeeps ==
    ASSUME IInv, NEW t \in Bulks,
           BulkEnd(t) \/ \E g \in Guests : BulkTakeRaises(t, g)
    PROVE  IInv'
<1> USE IInvParts, TypeParts, Kinds
<1>1. /\ thr[t].pc = "loop" /\ thr' = [thr EXCEPT ![t] = Idle] /\ UNCHANGED <<job, lock>>
  BY DEF BulkEnd, BulkTakeRaises
<1>2. /\ thr' \in [Threads -> Thread] /\ thr'[t] = Idle /\ Idle.pc = "idle"
      /\ \A u \in Threads : u # t => thr'[u] = thr[u]
  BY <1>1, IdleType, ThreadMoves DEF Idle
<1>3. \A u \in Bulks : thr'[u].pc = "idle"
  BY <1>1, <1>2 DEF BulksInv, OneBulk
<1>4. LocksHeld'
  BY <1>1, <1>2, LocksFrame DEF Underway
<1>5. OneBulk' /\ ItemsTracked'
  BY <1>3 DEF OneBulk, ItemsTracked
<1>6. BulkSlot \notin wedged /\ bulk.running
  BY <1>1 DEF BulksInv, ItemsTracked, BulkTruthful
<1>7. CASE BulkEnd(t)
  <2>1. thr[t].todo = {} /\ bulk' = [bulk EXCEPT !.running = FALSE] /\ wedged' = wedged
    BY <1>7 DEF BulkEnd
  <2>2. bulk' \in Slot /\ ~bulk'.running /\ bulk'.items = bulk.items /\ bulk'.done = bulk.done
    BY <2>1 DEF Slot
  <2>3. BulkTruthful'
    BY <1>3, <1>6, <2>1, <2>2 DEF BulkTruthful
  <2>4. DoneCounted'
    BY <2>2 DEF BulksInv, DoneCounted, SettledItems
  <2>5. \A g \in Guests : bulk.items[g] \in ItemStates /\ bulk.items[g] \notin {"pending", "running"}
    BY <1>1, <2>1 DEF Slot, BulksInv, ItemsTracked
  <2>6. EndedSettled'
    BY <2>2, <2>5 DEF EndedSettled, ItemStates, Settled
  <2>7. SinglesInv'
    BY <1>1, <1>2, <2>1, SinglesFrame
  <2> QED
    BY <1>1, <1>2, <1>4, <1>5, <2>1, <2>2, <2>3, <2>4, <2>6, <2>7, Assembled DEF BulksInv
<1>8. ASSUME NEW g \in Guests, BulkTakeRaises(t, g) PROVE IInv'
  <2>1. /\ g \in thr[t].todo /\ bulk' = [bulk EXCEPT !.items[g] = "running"]
        /\ wedged' = wedged \cup {BulkSlot}
    BY <1>8 DEF BulkTakeRaises
  <2>2. bulk.items[g] \notin Settled /\ DoneCounted
    BY <1>1, <2>1 DEF BulksInv, ItemsTracked, Settled
  <2>3. bulk' \in Slot /\ DoneCounted' /\ bulk'.running = bulk.running
    BY <2>1, <2>2, BeginCountsNone
  <2>4. BulkTruthful' /\ EndedSettled'
    BY <1>6, <2>1, <2>3 DEF BulkTruthful, EndedSettled
  <2>5. SinglesInv'
    BY <1>1, <1>2, <2>1, SinglesFrame, GuestsAssumption
  <2> QED
    BY <1>1, <1>2, <1>4, <1>5, <2>1, <2>3, <2>4, <2>5, Assembled DEF BulksInv
<1> QED
  BY <1>7, <1>8

----------------------------------------------------------------------------
(* The scheduled scan and the lock. *)

\* A step of a scheduler's thread touches neither slot.
LEMMA CronKeeps ==
    ASSUME IInv, NEW t \in Crons, NEW v \in Thread, thr' = [thr EXCEPT ![t] = v],
           UNCHANGED <<job, bulk, wedged>>, lock' \in [Guests -> Threads \cup {Nobody}], LocksHeld'
    PROVE  IInv'
<1> USE IInvParts, TypeParts, Kinds
<1>1. thr' \in [Threads -> Thread] /\ \A u \in Threads : u # t => thr'[u] = thr[u]
  BY ThreadMoves
<1>2. SinglesInv' /\ BulksInv'
  BY <1>1, SinglesFrame, BulksFrame
<1> QED
  BY <1>1, <1>2, Assembled

LEMMA CronStepKeeps ==
    ASSUME IInv, NEW t \in Crons,
           \/ \E targets \in SUBSET Guests : CronStart(t, targets)
           \/ \E g \in Guests : CronTake(t, g)
           \/ CronScanned(t)
    PROVE  IInv'
<1> USE IInvParts, TypeParts, Kinds
<1>1. ASSUME NEW targets \in SUBSET Guests, CronStart(t, targets) PROVE IInv'
  <2> DEFINE v == [Idle EXCEPT !.pc = "loop", !.todo = targets]
  <2>1. v \in Thread /\ v.pc = "loop"
    BY IdleType DEF Idle
  <2>2. thr' = [thr EXCEPT ![t] = v] /\ UNCHANGED <<job, bulk, lock, wedged>>
    BY <1>1 DEF CronStart
  <2> HIDE DEF v
  <2>3. LocksHeld'
    BY <2>1, <2>2, ThreadMoves, LocksFrame DEF Underway
  <2> QED
    BY <2>1, <2>2, <2>3, CronKeeps
<1>2. ASSUME NEW g \in Guests, CronTake(t, g) PROVE IInv'
  <2> DEFINE v == [thr[t] EXCEPT !.pc = "waiting", !.g = g, !.todo = @ \ {g}]
  <2>1. v \in Thread /\ v.pc = "waiting" /\ v.g = g
    <3>1. thr[t] \in Thread
      OBVIOUS
    <3> QED
      BY <3>1 DEF Thread, Pcs
  <2>2. thr' = [thr EXCEPT ![t] = v] /\ UNCHANGED <<job, bulk, lock, wedged>>
    BY <1>2 DEF CronTake
  <2> HIDE DEF v
  <2>3. LocksHeld'
    BY <2>1, <2>2, ThreadMoves, LocksFrame
  <2> QED
    BY <2>1, <2>2, <2>3, CronKeeps
<1>3. CASE CronScanned(t)
  <2>1. thr[t].pc = "scanning" /\ Unlocked(t) /\ UNCHANGED <<job, bulk, wedged>>
    BY <1>3 DEF CronScanned
  <2>2. PICK v \in Thread : thr' = [thr EXCEPT ![t] = v] /\ v.pc \in {"idle", "loop"}
    <3> DEFINE w == [thr[t] EXCEPT !.pc = "loop", !.g = Nobody]
    <3>1. w \in Thread /\ w.pc = "loop" /\ Idle \in Thread /\ Idle.pc = "idle"
      <4>1. thr[t] \in Thread
        OBVIOUS
      <4>2. w \in Thread /\ w.pc = "loop"
        BY <4>1 DEF Thread, Pcs
      <4> QED
        BY <4>2, IdleType DEF Idle
    <3>2. thr' = [thr EXCEPT ![t] = Idle] \/ thr' = [thr EXCEPT ![t] = w]
      BY <1>3 DEF CronScanned
    <3> HIDE DEF w
    <3> QED
      BY <3>1, <3>2
  <2>3. thr'[t].pc \notin Underway /\ \A u \in Threads : u # t => thr'[u] = thr[u]
    BY <2>2, ThreadMoves DEF Underway
  <2>4. LocksHeld' /\ lock' \in [Guests -> Threads \cup {Nobody}]
    BY <2>1, <2>3, LocksGiven, UnlockedType
  <2> QED
    BY <2>1, <2>2, <2>4, CronKeeps
<1> QED
  BY <1>1, <1>2, <1>3

LEMMA ScanTakesLockKeeps ==
    ASSUME IInv, NEW t \in Threads, ScanTakesLock(t)
    PROVE  IInv'
<1> USE IInvParts, TypeParts, Kinds
<1> DEFINE v == [thr[t] EXCEPT !.pc = "scanning"]
           g == thr[t].g
<1>1. /\ thr[t].pc = "waiting" /\ lock[g] = Nobody /\ lock' = [lock EXCEPT ![g] = t]
      /\ Goto(t, "scanning") /\ thr' = [thr EXCEPT ![t] = v] /\ UNCHANGED <<job, bulk, wedged>>
  BY DEF ScanTakesLock, Goto
<1>2. g \in Guests
  BY <1>1 DEF LocksHeld, Underway
<1>3. v \in Thread /\ v.pc = "scanning" /\ v.g = g /\ v.todo = thr[t].todo
  BY DEF Thread, Pcs
<1> HIDE DEF v
<1>4. /\ thr' \in [Threads -> Thread] /\ thr'[t] = v
      /\ \A u \in Threads : u # t => thr'[u] = thr[u]
  BY <1>1, <1>3, ThreadMoves
<1>5. lock' \in [Guests -> Threads \cup {Nobody}]
  BY <1>1, <1>2
<1>6. LocksHeld'
  BY <1>1, <1>2, <1>3, <1>4, LocksTaken
<1>7. CASE t \in Singles
  <2>1. SinglesInv'
    BY <1>1, <1>7, SingleMovesOn DEF Underway
  <2>2. BulksInv'
    BY <1>1, <1>4, <1>7, BulksFrame
  <2> QED
    BY <1>1, <1>4, <1>5, <1>6, <2>1, <2>2, Assembled
<1>8. CASE t \in Bulks
  <2>1. Shown(bulk'.items, v)
    BY <1>1, <1>3, <1>8, ItemsShown DEF Shown
  <2>2. DoneCounted'
    BY <1>1 DEF BulksInv, DoneCounted, SettledItems
  <2> QED
    BY <1>1, <1>3, <1>5, <1>6, <1>8, <2>1, <2>2, BulkMovesOn
<1>9. CASE t \in Crons
  BY <1>1, <1>3, <1>5, <1>6, <1>9, CronKeeps
<1> QED
  BY <1>7, <1>8, <1>9

----------------------------------------------------------------------------
LEMMA InitIInv == Init => IInv
<1> SUFFICES ASSUME Init PROVE IInv
  OBVIOUS
<1>1. \A t \in Threads : thr[t].pc = "idle"
  BY DEF Init, Idle
<1>2. TypeOK
  BY IdleType DEF Init, TypeOK, Thread, Pcs, NoJob, ItemStates
<1>3. OneScanPerGuest /\ LocksHeld
  BY <1>1 DEF OneScanPerGuest, LocksHeld, Underway
<1>4. SinglesInv
  BY <1>1, Kinds DEF Init, SinglesInv, SinglesApart, JobsTruthful, NoJob
<1>5. DoneCounted
  <2>1. SettledItems = {}
    BY DEF Init, SettledItems, Settled
  <2> QED
    BY <2>1, FS_EmptySet DEF Init, DoneCounted
<1>6. BulksInv
  BY <1>1, <1>5, Kinds DEF Init, BulksInv, OneBulk, BulkTruthful, EndedSettled, ItemsTracked
<1> QED
  BY <1>2, <1>3, <1>4, <1>6, IInvParts

LEMMA NextIInv == IInv /\ [Next]_vars => IInv'
<1> SUFFICES ASSUME IInv, [Next]_vars PROVE IInv'
  OBVIOUS
<1>1. CASE Start
  BY <1>1, ScanSingleKeeps, ScanSingleRaisesKeeps, ScanAllKeeps, CronStepKeeps DEF Start, Targets
<1>2. ASSUME NEW t \in Threads, Advance(t) PROVE IInv'
  <2>1. CASE SingleBegin(t)
    BY <2>1, SingleBeginKeeps DEF SingleBegin
  <2>2. CASE SingleBeginRaises(t)
    BY <2>2, SingleBeginRaisesKeeps DEF SingleBeginRaises
  <2>3. CASE SingleScanned(t)
    BY <2>3, SingleScannedKeeps DEF SingleScanned
  <2>4. CASE ScanTakesLock(t)
    BY <2>4, ScanTakesLockKeeps
  <2>5. ASSUME NEW g \in Guests, BulkTake(t, g) PROVE IInv'
    BY <2>5, BulkTakeKeeps DEF BulkTake
  <2>6. ASSUME NEW g \in Guests, BulkTakeRaises(t, g) PROVE IInv'
    BY <2>6, BulkEndKeeps DEF BulkTakeRaises
  <2>7. ASSUME NEW g \in Guests, CronTake(t, g) PROVE IInv'
    BY <2>7, CronStepKeeps DEF CronTake
  <2>8. CASE BulkScanned(t)
    BY <2>8, BulkScannedKeeps DEF BulkScanned
  <2>9. CASE BulkEnd(t)
    BY <2>9, BulkEndKeeps DEF BulkEnd
  <2>10. CASE CronScanned(t)
    BY <2>10, CronStepKeeps DEF CronScanned
  <2> QED
    BY <1>2, <2>1, <2>2, <2>3, <2>4, <2>5, <2>6, <2>7, <2>8, <2>9, <2>10 DEF Advance
<1>3. CASE UNCHANGED vars
  BY <1>3 DEF vars, IInv, ScansSound, TypeOK, OneScanPerGuest, SlotsTruthful, LocksHeld,
              SinglesApart, ItemsTracked
<1> QED
  BY <1>1, <1>2, <1>3 DEF Next

\* The invariant behind ScansSound, inductive.
THEOREM IInvHolds == Spec => []IInv
  BY InitIInv, NextIInv, PTL DEF Spec

\* There is one scan of a guest at a time, whoever asked for it, and the slots
\* of the scan pages show what goes on: a job or a bulk scan shown as running
\* is in the hands of exactly one thread or lost its thread to a database
\* fault, and the count of a bulk scan is that of its settled guests
\* (scan_guest, ScanJob, _run_scan_background, _run_bulk_scan).
THEOREM ScansSoundHolds == Spec => []ScansSound
<1>1. IInv => ScansSound
  BY DEF IInv
<1> QED
  BY <1>1, IInvHolds, PTL

----------------------------------------------------------------------------
(* The Proxmox tasks. *)

\* The types of a job and a poller.
TaskJob == [running : BOOLEAN, success : {"none", "yes", "no"}, cancelRequested : BOOLEAN,
            cancelled : BOOLEAN, blind : BOOLEAN]
Poller == [pc : {"none", "begin", "sleep", "status"}, at : {0} \cup Tasks!Ids,
           rounds : 0..Deadline, errors : 0..MaxStatusErrors]

LEMMA TaskTypeParts ==
    Tasks!TypeOK <=>
        /\ task \in [Tasks!Ids -> {"none", "running", "OK", "failed"}]
        /\ key \in [Tasks!Ids -> Tasks!Keys \cup {Tasks!NoKey}]
        /\ taskJob \in [Tasks!Ids -> TaskJob]
        /\ slot \in [Tasks!Keys -> {0} \cup Tasks!Ids]
        /\ poller \in [Tasks!Ids -> Poller]
  BY DEF Tasks!TypeOK, TaskJob, Poller

LEMMA TaskBasics ==
    /\ Tasks!NoKey \notin Tasks!Keys /\ 0 \notin Tasks!Ids
    /\ Tasks!NoJob \in TaskJob /\ ~Tasks!NoJob.running
    /\ Tasks!NewJob \in TaskJob /\ Tasks!NewJob # Tasks!NoJob
    /\ Tasks!NoPoller \in Poller /\ Tasks!NoPoller.pc = "none"
<1>1. Tasks!NoKey \notin Tasks!Keys
  BY DEF Tasks!NoKey, Tasks!Keys, Tasks!JobTypes
<1>2. 0 \notin Tasks!Ids
  BY TasksAssumption DEF Tasks!Ids
<1>3. Tasks!NoJob \in TaskJob /\ ~Tasks!NoJob.running
  BY DEF Tasks!NoJob, TaskJob
<1>4. Tasks!NewJob \in TaskJob /\ Tasks!NewJob # Tasks!NoJob
  BY DEF Tasks!NoJob, Tasks!NewJob, TaskJob
<1>5. Tasks!NoPoller \in Poller /\ Tasks!NoPoller.pc = "none"
  BY TasksAssumption DEF Tasks!NoPoller, Poller
<1> QED
  BY <1>1, <1>2, <1>3, <1>4, <1>5

\* What ends a job.
LEMMA FinishedJob ==
    ASSUME NEW j \in TaskJob, NEW success \in {"yes", "no"}, NEW blind \in BOOLEAN
    PROVE  LET f == Tasks!Finished(j, success, blind)
           IN  /\ f \in TaskJob /\ f # Tasks!NoJob /\ ~f.running
               /\ f.success = success /\ f.blind = blind /\ f.cancelRequested = j.cancelRequested
               /\ f.cancelled <=> j.cancelled \/ (success = "no" /\ j.cancelRequested)
  BY DEF Tasks!Finished, TaskJob, Tasks!NoJob

\* The poller will end the job: it follows it, or has yet to look it up.
Serves(q, u) ==
    \/ poller[q].pc \in {"sleep", "status"} /\ poller[q].at = u
    \/ poller[q].pc = "begin" /\ key[q] = key[u]

LEMMA PolledParts ==
    Tasks!RunningIsPolled <=>
        \A u \in Tasks!Ids :
            key[u] # Tasks!NoKey /\ slot[key[u]] = u /\ taskJob[u].running
                => \E q \in Tasks!Ids : Serves(q, u)
  BY DEF Tasks!RunningIsPolled, Tasks!Shown, Serves

\* Truth of one job.
JobTrue(j, t) ==
    /\ j.success = "yes" => t = "OK"
    /\ j.success = "no" => j.blind \/ t = "failed"
    /\ j.cancelled => j.cancelRequested /\ ~j.running
    /\ j.running <=> j.success = "none" /\ j # Tasks!NoJob

LEMMA OutcomeParts == Tasks!OutcomeTrue <=> \A u \in Tasks!Ids : JobTrue(taskJob[u], task[u])
  BY DEF Tasks!OutcomeTrue, JobTrue

\* The parts of the invariant after a step.
LEMMA TasksAssembled ==
    ASSUME task' \in [Tasks!Ids -> {"none", "running", "OK", "failed"}],
           key' \in [Tasks!Ids -> Tasks!Keys \cup {Tasks!NoKey}],
           taskJob' \in [Tasks!Ids -> TaskJob],
           slot' \in [Tasks!Keys -> {0} \cup Tasks!Ids],
           poller' \in [Tasks!Ids -> Poller],
           Tasks!JobsHaveTasks', Tasks!PollersFollow', Tasks!RunningIsPolled',
           \A u \in Tasks!Ids : JobTrue(taskJob'[u], task'[u])
    PROVE  Tasks!IInv'
<1>1. Tasks!TypeOK'
  BY DEF Tasks!TypeOK, TaskJob, Poller
<1>2. Tasks!OutcomeTrue'
  BY DEF Tasks!OutcomeTrue, JobTrue
<1> QED
  BY <1>1, <1>2 DEF Tasks!IInv

\* A poller ends the job it follows or has just looked up, truthfully.
LEMMA PollerEndsKeeps ==
    ASSUME Tasks!IInv, NEW p \in Tasks!Ids, NEW u \in Tasks!Ids,
           NEW success \in {"yes", "no"}, NEW blind \in BOOLEAN,
           taskJob[u] # Tasks!NoJob, task[u] # "none",
           \/ poller[p].pc \in {"sleep", "status"} /\ poller[p].at = u
           \/ poller[p].pc = "begin" /\ slot[key[p]] = u,
           success = "yes" => task[u] = "OK", success = "no" => blind \/ task[u] = "failed",
           taskJob' = [taskJob EXCEPT ![u] = Tasks!Finished(@, success, blind)],
           poller' = [poller EXCEPT ![p] = Tasks!NoPoller], UNCHANGED <<task, key, slot>>
    PROVE  Tasks!IInv'
<1> USE TaskTypeParts, TaskBasics DEF Tasks!IInv
<1> DEFINE f == Tasks!Finished(taskJob[u], success, blind)
<1>1. /\ f \in TaskJob /\ f # Tasks!NoJob /\ ~f.running
      /\ f.success = success /\ f.blind = blind /\ f.cancelRequested = taskJob[u].cancelRequested
      /\ f.cancelled <=> taskJob[u].cancelled \/ (success = "no" /\ taskJob[u].cancelRequested)
  BY FinishedJob
<1>2. taskJob' = [taskJob EXCEPT ![u] = f]
  OBVIOUS
<1> HIDE DEF f
<1>3. /\ taskJob' \in [Tasks!Ids -> TaskJob] /\ taskJob'[u] = f
      /\ \A v \in Tasks!Ids : v # u => taskJob'[v] = taskJob[v]
  BY <1>1, <1>2
<1>4. /\ poller' \in [Tasks!Ids -> Poller] /\ poller'[p] = Tasks!NoPoller
      /\ \A q \in Tasks!Ids : q # p => poller'[q] = poller[q]
  OBVIOUS
<1>5. \A v \in Tasks!Ids : taskJob[v] # Tasks!NoJob => taskJob'[v] # Tasks!NoJob
  BY <1>1, <1>3
<1>6. Tasks!JobsHaveTasks'
  BY <1>3, <1>4, <1>5 DEF Tasks!JobsHaveTasks
<1>7. Tasks!PollersFollow'
  BY <1>4, <1>5 DEF Tasks!PollersFollow
<1>8. \A v \in Tasks!Ids : JobTrue(taskJob'[v], task'[v])
  <2>1. JobTrue(taskJob[u], task[u]) /\ \A v \in Tasks!Ids : v # u => JobTrue(taskJob'[v], task'[v])
    BY <1>3, OutcomeParts
  <2>2. JobTrue(f, task[u])
    BY <1>1, <2>1 DEF JobTrue
  <2> QED
    BY <1>3, <2>1, <2>2
<1>9. Tasks!RunningIsPolled'
  <2> SUFFICES ASSUME NEW v \in Tasks!Ids, key[v] # Tasks!NoKey, slot[key[v]] = v, taskJob'[v].running
               PROVE  \E q \in Tasks!Ids : Serves(q, v)'
    BY DEF Tasks!RunningIsPolled, Tasks!Shown, Serves
  <2>1. v # u /\ taskJob[v].running
    BY <1>1, <1>3
  <2>2. PICK q \in Tasks!Ids : Serves(q, v)
    BY <2>1, PolledParts
  <2>3. q # p
    BY <2>1, <2>2 DEF Serves
  <2> QED
    BY <1>4, <2>2, <2>3 DEF Serves
<1> QED
  BY <1>3, <1>4, <1>6, <1>7, <1>8, <1>9, TasksAssembled

\* A poller goes on with a job.
LEMMA PollerMovesKeeps ==
    ASSUME Tasks!IInv, NEW p \in Tasks!Ids, NEW r \in Poller, poller' = [poller EXCEPT ![p] = r],
           poller[p].pc # "none", r.pc \in {"sleep", "status"}, r.at # 0,
           \/ poller[p].pc = "begin" /\ r.at = slot[key[p]]
           \/ poller[p].pc \in {"sleep", "status"} /\ r.at = poller[p].at,
           UNCHANGED <<task, key, taskJob, slot>>
    PROVE  Tasks!IInv'
<1> USE TaskTypeParts, TaskBasics DEF Tasks!IInv
<1>1. /\ poller' \in [Tasks!Ids -> Poller] /\ poller'[p] = r
      /\ \A q \in Tasks!Ids : q # p => poller'[q] = poller[q]
  OBVIOUS
<1>2. poller[p] # Tasks!NoPoller
  OBVIOUS
<1>3. Tasks!JobsHaveTasks'
  BY <1>1, <1>2 DEF Tasks!JobsHaveTasks
<1>4. Tasks!PollersFollow'
  BY <1>1 DEF Tasks!PollersFollow, Tasks!JobsHaveTasks
<1>5. Tasks!RunningIsPolled'
  <2> SUFFICES ASSUME NEW v \in Tasks!Ids, key[v] # Tasks!NoKey, slot[key[v]] = v, taskJob[v].running
               PROVE  \E q \in Tasks!Ids : Serves(q, v)'
    BY DEF Tasks!RunningIsPolled, Tasks!Shown, Serves
  <2>1. PICK q \in Tasks!Ids : Serves(q, v)
    BY PolledParts
  <2> QED
    BY <1>1, <2>1 DEF Serves
<1> QED
  BY <1>1, <1>3, <1>4, <1>5, OutcomeParts, TasksAssembled

LEMMA PollKeeps == ASSUME Tasks!IInv, NEW p \in Tasks!Ids, Tasks!Poll(p) PROVE Tasks!IInv'
<1> USE TaskTypeParts, TaskBasics DEF Tasks!IInv
<1>0. poller[p] \in Poller
  OBVIOUS
<1>9. /\ Deadline \in Nat /\ MaxStatusErrors \in Nat
      /\ poller[p].rounds \in 0..Deadline /\ poller[p].errors \in 0..MaxStatusErrors
      /\ poller[p].at \in {0} \cup Tasks!Ids
  BY <1>0, TasksAssumption DEF Poller
<1> DEFINE u == poller[p].at
<1>1. CASE Tasks!PollBegin(p)
  <2> DEFINE v == slot[key[p]]
  <2>1. poller[p].pc = "begin" /\ UNCHANGED <<task, key, slot>>
    BY <1>1 DEF Tasks!PollBegin
  <2>2. key[p] \in Tasks!Keys /\ v # 0 /\ v \in Tasks!Ids /\ task[v] # "none" /\ taskJob[v] # Tasks!NoJob
    BY <2>1 DEF Tasks!PollersFollow, Tasks!JobsHaveTasks
  <2>3. CASE poller' = [poller EXCEPT ![p].pc = "sleep", ![p].at = v] /\ UNCHANGED taskJob
    <3> DEFINE r == [poller[p] EXCEPT !.pc = "sleep", !.at = v]
    <3>1. r \in Poller /\ r.pc = "sleep" /\ r.at = v
      BY <1>0, <2>2 DEF Poller
    <3>2. poller' = [poller EXCEPT ![p] = r]
      BY <2>3
    <3> HIDE DEF r
    <3> QED
      BY <2>1, <2>2, <2>3, <3>1, <3>2, PollerMovesKeeps
  <2>4. CASE /\ taskJob' = [taskJob EXCEPT ![v] = Tasks!Finished(@, "no", TRUE)]
             /\ poller' = [poller EXCEPT ![p] = Tasks!NoPoller]
    <3> HIDE DEF v
    <3> QED
      BY <2>1, <2>2, <2>4, PollerEndsKeeps DEF v
  <2> QED
    BY <1>1, <2>3, <2>4 DEF Tasks!PollBegin
<1>2. ASSUME poller[p].pc \in {"sleep", "status"}
      PROVE  u \in Tasks!Ids /\ u # 0 /\ task[u] # "none" /\ taskJob[u] # Tasks!NoJob
  BY <1>0, <1>2 DEF Tasks!PollersFollow, Poller
<1>3. ASSUME poller[p].pc \in {"sleep", "status"}, NEW success \in {"yes", "no"}, NEW blind \in BOOLEAN,
             Tasks!PollerEnds(p, success, blind),
             success = "yes" => task[u] = "OK", success = "no" => blind \/ task[u] = "failed"
      PROVE  Tasks!IInv'
  <2>1. /\ taskJob' = [taskJob EXCEPT ![u] = Tasks!Finished(@, success, blind)]
        /\ poller' = [poller EXCEPT ![p] = Tasks!NoPoller] /\ UNCHANGED <<task, key, slot>>
    BY <1>3 DEF Tasks!PollerEnds
  <2> QED
    BY <1>2, <1>3, <2>1, PollerEndsKeeps
<1>4. ASSUME poller[p].pc \in {"sleep", "status"}, NEW r \in Poller, poller' = [poller EXCEPT ![p] = r],
             r.pc \in {"sleep", "status"}, r.at = u, UNCHANGED <<task, key, taskJob, slot>>
      PROVE  Tasks!IInv'
  BY <1>2, <1>4, PollerMovesKeeps
<1> HIDE DEF u
<1>5. CASE Tasks!PollSleep(p)
  <2>1. CASE poller[p].rounds >= Deadline
    BY <1>3, <1>5, <2>1 DEF Tasks!PollSleep
  <2>2. CASE ~(poller[p].rounds >= Deadline)
    <3> DEFINE r == [poller[p] EXCEPT !.pc = "status", !.rounds = @ + 1]
    <3>0. poller[p].rounds + 1 \in 0..Deadline
      BY <1>9, <2>2
    <3>1. r \in Poller /\ r.pc = "status" /\ r.at = u
      BY <1>0, <3>0 DEF Poller, u
    <3>2. poller' = [poller EXCEPT ![p] = r] /\ UNCHANGED <<task, key, taskJob, slot>>
      BY <1>5, <2>2 DEF Tasks!PollSleep
    <3> HIDE DEF r
    <3> QED
      BY <1>4, <1>5, <3>1, <3>2 DEF Tasks!PollSleep
  <2> QED
    BY <2>1, <2>2
<1>6. CASE Tasks!PollRunning(p)
  <2> DEFINE r == [poller[p] EXCEPT !.pc = "sleep", !.errors = 0]
  <2>0. 0 \in 0..MaxStatusErrors
    BY <1>9
  <2>1. r \in Poller /\ r.pc = "sleep" /\ r.at = u
    BY <1>0, <2>0 DEF Poller, u
  <2>2. poller' = [poller EXCEPT ![p] = r] /\ UNCHANGED <<task, key, taskJob, slot>>
    BY <1>6 DEF Tasks!PollRunning
  <2> HIDE DEF r
  <2> QED
    BY <1>4, <1>6, <2>1, <2>2 DEF Tasks!PollRunning
<1>7. CASE Tasks!PollStopped(p)
  <2>1. poller[p].pc = "status" /\ task[u] \in {"OK", "failed"}
    BY <1>7 DEF Tasks!PollStopped, u
  <2>2. CASE task[u] = "OK"
    <3>1. Tasks!PollerEnds(p, "yes", FALSE)
      BY <1>7, <2>2 DEF Tasks!PollStopped, u
    <3> QED
      BY <1>3, <2>1, <2>2, <3>1
  <2>3. CASE task[u] = "failed"
    <3>1. Tasks!PollerEnds(p, "no", FALSE)
      BY <1>7, <2>3 DEF Tasks!PollStopped, u
    <3> QED
      BY <1>3, <2>1, <2>3, <3>1
  <2> QED
    BY <2>1, <2>2, <2>3
<1>8. CASE Tasks!PollError(p)
  <2>1. CASE poller[p].errors + 1 >= MaxStatusErrors
    BY <1>3, <1>8, <2>1 DEF Tasks!PollError
  <2>2. CASE ~(poller[p].errors + 1 >= MaxStatusErrors)
    <3> DEFINE r == [poller[p] EXCEPT !.pc = "sleep", !.errors = @ + 1]
    <3>0. poller[p].errors + 1 \in 0..MaxStatusErrors
      BY <1>9, <2>2
    <3>1. r \in Poller /\ r.pc = "sleep" /\ r.at = u
      BY <1>0, <3>0 DEF Poller, u
    <3>2. poller' = [poller EXCEPT ![p] = r] /\ UNCHANGED <<task, key, taskJob, slot>>
      BY <1>8, <2>2 DEF Tasks!PollError
    <3> HIDE DEF r
    <3> QED
      BY <1>4, <1>8, <3>1, <3>2 DEF Tasks!PollError
  <2> QED
    BY <2>1, <2>2
<1> QED
  BY <1>1, <1>5, <1>6, <1>7, <1>8 DEF Tasks!Poll

LEMMA StartedKeeps ==
    ASSUME Tasks!IInv, NEW u \in Tasks!Ids, NEW k \in Tasks!Keys, Tasks!Started(u, k)
    PROVE  Tasks!IInv'
<1> USE TaskTypeParts, TaskBasics DEF Tasks!IInv
<1>1. /\ task[u] = "none" /\ task' = [task EXCEPT ![u] = "running"] /\ key' = [key EXCEPT ![u] = k]
  BY DEF Tasks!Started
<1>2. taskJob[u] = Tasks!NoJob /\ poller[u] = Tasks!NoPoller /\ \A l \in Tasks!Keys : slot[l] # u
  BY <1>1 DEF Tasks!JobsHaveTasks
<1>3. \A p \in Tasks!Ids : poller[p].pc \in {"sleep", "status"} => poller[p].at # u
  BY <1>1 DEF Tasks!PollersFollow
<1>4. /\ task' \in [Tasks!Ids -> {"none", "running", "OK", "failed"}] /\ task'[u] = "running"
      /\ \A v \in Tasks!Ids : v # u => task'[v] = task[v] /\ key'[v] = key[v]
      /\ key' \in [Tasks!Ids -> Tasks!Keys \cup {Tasks!NoKey}] /\ key'[u] = k
  BY <1>1
<1>5. CASE Tasks!StartProxmoxJob(u, k)
  <2> DEFINE r == [Tasks!NoPoller EXCEPT !.pc = "begin"]
  <2>1. r \in Poller /\ r.pc = "begin"
    BY TasksAssumption DEF Tasks!NoPoller, Poller
  <2>2. /\ taskJob' = [taskJob EXCEPT ![u] = Tasks!NewJob] /\ slot' = [slot EXCEPT ![k] = u]
        /\ poller' = [poller EXCEPT ![u] = r]
    BY <1>5 DEF Tasks!StartProxmoxJob
  <2> HIDE DEF r
  <2>3. /\ taskJob' \in [Tasks!Ids -> TaskJob] /\ taskJob'[u] = Tasks!NewJob
        /\ slot' \in [Tasks!Keys -> {0} \cup Tasks!Ids] /\ slot'[k] = u
        /\ poller' \in [Tasks!Ids -> Poller] /\ poller'[u] = r
        /\ \A v \in Tasks!Ids : v # u => taskJob'[v] = taskJob[v] /\ poller'[v] = poller[v]
        /\ \A l \in Tasks!Keys : l # k => slot'[l] = slot[l]
    BY <2>1, <2>2
  <2>4. Tasks!JobsHaveTasks'
    BY <1>4, <2>3 DEF Tasks!JobsHaveTasks
  <2>5. Tasks!PollersFollow'
    <3>1. ASSUME NEW q \in Tasks!Ids, q # u, poller[q].pc = "begin"
          PROVE  key'[q] \in Tasks!Keys /\ slot'[key'[q]] # 0
      BY <1>4, <2>3, <3>1 DEF Tasks!PollersFollow
    <3>2. ASSUME NEW q \in Tasks!Ids, q # u, poller[q].pc \in {"sleep", "status"}
          PROVE  /\ poller[q].at # 0 /\ poller[q].at \in Tasks!Ids /\ poller[q].at # u
                 /\ task'[poller[q].at] # "none" /\ taskJob'[poller[q].at] # Tasks!NoJob
      <4>1. poller[q].at # 0 /\ poller[q].at \in Tasks!Ids /\ poller[q].at # u
        BY <1>3, <3>2 DEF Tasks!PollersFollow, Poller
      <4> QED
        BY <1>4, <2>3, <3>2, <4>1 DEF Tasks!PollersFollow
    <3> QED
      BY <1>4, <2>1, <2>3, <3>1, <3>2 DEF Tasks!PollersFollow
  <2>6. \A v \in Tasks!Ids : JobTrue(taskJob'[v], task'[v])
    <3>1. JobTrue(Tasks!NewJob, "running")
      BY DEF JobTrue, Tasks!NewJob, Tasks!NoJob
    <3> QED
      BY <1>4, <2>3, <3>1, OutcomeParts
  <2>7. Tasks!RunningIsPolled'
    <3> SUFFICES ASSUME NEW v \in Tasks!Ids, key'[v] # Tasks!NoKey, slot'[key'[v]] = v, taskJob'[v].running
                 PROVE  \E q \in Tasks!Ids : Serves(q, v)'
      BY DEF Tasks!RunningIsPolled, Tasks!Shown, Serves
    <3>1. CASE v = u
      BY <2>1, <2>3, <3>1 DEF Serves
    <3>2. CASE v # u
      <4>1. key[v] \in Tasks!Keys /\ key[v] # k /\ slot[key[v]] = v /\ taskJob[v].running
        BY <1>4, <2>3, <3>2
      <4>2. PICK q \in Tasks!Ids : Serves(q, v)
        BY <4>1, PolledParts
      <4>3. q # u
        BY <1>2, <4>2 DEF Serves
      <4> QED
        BY <1>4, <2>3, <3>2, <4>2, <4>3 DEF Serves
    <3> QED
      BY <3>1, <3>2
  <2> QED
    BY <1>4, <2>3, <2>4, <2>5, <2>6, <2>7, TasksAssembled
<1>6. CASE UNCHANGED <<taskJob, slot, poller>>
  <2>1. Tasks!JobsHaveTasks'
    BY <1>4, <1>6 DEF Tasks!JobsHaveTasks
  <2>2. Tasks!PollersFollow'
    <3>1. ASSUME NEW q \in Tasks!Ids, poller[q].pc \in {"sleep", "status"}
          PROVE  poller[q].at \in Tasks!Ids /\ poller[q].at # u
      BY <1>3, <3>1 DEF Tasks!PollersFollow, Poller
    <3> QED
      BY <1>2, <1>4, <1>6, <3>1 DEF Tasks!PollersFollow
  <2>3. \A v \in Tasks!Ids : JobTrue(taskJob'[v], task'[v])
    <3>1. JobTrue(Tasks!NoJob, "running")
      BY DEF JobTrue, Tasks!NoJob
    <3> QED
      BY <1>2, <1>4, <1>6, <3>1, OutcomeParts
  <2>4. Tasks!RunningIsPolled'
    <3> SUFFICES ASSUME NEW v \in Tasks!Ids, key'[v] # Tasks!NoKey, slot[key'[v]] = v, taskJob[v].running
                 PROVE  \E q \in Tasks!Ids : Serves(q, v)'
      BY <1>6 DEF Tasks!RunningIsPolled, Tasks!Shown, Serves
    <3>1. v # u
      BY <1>2
    <3>2. PICK q \in Tasks!Ids : Serves(q, v)
      BY <1>4, <3>1, PolledParts
    <3>3. q # u
      BY <1>2, <3>2 DEF Serves
    <3> QED
      BY <1>4, <1>6, <3>1, <3>2, <3>3 DEF Serves
  <2> QED
    BY <1>4, <1>6, <2>1, <2>2, <2>3, <2>4, TasksAssembled
<1> QED
  BY <1>5, <1>6 DEF Tasks!Started

LEMMA TaskEndsKeeps == ASSUME Tasks!IInv, NEW u \in Tasks!Ids, Tasks!TaskEnds(u) PROVE Tasks!IInv'
<1> USE TaskTypeParts, TaskBasics DEF Tasks!IInv
<1>1. PICK exit \in {"OK", "failed"} : task' = [task EXCEPT ![u] = exit]
  BY DEF Tasks!TaskEnds
<1>2. task[u] = "running" /\ UNCHANGED <<key, taskJob, slot, poller>>
  BY DEF Tasks!TaskEnds
<1>3. /\ task' \in [Tasks!Ids -> {"none", "running", "OK", "failed"}] /\ task'[u] = exit
      /\ \A v \in Tasks!Ids : v # u => task'[v] = task[v]
  BY <1>1
<1>4. \A v \in Tasks!Ids : task'[v] = "none" <=> task[v] = "none"
  BY <1>2, <1>3
<1>5. Tasks!JobsHaveTasks' /\ Tasks!PollersFollow'
  <2>1. \A q \in Tasks!Ids : poller[q].at = 0 \/ poller[q].at \in Tasks!Ids
    BY DEF Poller
  <2>2. \A k \in Tasks!Keys : slot[k] = 0 \/ slot[k] \in Tasks!Ids
    OBVIOUS
  <2>3. Tasks!JobsHaveTasks'
    BY <1>2, <1>4, <2>2 DEF Tasks!JobsHaveTasks
  <2> QED
    BY <1>2, <1>4, <2>1, <2>3 DEF Tasks!PollersFollow
<1>6. Tasks!RunningIsPolled'
  BY <1>2 DEF Tasks!RunningIsPolled, Tasks!Shown
<1>7. \A v \in Tasks!Ids : JobTrue(taskJob'[v], task'[v])
  <2>1. JobTrue(taskJob[u], "running")
    BY <1>2, OutcomeParts
  <2>2. JobTrue(taskJob[u], exit)
    BY <2>1 DEF JobTrue
  <2> QED
    BY <1>2, <1>3, <2>2, OutcomeParts
<1> QED
  BY <1>2, <1>3, <1>5, <1>6, <1>7, TasksAssembled

LEMMA TaskCancelKeeps == ASSUME Tasks!IInv, NEW k \in Tasks!Keys, Tasks!TaskCancel(k) PROVE Tasks!IInv'
<1> USE TaskTypeParts, TaskBasics DEF Tasks!IInv
<1> DEFINE u == slot[k]
           j == [taskJob[u] EXCEPT !.cancelRequested = TRUE]
<1>1. u \in Tasks!Ids /\ taskJob[u].running /\ UNCHANGED <<task, key, slot, poller>>
  BY DEF Tasks!TaskCancel
<1>2. taskJob' = [taskJob EXCEPT ![u] = j]
  BY <1>1 DEF Tasks!TaskCancel
<1>3. /\ j \in TaskJob /\ j.running /\ j.cancelRequested /\ j # Tasks!NoJob /\ j.success = taskJob[u].success
      /\ j.cancelled = taskJob[u].cancelled /\ j.blind = taskJob[u].blind
  <2>1. taskJob[u] \in TaskJob
    BY <1>1
  <2> QED
    BY <1>1, <2>1 DEF TaskJob
<1> HIDE DEF u, j
<1>4. /\ taskJob' \in [Tasks!Ids -> TaskJob] /\ taskJob'[u] = j
      /\ \A v \in Tasks!Ids : v # u => taskJob'[v] = taskJob[v]
  BY <1>1, <1>2, <1>3
<1>5. task[u] # "none" /\ \A v \in Tasks!Ids : taskJob[v] # Tasks!NoJob => taskJob'[v] # Tasks!NoJob
  BY <1>1, <1>3, <1>4 DEF Tasks!JobsHaveTasks
<1>6. Tasks!JobsHaveTasks' /\ Tasks!PollersFollow'
  <2>1. \A q \in Tasks!Ids : poller[q].at = 0 \/ poller[q].at \in Tasks!Ids
    BY DEF Poller
  <2>2. \A l \in Tasks!Keys : slot[l] = 0 \/ slot[l] \in Tasks!Ids
    OBVIOUS
  <2>3. Tasks!JobsHaveTasks'
    BY <1>1, <1>4, <1>5, <2>2 DEF Tasks!JobsHaveTasks
  <2> QED
    BY <1>1, <1>5, <2>1, <2>3 DEF Tasks!PollersFollow
<1>7. \A v \in Tasks!Ids : JobTrue(taskJob'[v], task'[v])
  <2>1. JobTrue(taskJob[u], task[u])
    BY <1>1, OutcomeParts
  <2>2. JobTrue(j, task[u])
    BY <1>1, <1>3, <2>1 DEF JobTrue
  <2> QED
    BY <1>1, <1>4, <2>2, OutcomeParts
<1>8. Tasks!RunningIsPolled'
  <2>1. \A v \in Tasks!Ids : taskJob'[v].running => taskJob[v].running
    BY <1>1, <1>4
  <2> QED
    BY <1>1, <2>1 DEF Tasks!RunningIsPolled, Tasks!Shown
<1> QED
  BY <1>1, <1>4, <1>6, <1>7, <1>8, TasksAssembled

LEMMA TasksInit == Tasks!Init => Tasks!IInv
<1> SUFFICES ASSUME Tasks!Init PROVE Tasks!IInv
  OBVIOUS
<1>1. Tasks!TypeOK
  BY TaskTypeParts, TaskBasics DEF Tasks!Init
<1>2. Tasks!JobsHaveTasks /\ Tasks!PollersFollow /\ Tasks!RunningIsPolled
  BY TaskBasics DEF Tasks!Init, Tasks!JobsHaveTasks, Tasks!PollersFollow, Tasks!RunningIsPolled, Tasks!Shown
<1>3. Tasks!OutcomeTrue
  <2>1. JobTrue(Tasks!NoJob, "none")
    BY DEF JobTrue, Tasks!NoJob
  <2> QED
    BY <2>1, OutcomeParts DEF Tasks!Init
<1> QED
  BY <1>1, <1>2, <1>3 DEF Tasks!IInv

LEMMA TasksNext == Tasks!IInv /\ [Tasks!Next]_(Tasks!vars) => Tasks!IInv'
<1> SUFFICES ASSUME Tasks!IInv, [Tasks!Next]_(Tasks!vars) PROVE Tasks!IInv'
  OBVIOUS
<1>1. ASSUME NEW u \in Tasks!Ids, NEW g \in TaskGuests,
             \/ Tasks!CloneGuest(u, g) \/ Tasks!MigrateGuest(u, g)
             \/ Tasks!ManageSnapshot(u, g) \/ Tasks!ManageBackup(u, g)
      PROVE  Tasks!IInv'
  <2>1. PICK type \in Tasks!JobTypes : Tasks!Started(u, <<type, g>>)
    BY <1>1 DEF Tasks!CloneGuest, Tasks!MigrateGuest, Tasks!ManageSnapshot, Tasks!ManageBackup,
                Tasks!CreateSnapshot, Tasks!DeleteSnapshot, Tasks!RollbackSnapshot,
                Tasks!CreateBackup, Tasks!RestoreBackup, Tasks!JobTypes
  <2>2. <<type, g>> \in Tasks!Keys
    BY DEF Tasks!Keys
  <2> QED
    BY <2>1, <2>2, StartedKeeps
<1>2. ASSUME NEW u \in Tasks!Ids, Tasks!TaskEnds(u) \/ Tasks!Poll(u) PROVE Tasks!IInv'
  BY <1>2, TaskEndsKeeps, PollKeeps
<1>3. ASSUME NEW k \in Tasks!Keys, Tasks!TaskCancel(k) PROVE Tasks!IInv'
  BY <1>3, TaskCancelKeeps
<1>4. CASE UNCHANGED Tasks!vars
  BY <1>4 DEF Tasks!vars, Tasks!IInv, Tasks!TypeOK, Tasks!JobsHaveTasks, Tasks!PollersFollow,
              Tasks!OutcomeTrue, Tasks!RunningIsPolled, Tasks!Shown
<1> QED
  BY <1>1, <1>2, <1>3, <1>4 DEF Tasks!Next

\* What a Proxmox job shows is how its task ended: a success is the node's own
\* OK, a failure is the node's or declared for want of an answer, a cancelled
\* job was asked to be; and a job shown as running has a thread to end it,
\* whichever threads poll it and whatever replaces it in its slot
\* (ProxmoxJob.finish, start_proxmox_job, _poll_proxmox_task).
THEOREM OutcomeTrueHolds == Tasks!Spec => []OutcomeTrue
<1>1. Tasks!IInv => OutcomeTrue
  BY DEF Tasks!IInv, OutcomeTrue
<1> QED
  BY <1>1, TasksInit, TasksNext, PTL DEF Tasks!Spec
=============================================================================
