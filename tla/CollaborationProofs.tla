------------------------ MODULE CollaborationProofs ------------------------
(***************************************************************************)
(* That the presence hub serves a user's newest tab, keeps what is about a *)
(* guest within the guest's tags, and with greenlets ends up telling every *)
(* tab the truth, for any users, streams and concurrent pushes; and that a *)
(* shared terminal shows everyone consecutive output and announces its     *)
(* end, for any followers, history and queue sizes.                        *)
(***************************************************************************)
EXTENDS MCCollaboration, Sequences, WellFoundedInduction, TLAPS

----------------------------------------------------------------------------
(* The presence hub. *)


\* The type of a push in progress.
Push == [step : {"none", "targets", "list", "put"}, left : SUBSET Streams,
         to : Streams \cup {None}, list : Presence]

LEMMA RestingType == Resting \in Push
  BY DEF Resting, Push, Presence

\* A presence list is one, and every user appears on it with the page the
\* viewer may see.
LEMMA OnlineType ==
    ASSUME NEW e, NEW pg \in [Users -> Pages], NEW q, NEW v
    PROVE  OnlineUsers(e, pg, q, v) \in Presence
<1>1. ASSUME NEW x \in OnlineUsers(e, pg, q, v) PROVE x \in Users \X Pages
  <2>1. PICK u \in {w \in Users : e[w] # None /\ w \notin q} :
           x = <<u, IF pg[u] = "guest" /\ v \notin Covering /\ u # v THEN "/" ELSE pg[u]>>
    BY <1>1 DEF OnlineUsers
  <2>2. (IF pg[u] = "guest" /\ v \notin Covering /\ u # v THEN "/" ELSE pg[u]) \in Pages
    BY <2>1 DEF Pages
  <2> QED
    BY <2>1, <2>2
<1> QED
  BY <1>1 DEF Presence

\* A list made for a user outside the guest's tags names the guest only where
\* the user is on its page.
LEMMA OnlineRedacted ==
    ASSUME NEW e, NEW pg, NEW q, NEW v, v \notin Covering,
           NEW x \in OnlineUsers(e, pg, q, v), x[2] = "guest"
    PROVE  x[1] = v
<1>1. PICK u \in {w \in Users : e[w] # None /\ w \notin q} :
         x = <<u, IF pg[u] = "guest" /\ v \notin Covering /\ u # v THEN "/" ELSE pg[u]>>
  BY DEF OnlineUsers
<1> QED
  BY <1>1

\* The users on a list are the ones online, so one that went quiet is not.
LEMMA OnlineAwake ==
    ASSUME NEW e, NEW pg, NEW q, NEW v
    PROVE  \A x \in OnlineUsers(e, pg, q, v) : x[1] \notin q
<1>1. ASSUME NEW x \in OnlineUsers(e, pg, q, v) PROVE x[1] \notin q
  <2>1. PICK u \in {w \in Users : e[w] # None /\ w \notin q} :
           x = <<u, IF pg[u] = "guest" /\ v \notin Covering /\ u # v THEN "/" ELSE pg[u]>>
    BY <1>1 DEF OnlineUsers
  <2> QED
    BY <2>1
<1> QED
  BY <1>1

\* What a list says of the users that are still awake does not change when
\* another one goes quiet.
LEMMA OnlineFilter ==
    ASSUME NEW e, NEW pg, NEW q, NEW v, NEW w
    PROVE  \A x : x \in OnlineUsers(e, pg, q \cup {w}, v)
                   <=> x \in OnlineUsers(e, pg, q, v) /\ x[1] # w
<1> DEFINE line(u) == <<u, IF pg[u] = "guest" /\ v \notin Covering /\ u # v THEN "/" ELSE pg[u]>>
           A(r) == {u \in Users : e[u] # None /\ u \notin r}
<1>1. OnlineUsers(e, pg, q, v) = {line(u) : u \in A(q)}
  BY DEF OnlineUsers
<1>2. OnlineUsers(e, pg, q \cup {w}, v) = {line(u) : u \in A(q \cup {w})}
  BY DEF OnlineUsers
<1>3. \A u : line(u)[1] = u
  OBVIOUS
<1>4. \A u : u \in A(q \cup {w}) <=> u \in A(q) /\ u # w
  OBVIOUS
<1> HIDE DEF line, A
<1> QED
  BY <1>1, <1>2, <1>3, <1>4

----------------------------------------------------------------------------
(* Type correctness. *)

LEMMA TypeParts ==
    TypeOK <=>
        /\ worker \in Workers
        /\ status \in [Streams -> {"new", "open", "closed"}]
        /\ entry \in [Users -> Streams \cup {None}]
        /\ page \in [Users -> Pages] /\ quiet \subseteq Users
        /\ push \in [Pushers -> Push]
        /\ last \in [Streams -> Presence]
        /\ full \subseteq Streams /\ events \subseteq Streams
        /\ newest \in [Users -> Streams \cup {None}]
  BY DEF TypeOK, Push

\* The targets of a push are streams.
LEMMA TargetsType ==
    ASSUME NEW e \in [Users -> Streams \cup {None}]
    PROVE  Targets(e) \subseteq Streams
  BY DEF Targets

\* Telling everybody keeps the queues and the pushes in progress well typed.
LEMMA PushType ==
    ASSUME TypeOK, NEW e \in [Users -> Streams \cup {None}], NEW pg \in [Users -> Pages],
           NEW q, PushPresence(e, pg, q)
    PROVE  push' \in [Pushers -> Push] /\ last' \in [Streams -> Presence] /\ full' \subseteq Streams
<1> USE TypeParts
<1>1. CASE Preemptive
  <2>1. PICK p \in Pushers : push[p] = Resting /\ push' = [push EXCEPT ![p].step = "targets"]
    BY <1>1 DEF PushPresence
  <2>2. [push[p] EXCEPT !.step = "targets"] \in Push
    BY <2>1, RestingType DEF Push
  <2>3. push' \in [Pushers -> Push]
    BY <2>1, <2>2
  <2> QED
    BY <1>1, <2>3 DEF PushPresence, queues
<1>2. CASE ~Preemptive
  <2>1. PICK ok \in SUBSET Targets(e) :
           /\ last' = [s \in Streams |-> IF s \in ok THEN OnlineUsers(e, pg, q, Owner[s])
                                         ELSE last[s]]
           /\ full' = (full \cup Targets(e)) \ ok
           /\ push' = push
    BY <1>2 DEF PushPresence
  <2>2. \A s \in Streams : OnlineUsers(e, pg, q, Owner[s]) \in Presence
    BY OnlineType
  <2>3. last' \in [Streams -> Presence]
    BY <2>1, <2>2
  <2> QED
    BY <2>1, <2>3, TargetsType
<1> QED
  BY <1>1, <1>2

\* a list is put only where there is a queue to put it into
PutsTargeted == \A p \in Pushers : push[p].step = "put" => push[p].to \in Streams

LEMMA NextType == ASSUME TypeOK, PutsTargeted, [Next]_vars PROVE TypeOK'
<1> USE TypeParts
<1>1. ASSUME NEW s \in Streams, Connect(s), worker' = worker PROVE TypeOK'
  <2>1. Owner[s] \in Users
    BY OwnerAssumption
  <2>2. /\ status' \in [Streams -> {"new", "open", "closed"}]
        /\ entry' \in [Users -> Streams \cup {None}]
        /\ page' \in [Users -> Pages] /\ quiet' \subseteq Users
        /\ newest' \in [Users -> Streams \cup {None}] /\ events' = events
    BY <1>1, <2>1 DEF Connect
  <2>3. PushPresence(entry', page', quiet')
    BY <1>1 DEF Connect
  <2>4. push' \in [Pushers -> Push] /\ last' \in [Streams -> Presence] /\ full' \subseteq Streams
    BY <2>2, <2>3, PushType
  <2> QED
    BY <1>1, <2>2, <2>4 DEF TypeOK, Push
<1>2. ASSUME NEW s \in Streams, Disconnect(s), worker' = worker PROVE TypeOK'
  <2>1. Owner[s] \in Users
    BY OwnerAssumption
  <2>2. /\ status' \in [Streams -> {"new", "open", "closed"}]
        /\ entry' \in [Users -> Streams \cup {None}]
        /\ page' = page /\ quiet' = quiet /\ newest' = newest /\ events' = events
    BY <1>2, <2>1 DEF Disconnect
  <2>3. PushPresence(entry', page, quiet) \/ UNCHANGED <<push, queues>>
    BY <1>2 DEF Disconnect
  <2>4. push' \in [Pushers -> Push] /\ last' \in [Streams -> Presence] /\ full' \subseteq Streams
    <3>1. CASE PushPresence(entry', page, quiet)
      BY <2>2, <3>1, PushType
    <3>2. CASE UNCHANGED <<push, queues>>
      BY <3>2 DEF queues
    <3> QED
      BY <2>3, <3>1, <3>2
  <2> QED
    BY <1>2, <2>2, <2>4 DEF TypeOK, Push
<1>3. ASSUME NEW u \in Users, UpdatePresence(u), worker' = worker PROVE TypeOK'
  <2>1. /\ page' \in [Users -> Pages] /\ quiet' \subseteq Users
        /\ status' = status /\ entry' = entry /\ newest' = newest /\ events' = events
    BY <1>3 DEF UpdatePresence
  <2>2. PushPresence(entry, page', quiet')
    BY <1>3 DEF UpdatePresence
  <2>3. push' \in [Pushers -> Push] /\ last' \in [Streams -> Presence] /\ full' \subseteq Streams
    BY <2>1, <2>2, PushType
  <2> QED
    BY <1>3, <2>1, <2>3 DEF TypeOK, Push
<1>4. ASSUME NEW u \in Users, GoQuiet(u), worker' = worker PROVE TypeOK'
  BY <1>4 DEF GoQuiet, queues, TypeOK
<1>5. ASSUME BroadcastGuestEvent, worker' = worker PROVE TypeOK'
  BY <1>5, TargetsType DEF BroadcastGuestEvent, queues, TypeOK
<1>6. ASSUME NEW p \in Pushers, PushTargets(p), worker' = worker PROVE TypeOK'
  <2>1. push[p] \in Push /\ Targets(entry) \subseteq Streams
    BY TargetsType
  <2>2. [push[p] EXCEPT !.step = "list", !.left = Targets(entry)] \in Push
    BY <2>1 DEF Push
  <2>3. push' \in [Pushers -> Push]
    BY <1>6, <2>2, RestingType DEF PushTargets
  <2> QED
    BY <1>6, <2>3 DEF PushTargets, queues, TypeOK, Push
<1>7. ASSUME NEW p \in Pushers, PushList(p), worker' = worker PROVE TypeOK'
  <2>1. PICK s \in push[p].left :
           push' = [push EXCEPT ![p] = [step |-> "put", left |-> push[p].left \ {s}, to |-> s,
                                        list |-> OnlineUsers(entry, page, quiet, Owner[s])]]
    BY <1>7 DEF PushList
  <2>2. push[p] \in Push /\ OnlineUsers(entry, page, quiet, Owner[s]) \in Presence
    BY OnlineType
  <2>3. [step |-> "put", left |-> push[p].left \ {s}, to |-> s,
         list |-> OnlineUsers(entry, page, quiet, Owner[s])] \in Push
    BY <2>2 DEF Push
  <2>4. push' \in [Pushers -> Push]
    BY <2>1, <2>3
  <2> QED
    BY <1>7, <2>4 DEF PushList, queues, TypeOK, Push
<1>8. ASSUME NEW p \in Pushers, PushPut(p), worker' = worker PROVE TypeOK'
  <2>1. push[p] \in Push /\ push[p].to \in Streams
    BY <1>8 DEF PushPut, PutsTargeted
  <2>2. last' \in [Streams -> Presence] /\ full' \subseteq Streams
    BY <1>8, <2>1 DEF PushPut, Push
  <2>3. [push[p] EXCEPT !.step = "list", !.to = None, !.list = {}] \in Push
    BY <2>1 DEF Push, Presence
  <2>4. push' \in [Pushers -> Push]
    BY <1>8, <2>3, RestingType DEF PushPut
  <2> QED
    BY <1>8, <2>2, <2>4 DEF PushPut, TypeOK, Push
<1>9. CASE UNCHANGED vars
  BY <1>9 DEF vars, TypeOK
<1> QED
  BY <1>1, <1>2, <1>3, <1>4, <1>5, <1>6, <1>7, <1>8, <1>9 DEF Next

----------------------------------------------------------------------------
(* The user's newest tab. *)

LEMMA NextNewest ==
    ASSUME TypeOK, NewestServed, EntriesOwned, [Next]_vars
    PROVE  NewestServed' /\ EntriesOwned'
<1> USE TypeParts, OwnerAssumption, NoneAssumption
<1>1. ASSUME NEW s \in Streams, Connect(s) PROVE NewestServed' /\ EntriesOwned'
  <2>1. /\ status' = [status EXCEPT ![s] = "open"]
        /\ entry' = [entry EXCEPT ![Owner[s]] = s]
        /\ newest' = [newest EXCEPT ![Owner[s]] = s]
    BY <1>1 DEF Connect
  <2>2. EntriesOwned'
    BY <2>1 DEF EntriesOwned
  <2>3. ASSUME NEW u \in Users, newest'[u] # None, status'[newest'[u]] = "open"
        PROVE  entry'[u] = newest'[u]
    <3>1. CASE u = Owner[s]
      BY <2>1, <3>1
    <3>2. CASE u # Owner[s]
      <4>1. newest'[u] = newest[u] /\ entry'[u] = entry[u] /\ Owner[newest[u]] = u
        BY <2>1, <2>3, <3>2 DEF EntriesOwned
      <4>2. newest[u] # s /\ newest[u] \in Streams
        BY <2>3, <3>2, <4>1
      <4> QED
        BY <2>1, <2>3, <4>1, <4>2 DEF NewestServed
    <3> QED
      BY <3>1, <3>2
  <2> QED
    BY <2>2, <2>3 DEF NewestServed
<1>2. ASSUME NEW s \in Streams, Disconnect(s) PROVE NewestServed' /\ EntriesOwned'
  <2>1. /\ status' = [status EXCEPT ![s] = "closed"]
        /\ newest' = newest
        /\ entry' = IF entry[Owner[s]] = s THEN [entry EXCEPT ![Owner[s]] = None] ELSE entry
    BY <1>2 DEF Disconnect
  <2>2. EntriesOwned'
    BY <2>1 DEF EntriesOwned
  <2>3. ASSUME NEW u \in Users, newest'[u] # None, status'[newest'[u]] = "open"
        PROVE  entry'[u] = newest'[u]
    <3>1. newest[u] \in Streams /\ newest[u] # s
      BY <2>1, <2>3
    <3>2. entry[u] = newest[u]
      BY <2>1, <2>3, <3>1 DEF NewestServed
    <3> QED
      BY <2>1, <3>1, <3>2
  <2> QED
    BY <2>2, <2>3 DEF NewestServed
<1>3. CASE UNCHANGED <<status, entry, newest>>
  BY <1>3 DEF NewestServed, EntriesOwned
<1>4. ASSUME NEW u \in Users, UpdatePresence(u) \/ GoQuiet(u)
      PROVE  UNCHANGED <<status, entry, newest>>
  BY <1>4 DEF UpdatePresence, GoQuiet
<1>5. BroadcastGuestEvent \/ UNCHANGED vars => UNCHANGED <<status, entry, newest>>
  BY DEF BroadcastGuestEvent, vars
<1>6. ASSUME NEW p \in Pushers, PushTargets(p) \/ PushList(p) \/ PushPut(p)
      PROVE  UNCHANGED <<status, entry, newest>>
  BY <1>6 DEF PushTargets, PushList, PushPut
<1> QED
  BY <1>1, <1>2, <1>3, <1>4, <1>5, <1>6 DEF Next

----------------------------------------------------------------------------
(* What is about a guest. *)

\* Telling everybody keeps every list within its viewer's tags.
LEMMA PushRedacts ==
    ASSUME TypeOK, ScopeKept, ListsRedacted, NEW e, NEW pg, NEW q,
           PushPresence(e, pg, q), events' = events
    PROVE  ScopeKept' /\ ListsRedacted'
<1> USE TypeParts
<1>1. CASE Preemptive
  <2>1. PICK p \in Pushers : push' = [push EXCEPT ![p].step = "targets"]
    BY <1>1 DEF PushPresence
  <2>2. last' = last /\ push[p] \in Push
    BY <1>1 DEF PushPresence, queues
  <2>3. push'[p].step = "targets" /\ \A r \in Pushers : r # p => push'[r] = push[r]
    BY <2>1, <2>2 DEF Push
  <2> QED
    BY <2>2, <2>3 DEF ScopeKept, ListsRedacted
<1>2. CASE ~Preemptive
  <2>1. PICK ok \in SUBSET Targets(e) :
           /\ last' = [s \in Streams |-> IF s \in ok THEN OnlineUsers(e, pg, q, Owner[s])
                                         ELSE last[s]]
           /\ push' = push
    BY <1>2 DEF PushPresence
  <2>2. ASSUME NEW s \in Streams, Owner[s] \notin Covering, NEW x \in last'[s], x[2] = "guest"
        PROVE  x[1] = Owner[s]
    <3>1. CASE s \in ok
      BY <2>1, <2>2, <3>1, OnlineRedacted
    <3>2. CASE s \notin ok
      BY <2>1, <2>2, <3>2 DEF ScopeKept
    <3> QED
      BY <3>1, <3>2
  <2> QED
    BY <2>1, <2>2 DEF ScopeKept, ListsRedacted
<1> QED
  BY <1>1, <1>2

LEMMA NextScope ==
    ASSUME TypeOK, ScopeKept, ListsRedacted, EntriesOwned, [Next]_vars
    PROVE  ScopeKept' /\ ListsRedacted'
<1> USE TypeParts
<1>1. ASSUME NEW s \in Streams, Connect(s) PROVE ScopeKept' /\ ListsRedacted'
  BY <1>1, PushRedacts DEF Connect
<1>0. CASE UNCHANGED <<push, last, events>>
  BY <1>0 DEF ScopeKept, ListsRedacted
<1>2. ASSUME NEW s \in Streams, Disconnect(s) PROVE ScopeKept' /\ ListsRedacted'
  <2>1. CASE PushPresence(entry', page, quiet)
    BY <1>2, <2>1, PushRedacts DEF Disconnect
  <2>2. CASE UNCHANGED <<push, queues>>
    BY <1>0, <1>2, <2>2 DEF Disconnect, queues
  <2> QED
    BY <1>2, <2>1, <2>2 DEF Disconnect
<1>3. ASSUME NEW u \in Users, UpdatePresence(u) PROVE ScopeKept' /\ ListsRedacted'
  BY <1>3, PushRedacts DEF UpdatePresence
<1>4. ASSUME NEW u \in Users, GoQuiet(u) PROVE ScopeKept' /\ ListsRedacted'
  BY <1>0, <1>4 DEF GoQuiet, queues
<1>5. CASE BroadcastGuestEvent
  <2>1. last' = last /\ push' = push
        /\ events' = events \cup {s \in Targets(entry) : Owner[s] \in Covering}
    BY <1>5 DEF BroadcastGuestEvent, queues
  <2> QED
    BY <2>1 DEF ScopeKept, ListsRedacted
<1>6. ASSUME NEW p \in Pushers, PushTargets(p) PROVE ScopeKept' /\ ListsRedacted'
  <2>1. /\ last' = last /\ events' = events
        /\ \A r \in Pushers : r # p => push'[r] = push[r]
    BY <1>6 DEF PushTargets, queues
  <2>2. push'[p] \in {Resting, [push[p] EXCEPT !.step = "list", !.left = Targets(entry)]}
    BY <1>6 DEF PushTargets
  <2>3. push'[p].step # "put"
    <3>1. Resting.step # "put"
      BY DEF Resting
    <3>2. [push[p] EXCEPT !.step = "list", !.left = Targets(entry)].step # "put"
      BY DEF Push
    <3> QED
      BY <2>2, <3>1, <3>2
  <2> QED
    BY <2>1, <2>3 DEF ScopeKept, ListsRedacted
<1>7. ASSUME NEW p \in Pushers, PushList(p) PROVE ScopeKept' /\ ListsRedacted'
  <2>1. PICK s \in push[p].left :
           push' = [push EXCEPT ![p] = [step |-> "put", left |-> push[p].left \ {s}, to |-> s,
                                        list |-> OnlineUsers(entry, page, quiet, Owner[s])]]
    BY <1>7 DEF PushList
  <2>2. push[p] \in Push /\ s \in Streams
    BY <2>1 DEF Push
  <2>3. /\ \A r \in Pushers : r # p => push'[r] = push[r]
        /\ push'[p].to = s /\ push'[p].list = OnlineUsers(entry, page, quiet, Owner[s])
    BY <2>1
  <2>4. ListsRedacted'
    <3>1. ASSUME NEW x \in push'[p].list, Owner[s] \notin Covering, x[2] = "guest"
          PROVE  x[1] = Owner[s]
      BY <2>3, <3>1, OnlineRedacted
    <3> QED
      BY <2>2, <2>3, <3>1 DEF ListsRedacted
  <2>5. last' = last /\ events' = events
    BY <1>7 DEF PushList, queues
  <2> QED
    BY <2>4, <2>5 DEF ScopeKept
<1>8. ASSUME NEW p \in Pushers, PushPut(p) PROVE ScopeKept' /\ ListsRedacted'
  <2>1. /\ events' = events /\ push[p].step = "put"
        /\ \A r \in Pushers : r # p => push'[r] = push[r]
        /\ last' = last \/ last' = [last EXCEPT ![push[p].to] = push[p].list]
    BY <1>8 DEF PushPut
  <2>2. push'[p] \in {Resting, [push[p] EXCEPT !.step = "list", !.to = None, !.list = {}]}
    BY <1>8 DEF PushPut
  <2>3. push'[p].step # "put"
    <3>1. Resting.step # "put"
      BY DEF Resting
    <3>2. [push[p] EXCEPT !.step = "list", !.to = None, !.list = {}].step # "put"
      BY DEF Push
    <3> QED
      BY <2>2, <3>1, <3>2
  <2>4. ListsRedacted'
    BY <2>1, <2>3 DEF ListsRedacted
  <2>5. ScopeKept'
    BY <2>1 DEF ScopeKept, ListsRedacted
  <2> QED
    BY <2>4, <2>5
<1>9. CASE UNCHANGED vars
  BY <1>0, <1>9 DEF vars
<1> QED
  BY <1>1, <1>2, <1>3, <1>4, <1>5, <1>6, <1>7, <1>8, <1>9 DEF Next

----------------------------------------------------------------------------
(* The truth, with greenlets. *)

\* Greenlets never leave a push in progress.
LEMMA NextRests == ASSUME PushesRest, [Next]_vars PROVE PushesRest'
<1> SUFFICES ASSUME ~Preemptive' PROVE \A p \in Pushers : push'[p] = Resting
  BY DEF PushesRest
<1>1. ~Preemptive
  BY DEF Next, vars, Preemptive
<1>2. \A p \in Pushers : push[p] = Resting /\ push[p].step = "none"
  BY <1>1 DEF PushesRest, Resting
<1>3. \A e, pg, q : PushPresence(e, pg, q) => push' = push
  BY <1>1 DEF PushPresence
<1>4. ASSUME NEW s \in Streams, Connect(s) \/ Disconnect(s) PROVE push' = push
  BY <1>3, <1>4 DEF Connect, Disconnect
<1>5. ASSUME NEW u \in Users, UpdatePresence(u) \/ GoQuiet(u) PROVE push' = push
  BY <1>3, <1>5 DEF UpdatePresence, GoQuiet
<1>6. BroadcastGuestEvent \/ UNCHANGED vars => push' = push
  BY DEF BroadcastGuestEvent, vars
<1>7. ASSUME NEW p \in Pushers, PushTargets(p) \/ PushList(p) \/ PushPut(p) PROVE FALSE
  BY <1>2, <1>7 DEF PushTargets, PushList, PushPut
<1> QED
  BY <1>2, <1>4, <1>5, <1>6, <1>7 DEF Next

\* the newest list of every stream that is registered and keeps up
ListsTrue(e, pg, q, l, f) ==
    \A s \in Targets(e) \ f : {x \in l[s] : x[1] \notin q} = OnlineUsers(e, pg, q, Owner[s])

\* After a push every list that did not meet a full queue is the truth.
LEMMA PushTrue ==
    ASSUME ~Preemptive, NEW e \in [Users -> Streams \cup {None}], NEW pg, NEW q,
           PushPresence(e, pg, q)
    PROVE  ListsTrue(e, pg, q, last', full')
<1>1. PICK ok \in SUBSET Targets(e) :
         /\ last' = [s \in Streams |-> IF s \in ok THEN OnlineUsers(e, pg, q, Owner[s])
                                       ELSE last[s]]
         /\ full' = (full \cup Targets(e)) \ ok
  BY DEF PushPresence
<1>2. ASSUME NEW s \in Targets(e) \ full'
      PROVE  {x \in last'[s] : x[1] \notin q} = OnlineUsers(e, pg, q, Owner[s])
  <2>1. s \in ok /\ s \in Streams
    BY <1>1, <1>2, TargetsType
  <2>2. last'[s] = OnlineUsers(e, pg, q, Owner[s])
    BY <1>1, <2>1
  <2>3. \A x \in OnlineUsers(e, pg, q, Owner[s]) : x[1] \notin q
    BY OnlineAwake
  <2> QED
    BY <2>2, <2>3
<1> QED
  BY <1>2 DEF ListsTrue

\* A user who goes quiet leaves every list true.
LEMMA QuietTrue ==
    ASSUME NEW e, NEW pg, NEW q, NEW l, NEW f, NEW u, ListsTrue(e, pg, q, l, f)
    PROVE  ListsTrue(e, pg, q \cup {u}, l, f)
<1>1. ASSUME NEW s \in Targets(e) \ f
      PROVE  {x \in l[s] : x[1] \notin q \cup {u}} = OnlineUsers(e, pg, q \cup {u}, Owner[s])
  <2> DEFINE O == OnlineUsers(e, pg, q, Owner[s])
             P == OnlineUsers(e, pg, q \cup {u}, Owner[s])
  <2>1. {x \in l[s] : x[1] \notin q} = O
    BY <1>1 DEF ListsTrue
  <2>2. \A x : x \in P <=> x \in O /\ x[1] # u
    BY OnlineFilter
  <2> HIDE DEF O, P
  <2>3. \A x : x \in P <=> x \in l[s] /\ x[1] \notin q \cup {u}
    BY <2>1, <2>2
  <2>4. {x \in l[s] : x[1] \notin q \cup {u}} = P
    BY <2>3
  <2> QED
    BY <2>4 DEF P
<1> QED
  BY <1>1 DEF ListsTrue

LEMMA NextConverges ==
    ASSUME TypeOK, PushesRest, ListsConverge, [Next]_vars
    PROVE  ListsConverge'
<1> DEFINE True == ListsTrue(entry, page, quiet, last, full)
<1> USE TypeParts
<1> SUFFICES ASSUME ~Preemptive' PROVE True'
  BY DEF ListsConverge, PresenceConverges, ListsTrue, OnlineUsers, Targets
<1>1. ~Preemptive
  BY DEF Next, vars, Preemptive
<1>2. True /\ \A p \in Pushers : push[p] = Resting /\ push[p].step = "none"
  BY <1>1 DEF ListsConverge, PresenceConverges, PushesRest, ListsTrue, Resting
<1>0. CASE UNCHANGED <<entry, page, quiet, last, full>>
  BY <1>0, <1>2 DEF ListsTrue, OnlineUsers, Targets
<1>3. ASSUME NEW s \in Streams, Connect(s) PROVE True'
  <2>1. entry' \in [Users -> Streams \cup {None}] /\ PushPresence(entry', page', quiet')
    BY <1>3, OwnerAssumption DEF Connect
  <2> QED
    BY <1>1, <2>1, PushTrue DEF ListsTrue, OnlineUsers, Targets
<1>4. ASSUME NEW s \in Streams, Disconnect(s) PROVE True'
  <2>1. entry' \in [Users -> Streams \cup {None}] /\ page' = page /\ quiet' = quiet
    BY <1>4, OwnerAssumption DEF Disconnect
  <2>2. CASE PushPresence(entry', page, quiet)
    BY <1>1, <2>1, <2>2, PushTrue DEF ListsTrue, OnlineUsers, Targets
  <2>3. CASE UNCHANGED <<entry, push, queues>>
    BY <1>0, <2>1, <2>3 DEF queues
  <2> QED
    BY <1>4, <2>2, <2>3 DEF Disconnect
<1>5. ASSUME NEW u \in Users, UpdatePresence(u) PROVE True'
  <2>1. entry' = entry /\ PushPresence(entry, page', quiet')
    BY <1>5 DEF UpdatePresence
  <2> QED
    BY <1>1, <2>1, PushTrue DEF ListsTrue, OnlineUsers, Targets
<1>6. ASSUME NEW u \in Users, GoQuiet(u) PROVE True'
  <2>1. quiet' = quiet \cup {u} /\ UNCHANGED <<entry, page, last, full>>
    BY <1>6 DEF GoQuiet, queues
  <2>2. ListsTrue(entry, page, quiet \cup {u}, last, full)
    BY <1>2, QuietTrue
  <2> QED
    BY <2>1, <2>2 DEF ListsTrue, OnlineUsers, Targets
<1>7. CASE BroadcastGuestEvent \/ UNCHANGED vars
  BY <1>0, <1>7 DEF BroadcastGuestEvent, vars, queues
<1>8. ASSUME NEW p \in Pushers, PushTargets(p) \/ PushList(p) \/ PushPut(p) PROVE FALSE
  BY <1>2, <1>8 DEF PushTargets, PushList, PushPut
<1> QED
  BY <1>3, <1>4, <1>5, <1>6, <1>7, <1>8 DEF Next

----------------------------------------------------------------------------
(* The theorems. *)

LEMMA InitIInv == Init => IInv
<1> SUFFICES ASSUME Init PROVE IInv
  OBVIOUS
<1>1. TypeOK
  BY RestingType DEF Init, TypeOK, Push, Pages, Presence
<1>2. NewestServed /\ EntriesOwned
  BY DEF Init, NewestServed, EntriesOwned
<1>3. ListsRedacted /\ PushesRest /\ ScopeKept
  BY DEF Init, ListsRedacted, PushesRest, ScopeKept, Resting
<1>4. Targets(entry) = {}
  BY DEF Init, Targets
<1>5. ListsConverge
  BY <1>4 DEF ListsConverge, PresenceConverges
<1> QED
  BY <1>1, <1>2, <1>3, <1>5 DEF IInv, NewestKept

LEMMA NextIInv == IInv /\ [Next]_vars => IInv'
<1> SUFFICES ASSUME IInv, [Next]_vars PROVE IInv'
  OBVIOUS
<1>1. PutsTargeted
  BY DEF IInv, ListsRedacted, PutsTargeted
<1> QED
  BY <1>1, NextType, NextNewest, NextScope, NextRests, NextConverges DEF IInv, NewestKept

\* The inductive invariant: types, entries that are their user's own, lists
\* redacted before they are put, and with greenlets no push in progress.
THEOREM IInvHolds == Spec => []IInv
  BY InitIInv, NextIInv, PTL DEF Spec

\* A late disconnect never takes a user's newer tab offline, with greenlets
\* and with threads.
THEOREM NewestKeptHolds == Spec => []NewestKept
<1>1. IInv => NewestKept
  BY DEF IInv
<1> QED
  BY <1>1, IInvHolds, PTL

\* Nobody outside the guest's tags is sent an event about it or another user's
\* page about it, however connects, moves and pushes interleave.
THEOREM ScopeKeptHolds == Spec => []ScopeKept
<1>1. IInv => ScopeKept
  BY DEF IInv
<1> QED
  BY <1>1, IInvHolds, PTL

\* With greenlets the list that a registered stream was sent last is the truth.
THEOREM ListsConvergeHolds == Spec => []ListsConverge
<1>1. IInv => ListsConverge
  BY DEF IInv
<1> QED
  BY <1>1, IInvHolds, PTL

----------------------------------------------------------------------------
(* What a browser will have seen: the queue of a terminal's subscriber.    *)

\* The order of the natural numbers is well-founded, so every set of them has a
\* least member, and one with a bound a greatest.
LEMMA LessThan ==
    \E R : IsWellFoundedOn(R, Nat) /\ \A x, y \in Nat : x < y => <<x, y>> \in R
<1> DEFINE R == OpToRel(<, Nat)
<1>1. IsWellFoundedOn(R, Nat)
  BY NatLessThanWellFounded
<1>2. \A x, y \in Nat : x < y => <<x, y>> \in R
  BY DEF OpToRel
<1> QED
  BY <1>1, <1>2, Zenon

LEMMA Least ==
    ASSUME NEW S, S \subseteq Nat, S # {}
    PROVE  \E m \in S : \A k \in S : m <= k
<1>1. PICK R : IsWellFoundedOn(R, Nat) /\ \A x, y \in Nat : x < y => <<x, y>> \in R
  BY LessThan
<1>2. \E m \in S : \A y \in S : ~(<<y, m>> \in R)
  <2>1. IsWellFoundedOn(R, Nat)
    BY <1>1
  <2> QED
    BY <2>1, WFMin
<1>3. PICK m \in S : \A y \in S : ~(<<y, m>> \in R)
  BY <1>2, Zenon
<1>4. ASSUME NEW k \in S PROVE m <= k
  <2>1. m \in Nat /\ k \in Nat
    OBVIOUS
  <2>2. ~(k < m)
    BY <1>1, <1>3, <2>1, Zenon
  <2> QED
    BY <2>1, <2>2
<1> QED
  BY <1>3, <1>4

LEMMA Greatest ==
    ASSUME NEW n \in Nat, NEW S, S \subseteq 1..n, S # {}
    PROVE  \E m \in S : \A k \in S : k <= m
<1> DEFINE D == {d \in Nat : n - d \in S}
<1>1. D \subseteq Nat
  OBVIOUS
<1>2. D # {}
  <2>1. PICK k \in S : TRUE
    OBVIOUS
  <2>2. k \in 1..n
    OBVIOUS
  <2>3. n - k \in Nat /\ n - (n - k) = k
    BY <2>2
  <2>4. n - k \in D
    BY <2>3
  <2> QED
    BY <2>4
<1>3. PICK d \in D : \A e \in D : d <= e
  <2> HIDE DEF D
  <2> QED
    BY <1>1, <1>2, Least
<1>4. ASSUME NEW k \in S PROVE k <= n - d
  <2>1. k \in 1..n
    OBVIOUS
  <2>2. n - k \in Nat /\ n - (n - k) = k
    BY <2>1
  <2>3. n - k \in D
    BY <2>2
  <2>4. d <= n - k
    BY <1>3, <2>3
  <2>5. d \in Nat
    OBVIOUS
  <2> QED
    BY <2>1, <2>4, <2>5
<1>5. n - d \in S
  OBVIOUS
<1> QED
  BY <1>4, <1>5

\* The places of the output of a queue are places of the queue; if there is
\* output at all there is a first and a last message of it.
LEMMA OutputPlaces ==
    ASSUME NEW q \in Seq(Terminal!Message)
    PROVE  /\ Terminal!Outputs(q) \subseteq 1..Len(q)
           /\ \A i : i \in Terminal!Outputs(q) <=> i \in 1..Len(q) /\ q[i].kind = "output"
  BY DEF Terminal!Outputs

LEMMA Ends ==
    ASSUME NEW q \in Seq(Terminal!Message), Terminal!Outputs(q) # {}
    PROVE  /\ \E m \in Terminal!Outputs(q) : \A k \in Terminal!Outputs(q) : k <= m
           /\ \E m \in Terminal!Outputs(q) : \A k \in Terminal!Outputs(q) : m <= k
<1>1. Len(q) \in Nat
  OBVIOUS
<1>2. Terminal!Outputs(q) \subseteq 1..Len(q)
  BY OutputPlaces
<1>3. Terminal!Outputs(q) \subseteq Nat
  BY <1>1, <1>2
<1>4. \E m \in Terminal!Outputs(q) : \A k \in Terminal!Outputs(q) : k <= m
  BY <1>1, <1>2, Greatest
<1>5. \E m \in Terminal!Outputs(q) : \A k \in Terminal!Outputs(q) : m <= k
  BY <1>3, Least
<1> QED
  BY <1>4, <1>5

\* Whichever message is the last, or the first, of the output says what the
\* browser sees last, or first.
LEMMA LastAt ==
    ASSUME NEW s, NEW q \in Seq(Terminal!Message),
           NEW i \in Terminal!Outputs(q), \A j \in Terminal!Outputs(q) : j <= i
    PROVE  Terminal!LastSeen(s, q) = q[i].to
<1> DEFINE O == Terminal!Outputs(q)
<1>1. O \subseteq Int
  BY OutputPlaces
<1>2. \E m \in O : \A k \in O : m >= k
  BY <1>1
<1>3. Terminal!Max(O) \in O /\ \A k \in O : Terminal!Max(O) >= k
  <2> HIDE DEF O
  <2> QED
    BY <1>2 DEF Terminal!Max
<1>4. Terminal!Max(O) = i
  BY <1>1, <1>3
<1> QED
  BY <1>4 DEF Terminal!LastSeen

LEMMA FirstAt ==
    ASSUME NEW s, s.first = 0, NEW q \in Seq(Terminal!Message),
           NEW i \in Terminal!Outputs(q), \A j \in Terminal!Outputs(q) : i <= j
    PROVE  Terminal!FirstSeen(s, q) = q[i].from
<1> DEFINE O == Terminal!Outputs(q)
<1>1. O \subseteq Int
  BY OutputPlaces
<1>2. \E m \in O : \A k \in O : m =< k
  BY <1>1
<1>3. Terminal!Min(O) \in O /\ \A k \in O : Terminal!Min(O) =< k
  <2> HIDE DEF O
  <2> QED
    BY <1>2 DEF Terminal!Min
<1>4. Terminal!Min(O) = i
  BY <1>1, <1>3
<1> QED
  BY <1>4 DEF Terminal!FirstSeen

LEMMA NoOutput ==
    ASSUME NEW s, NEW q, Terminal!Outputs(q) = {}
    PROVE  Terminal!LastSeen(s, q) = s.last /\ Terminal!FirstSeen(s, q) = s.first
  BY DEF Terminal!LastSeen, Terminal!FirstSeen

\* What a message put on the queue changes.
LEMMA AppendedPlaces ==
    ASSUME NEW q \in Seq(Terminal!Message), NEW m \in Terminal!Message
    PROVE  /\ Append(q, m) \in Seq(Terminal!Message) /\ Len(Append(q, m)) = Len(q) + 1
           /\ Append(q, m)[Len(q) + 1] = m
           /\ \A i \in 1..Len(q) : Append(q, m)[i] = q[i]
           /\ m.kind # "output" => Terminal!Outputs(Append(q, m)) = Terminal!Outputs(q)
           /\ m.kind = "output" =>
                 Terminal!Outputs(Append(q, m)) = Terminal!Outputs(q) \cup {Len(q) + 1}
<1> DEFINE a == Append(q, m)
<1>1. a \in Seq(Terminal!Message) /\ Len(a) = Len(q) + 1 /\ a[Len(q) + 1] = m
  OBVIOUS
<1>2. \A i \in 1..Len(q) : a[i] = q[i]
  OBVIOUS
<1>3. 1..Len(a) = 1..Len(q) \cup {Len(q) + 1}
  BY <1>1
<1>4. \A i : i \in Terminal!Outputs(a) <=> i \in 1..Len(a) /\ a[i].kind = "output"
  BY <1>1, OutputPlaces
<1>5. \A i : i \in Terminal!Outputs(q) <=> i \in 1..Len(q) /\ q[i].kind = "output"
  BY OutputPlaces
<1> HIDE DEF a
<1>6. \A i : i \in Terminal!Outputs(a) <=>
        i \in Terminal!Outputs(q) \/ (i = Len(q) + 1 /\ m.kind = "output")
  BY <1>1, <1>2, <1>3, <1>4, <1>5
<1>7. /\ m.kind # "output" => Terminal!Outputs(a) = Terminal!Outputs(q)
      /\ m.kind = "output" => Terminal!Outputs(a) = Terminal!Outputs(q) \cup {Len(q) + 1}
  BY <1>6
<1> QED
  BY <1>1, <1>2, <1>7 DEF a

LEMMA AppendedLast ==
    ASSUME NEW s, NEW q \in Seq(Terminal!Message), NEW m \in Terminal!Message
    PROVE  Terminal!LastSeen(s, Append(q, m))
             = IF m.kind = "output" THEN m.to ELSE Terminal!LastSeen(s, q)
<1> DEFINE a == Append(q, m)
<1>1. /\ a \in Seq(Terminal!Message) /\ a[Len(q) + 1] = m
      /\ \A i \in 1..Len(q) : a[i] = q[i]
      /\ m.kind # "output" => Terminal!Outputs(a) = Terminal!Outputs(q)
      /\ m.kind = "output" => Terminal!Outputs(a) = Terminal!Outputs(q) \cup {Len(q) + 1}
  BY AppendedPlaces
<1>2. Terminal!Outputs(q) \subseteq 1..Len(q) /\ Len(q) \in Nat
  BY OutputPlaces
<1> HIDE DEF a
<1>3. CASE m.kind = "output"
  <2>1. Len(q) + 1 \in Terminal!Outputs(a)
    BY <1>1, <1>3
  <2>2. \A j \in Terminal!Outputs(a) : j <= Len(q) + 1
    BY <1>1, <1>2, <1>3
  <2>3. Terminal!LastSeen(s, a) = a[Len(q) + 1].to
    BY <2>1, <2>2, <1>1, LastAt
  <2> QED
    BY <2>3, <1>1, <1>3 DEF a
<1>4. CASE m.kind # "output" /\ Terminal!Outputs(q) = {}
  BY <1>1, <1>4, NoOutput DEF a
<1>5. CASE m.kind # "output" /\ Terminal!Outputs(q) # {}
  <2>1. PICK i \in Terminal!Outputs(q) : \A k \in Terminal!Outputs(q) : k <= i
    BY <1>5, Ends
  <2>2. Terminal!LastSeen(s, q) = q[i].to
    BY <2>1, LastAt
  <2>3. i \in Terminal!Outputs(a) /\ \A k \in Terminal!Outputs(a) : k <= i
    BY <1>1, <1>5, <2>1
  <2>4. Terminal!LastSeen(s, a) = a[i].to
    BY <1>1, <2>3, LastAt
  <2>5. a[i] = q[i]
    BY <1>1, <1>2
  <2> QED
    BY <1>5, <2>2, <2>4, <2>5 DEF a
<1> QED
  BY <1>3, <1>4, <1>5

LEMMA AppendedFirst ==
    ASSUME NEW s, NEW q \in Seq(Terminal!Message), NEW m \in Terminal!Message
    PROVE  Terminal!FirstSeen(s, Append(q, m))
             = IF m.kind = "output" /\ s.first = 0 /\ Terminal!Outputs(q) = {} THEN m.from
               ELSE Terminal!FirstSeen(s, q)
<1> DEFINE a == Append(q, m)
<1>1. /\ a \in Seq(Terminal!Message) /\ a[Len(q) + 1] = m
      /\ \A i \in 1..Len(q) : a[i] = q[i]
      /\ m.kind # "output" => Terminal!Outputs(a) = Terminal!Outputs(q)
      /\ m.kind = "output" => Terminal!Outputs(a) = Terminal!Outputs(q) \cup {Len(q) + 1}
  BY AppendedPlaces
<1>2. Terminal!Outputs(q) \subseteq 1..Len(q) /\ Len(q) \in Nat
  BY OutputPlaces
<1> HIDE DEF a
<1>3. CASE s.first # 0
  <2>1. Terminal!FirstSeen(s, a) = s.first /\ Terminal!FirstSeen(s, q) = s.first
    BY <1>3 DEF Terminal!FirstSeen
  <2> QED
    BY <1>3, <2>1 DEF a
<1>4. CASE s.first = 0 /\ Terminal!Outputs(q) = {} /\ m.kind = "output"
  <2>1. Len(q) + 1 \in Terminal!Outputs(a) /\ \A j \in Terminal!Outputs(a) : Len(q) + 1 <= j
    BY <1>1, <1>2, <1>4
  <2>2. Terminal!FirstSeen(s, a) = a[Len(q) + 1].from
    BY <2>1, <1>1, <1>4, FirstAt
  <2> QED
    BY <2>2, <1>1, <1>4 DEF a
<1>5. CASE s.first = 0 /\ Terminal!Outputs(q) = {} /\ m.kind # "output"
  BY <1>1, <1>5, NoOutput DEF a
<1>6. CASE s.first = 0 /\ Terminal!Outputs(q) # {}
  <2>1. PICK i \in Terminal!Outputs(q) : \A k \in Terminal!Outputs(q) : i <= k
    BY <1>6, Ends
  <2>2. Terminal!FirstSeen(s, q) = q[i].from
    BY <2>1, <1>6, FirstAt
  <2>3. i \in Terminal!Outputs(a) /\ \A k \in Terminal!Outputs(a) : i <= k
    BY <1>1, <1>2, <2>1
  <2>4. Terminal!FirstSeen(s, a) = a[i].from
    BY <1>1, <1>6, <2>3, FirstAt
  <2>5. a[i] = q[i]
    BY <1>1, <1>2
  <2> QED
    BY <1>6, <2>2, <2>4, <2>5 DEF a
<1> QED
  BY <1>3, <1>4, <1>5, <1>6

LEMMA AppendedWhole ==
    ASSUME NEW s, NEW q \in Seq(Terminal!Message), NEW m \in Terminal!Message,
           Terminal!Whole(s, q),
           m.kind = "output" =>
              Terminal!LastSeen(s, q) = 0 \/ m.from = Terminal!LastSeen(s, q) + 1
    PROVE  Terminal!Whole(s, Append(q, m))
<1> DEFINE a == Append(q, m)
<1>1. /\ a \in Seq(Terminal!Message) /\ a[Len(q) + 1] = m
      /\ \A i \in 1..Len(q) : a[i] = q[i]
      /\ m.kind # "output" => Terminal!Outputs(a) = Terminal!Outputs(q)
      /\ m.kind = "output" => Terminal!Outputs(a) = Terminal!Outputs(q) \cup {Len(q) + 1}
  BY AppendedPlaces
<1>2. Terminal!Outputs(q) \subseteq 1..Len(q) /\ Len(q) \in Nat
  BY OutputPlaces
<1>3. \A i \in 1..Len(q) + 1 : SubSeq(a, 1, i - 1) = SubSeq(q, 1, i - 1)
  OBVIOUS
<1>4. SubSeq(q, 1, Len(q) + 1 - 1) = q
  OBVIOUS
<1> HIDE DEF a
<1>5. ASSUME NEW i \in Terminal!Outputs(a)
      PROVE  \/ Terminal!LastSeen(s, SubSeq(a, 1, i - 1)) = 0
             \/ a[i].from = Terminal!LastSeen(s, SubSeq(a, 1, i - 1)) + 1
  <2>1. CASE i \in Terminal!Outputs(q)
    <3>1. SubSeq(a, 1, i - 1) = SubSeq(q, 1, i - 1) /\ a[i] = q[i]
      BY <1>1, <1>2, <1>3, <2>1
    <3>2. \/ Terminal!LastSeen(s, SubSeq(q, 1, i - 1)) = 0
          \/ q[i].from = Terminal!LastSeen(s, SubSeq(q, 1, i - 1)) + 1
      BY <2>1 DEF Terminal!Whole
    <3> QED
      BY <3>1, <3>2
  <2>2. CASE i \notin Terminal!Outputs(q)
    <3>1. m.kind = "output" /\ i = Len(q) + 1
      BY <1>1, <2>2
    <3>2. SubSeq(a, 1, i - 1) = SubSeq(q, 1, i - 1)
      BY <1>2, <1>3, <3>1
    <3>3. SubSeq(q, 1, i - 1) = q
      BY <1>4, <3>1
    <3>4. a[i] = m
      BY <1>1, <3>1
    <3> QED
      BY <3>1, <3>2, <3>3, <3>4
  <2> QED
    BY <2>1, <2>2
<1> QED
  BY <1>5 DEF Terminal!Whole, a

\* What the sender taking a message off the queue changes: nothing, for what it
\* takes the browser has seen.
LEMMA TakenPlaces ==
    ASSUME NEW q \in Seq(Terminal!Message), q # <<>>
    PROVE  /\ Tail(q) \in Seq(Terminal!Message) /\ Len(q) \in Nat \ {0}
           /\ Len(Tail(q)) = Len(q) - 1
           /\ Head(q) = q[1] /\ Head(q) \in Terminal!Message
           /\ \A i \in 1..Len(q) - 1 : Tail(q)[i] = q[i + 1]
           /\ Head(q).kind = "output" <=> 1 \in Terminal!Outputs(q)
           /\ \A i : i \in Terminal!Outputs(Tail(q)) <=>
                        i \in 1..Len(q) - 1 /\ i + 1 \in Terminal!Outputs(q)
<1> DEFINE t == Tail(q)
<1>1. t \in Seq(Terminal!Message) /\ Len(q) \in Nat \ {0} /\ Len(t) = Len(q) - 1
  OBVIOUS
<1>2. Head(q) = q[1] /\ Head(q) \in Terminal!Message
  OBVIOUS
<1>3. \A i \in 1..Len(q) - 1 : t[i] = q[i + 1]
  OBVIOUS
<1>4. \A i : i \in Terminal!Outputs(t) <=> i \in 1..Len(t) /\ t[i].kind = "output"
  BY <1>1, OutputPlaces
<1>5. \A i : i \in Terminal!Outputs(q) <=> i \in 1..Len(q) /\ q[i].kind = "output"
  BY OutputPlaces
<1> HIDE DEF t
<1>6. Head(q).kind = "output" <=> 1 \in Terminal!Outputs(q)
  BY <1>1, <1>2, <1>5
<1>7. ASSUME NEW i
      PROVE  i \in Terminal!Outputs(t) <=> i \in 1..Len(q) - 1 /\ i + 1 \in Terminal!Outputs(q)
  <2>1. CASE i \in 1..Len(q) - 1
    <3>1. t[i] = q[i + 1] /\ i + 1 \in 1..Len(q)
      BY <1>1, <1>3, <2>1
    <3> QED
      BY <1>1, <1>4, <1>5, <2>1, <3>1
  <2>2. CASE i \notin 1..Len(q) - 1
    BY <1>1, <1>4, <2>2
  <2> QED
    BY <2>1, <2>2
<1> QED
  BY <1>1, <1>2, <1>3, <1>6, <1>7 DEF t

\* What receiving a message makes of what was seen.
LEMMA ReceivedParts ==
    ASSUME NEW s \in Terminal!View, NEW m \in Terminal!Message
    PROVE  /\ m.kind = "output" =>
                /\ Terminal!Received(s, m).last = m.to
                /\ Terminal!Received(s, m).first = IF s.first = 0 THEN m.from ELSE s.first
                /\ Terminal!Received(s, m).whole =
                      (s.whole /\ (s.last = 0 \/ m.from = s.last + 1))
           /\ m.kind # "output" =>
                /\ Terminal!Received(s, m).last = s.last
                /\ Terminal!Received(s, m).first = s.first
                /\ Terminal!Received(s, m).whole = s.whole
           /\ s.told \/ m.kind = "disconnected" <=> Terminal!Received(s, m).told
<1>1. CASE m.kind = "output"
  BY <1>1 DEF Terminal!Received, Terminal!View, Terminal!Message
<1>2. CASE m.kind = "disconnected"
  BY <1>2 DEF Terminal!Received, Terminal!View, Terminal!Message
<1>3. CASE m.kind # "output" /\ m.kind # "disconnected"
  BY <1>3 DEF Terminal!Received, Terminal!View, Terminal!Message
<1> QED
  BY <1>1, <1>2, <1>3

LEMMA TakenLast ==
    ASSUME NEW s \in Terminal!View, NEW q \in Seq(Terminal!Message), q # <<>>
    PROVE  Terminal!LastSeen(Terminal!Received(s, Head(q)), Tail(q)) = Terminal!LastSeen(s, q)
<1> DEFINE t == Tail(q)  r == Terminal!Received(s, Head(q))
<1>1. /\ t \in Seq(Terminal!Message) /\ Len(q) \in Nat \ {0}
      /\ Head(q) = q[1] /\ Head(q) \in Terminal!Message
      /\ \A i \in 1..Len(q) - 1 : t[i] = q[i + 1]
      /\ Head(q).kind = "output" <=> 1 \in Terminal!Outputs(q)
      /\ \A i : i \in Terminal!Outputs(t) <=> i \in 1..Len(q) - 1 /\ i + 1 \in Terminal!Outputs(q)
  BY TakenPlaces
<1>2. Terminal!Outputs(q) \subseteq 1..Len(q)
  BY OutputPlaces
<1>3. r.last = IF Head(q).kind = "output" THEN Head(q).to ELSE s.last
  BY <1>1, ReceivedParts
<1> HIDE DEF t, r
<1>4. CASE Terminal!Outputs(t) # {}
  <2>1. PICK i \in Terminal!Outputs(t) : \A k \in Terminal!Outputs(t) : k <= i
    BY <1>1, <1>4, Ends
  <2>2. Terminal!LastSeen(r, t) = t[i].to
    BY <1>1, <2>1, LastAt
  <2>3. i \in 1..Len(q) - 1 /\ i + 1 \in Terminal!Outputs(q)
    BY <1>1
  <2>4. ASSUME NEW k \in Terminal!Outputs(q) PROVE k <= i + 1
    <3>1. k \in 1..Len(q)
      BY <1>2
    <3>2. CASE k = 1
      BY <2>3, <3>2
    <3>3. CASE k # 1
      <4>1. k - 1 \in 1..Len(q) - 1 /\ k - 1 + 1 = k
        BY <1>1, <3>1, <3>3
      <4>2. k - 1 \in Terminal!Outputs(t)
        BY <1>1, <4>1
      <4>3. k - 1 <= i
        BY <2>1, <4>2
      <4> QED
        BY <2>3, <3>1, <4>3
    <3> QED
      BY <3>2, <3>3
  <2>5. Terminal!LastSeen(s, q) = q[i + 1].to
    BY <2>3, <2>4, LastAt
  <2> QED
    BY <1>1, <2>2, <2>3, <2>5 DEF r, t
<1>5. CASE Terminal!Outputs(t) = {}
  <2>1. \A k \in Terminal!Outputs(q) : k = 1
    <3> SUFFICES ASSUME NEW k \in Terminal!Outputs(q), k # 1 PROVE FALSE
      OBVIOUS
    <3>1. k - 1 \in 1..Len(q) - 1 /\ k - 1 + 1 = k
      BY <1>1, <1>2
    <3>2. k - 1 \in Terminal!Outputs(t)
      BY <1>1, <3>1
    <3> QED
      BY <3>2, <1>5
  <2>2. Terminal!LastSeen(r, t) = r.last
    BY <1>5, NoOutput
  <2>3. CASE Head(q).kind = "output"
    <3>1. 1 \in Terminal!Outputs(q) /\ \A k \in Terminal!Outputs(q) : k <= 1
      BY <1>1, <2>1, <2>3
    <3>2. Terminal!LastSeen(s, q) = q[1].to
      BY <3>1, LastAt
    <3> QED
      BY <1>1, <1>3, <2>2, <2>3, <3>2 DEF r, t
  <2>4. CASE Head(q).kind # "output"
    <3>1. Terminal!Outputs(q) = {}
      BY <1>1, <2>1, <2>4
    <3> QED
      BY <1>3, <2>2, <2>4, <3>1, NoOutput DEF r, t
  <2> QED
    BY <2>3, <2>4
<1> QED
  BY <1>4, <1>5

LEMMA TakenFirst ==
    ASSUME NEW s \in Terminal!View, NEW q \in Seq(Terminal!Message), q # <<>>,
           \A i \in Terminal!Outputs(q) : q[i].from # 0
    PROVE  Terminal!FirstSeen(Terminal!Received(s, Head(q)), Tail(q)) = Terminal!FirstSeen(s, q)
<1> DEFINE t == Tail(q)  r == Terminal!Received(s, Head(q))
<1>1. /\ t \in Seq(Terminal!Message) /\ Len(q) \in Nat \ {0}
      /\ Head(q) = q[1] /\ Head(q) \in Terminal!Message
      /\ \A i \in 1..Len(q) - 1 : t[i] = q[i + 1]
      /\ Head(q).kind = "output" <=> 1 \in Terminal!Outputs(q)
      /\ \A i : i \in Terminal!Outputs(t) <=> i \in 1..Len(q) - 1 /\ i + 1 \in Terminal!Outputs(q)
  BY TakenPlaces
<1>2. Terminal!Outputs(q) \subseteq 1..Len(q)
  BY OutputPlaces
<1>3. r.first = IF Head(q).kind = "output" /\ s.first = 0 THEN Head(q).from ELSE s.first
  BY <1>1, ReceivedParts
<1> HIDE DEF t, r
<1>4. CASE s.first # 0
  <2>1. r.first = s.first
    BY <1>3, <1>4
  <2> QED
    BY <1>4, <2>1 DEF Terminal!FirstSeen, r, t
<1>5. CASE s.first = 0 /\ Head(q).kind = "output"
  <2>1. r.first = q[1].from /\ q[1].from # 0
    BY <1>1, <1>3, <1>5
  <2>2. Terminal!FirstSeen(r, t) = q[1].from
    BY <2>1 DEF Terminal!FirstSeen
  <2>3. 1 \in Terminal!Outputs(q) /\ \A k \in Terminal!Outputs(q) : 1 <= k
    BY <1>1, <1>2, <1>5
  <2>4. Terminal!FirstSeen(s, q) = q[1].from
    BY <1>5, <2>3, FirstAt
  <2> QED
    BY <2>2, <2>4 DEF r, t
<1>6. CASE s.first = 0 /\ Head(q).kind # "output"
  <2>1. r.first = 0
    BY <1>3, <1>6
  <2>2. CASE Terminal!Outputs(q) = {}
    <3>1. Terminal!Outputs(t) = {}
      BY <1>1, <2>2
    <3> QED
      BY <1>6, <2>1, <2>2, <3>1, NoOutput DEF r, t
  <2>3. CASE Terminal!Outputs(q) # {}
    <3>1. PICK i \in Terminal!Outputs(q) : \A k \in Terminal!Outputs(q) : i <= k
      BY <2>3, Ends
    <3>2. i \in 1..Len(q) /\ i # 1
      BY <1>1, <1>2, <1>6
    <3>3. i - 1 \in 1..Len(q) - 1 /\ i - 1 + 1 = i
      BY <1>1, <3>2
    <3>4. i - 1 \in Terminal!Outputs(t) /\ t[i - 1] = q[i]
      BY <1>1, <3>3
    <3>5. \A k \in Terminal!Outputs(t) : i - 1 <= k
      <4> TAKE k \in Terminal!Outputs(t)
      <4>1. k \in 1..Len(q) - 1 /\ k + 1 \in Terminal!Outputs(q)
        BY <1>1
      <4>2. i <= k + 1
        BY <3>1, <4>1
      <4> QED
        BY <3>2, <4>1, <4>2
    <3>6. Terminal!FirstSeen(r, t) = t[i - 1].from
      BY <1>1, <2>1, <3>4, <3>5, FirstAt
    <3>7. Terminal!FirstSeen(s, q) = q[i].from
      BY <1>6, <3>1, FirstAt
    <3> QED
      BY <3>4, <3>6, <3>7 DEF r, t
  <2> QED
    BY <2>2, <2>3
<1> QED
  BY <1>4, <1>5, <1>6

LEMMA TakenWhole ==
    ASSUME NEW s \in Terminal!View, NEW q \in Seq(Terminal!Message), q # <<>>,
           Terminal!Whole(s, q)
    PROVE  Terminal!Whole(Terminal!Received(s, Head(q)), Tail(q))
<1> DEFINE t == Tail(q)  r == Terminal!Received(s, Head(q))
<1>1. /\ t \in Seq(Terminal!Message) /\ Len(q) \in Nat \ {0}
      /\ Head(q) = q[1] /\ Head(q) \in Terminal!Message
      /\ \A i \in 1..Len(q) - 1 : t[i] = q[i + 1]
      /\ Head(q).kind = "output" <=> 1 \in Terminal!Outputs(q)
      /\ \A i : i \in Terminal!Outputs(t) <=> i \in 1..Len(q) - 1 /\ i + 1 \in Terminal!Outputs(q)
  BY TakenPlaces
<1>2. r.whole = IF Head(q).kind = "output" THEN s.whole /\ (s.last = 0 \/ Head(q).from = s.last + 1)
                ELSE s.whole
  BY <1>1, ReceivedParts
<1>3. s.whole
  BY DEF Terminal!Whole
<1>4. \A i \in Terminal!Outputs(q) :
         \/ Terminal!LastSeen(s, SubSeq(q, 1, i - 1)) = 0
         \/ q[i].from = Terminal!LastSeen(s, SubSeq(q, 1, i - 1)) + 1
  BY DEF Terminal!Whole
<1>5. r.whole
  <2>1. CASE Head(q).kind = "output"
    <3>1. SubSeq(q, 1, 1 - 1) = <<>>
      OBVIOUS
    <3>2. Terminal!Outputs(<<>>) = {}
      BY DEF Terminal!Outputs
    <3>3. Terminal!LastSeen(s, SubSeq(q, 1, 1 - 1)) = s.last
      BY <3>1, <3>2, NoOutput
    <3>4. s.last = 0 \/ q[1].from = s.last + 1
      BY <1>1, <1>4, <2>1, <3>3
    <3> QED
      BY <1>1, <1>2, <1>3, <2>1, <3>4
  <2>2. CASE Head(q).kind # "output"
    BY <1>2, <1>3, <2>2
  <2> QED
    BY <2>1, <2>2
<1>6. ASSUME NEW i \in Terminal!Outputs(t)
      PROVE  \/ Terminal!LastSeen(r, SubSeq(t, 1, i - 1)) = 0
             \/ t[i].from = Terminal!LastSeen(r, SubSeq(t, 1, i - 1)) + 1
  <2> DEFINE p == SubSeq(q, 1, i)
  <2>1. i \in 1..Len(q) - 1 /\ i + 1 \in Terminal!Outputs(q) /\ t[i] = q[i + 1]
    BY <1>1
  <2>2. i \in 1..Len(q)
    BY <1>1, <2>1
  <2>3. p \in Seq(Terminal!Message) /\ p # <<>> /\ Head(p) = Head(q)
    BY <2>2
  <2>4. Tail(p) = SubSeq(t, 1, i - 1)
    BY <1>1, <2>1, <2>2
  <2>5. Terminal!LastSeen(Terminal!Received(s, Head(p)), Tail(p)) = Terminal!LastSeen(s, p)
    <3> HIDE DEF p
    <3> QED
      BY <2>3, TakenLast
  <2>6. Terminal!LastSeen(r, SubSeq(t, 1, i - 1)) = Terminal!LastSeen(s, p)
    BY <2>3, <2>4, <2>5
  <2>7. i + 1 - 1 = i
    BY <2>1
  <2>8. \/ Terminal!LastSeen(s, p) = 0
        \/ q[i + 1].from = Terminal!LastSeen(s, p) + 1
    BY <1>4, <2>1, <2>7
  <2> QED
    BY <2>1, <2>6, <2>8
<1> HIDE DEF t, r
<1>7. Terminal!Whole(r, t)
  BY <1>5, <1>6 DEF Terminal!Whole
<1> QED
  BY <1>7 DEF r, t

LEMMA TakenTold ==
    ASSUME NEW s \in Terminal!View, NEW q \in Seq(Terminal!Message), q # <<>>,
           Terminal!Told(s, q)
    PROVE  Terminal!Told(Terminal!Received(s, Head(q)), Tail(q))
<1> DEFINE t == Tail(q)  r == Terminal!Received(s, Head(q))
<1>1. /\ t \in Seq(Terminal!Message) /\ Len(q) \in Nat \ {0} /\ Len(t) = Len(q) - 1
      /\ Head(q) = q[1] /\ Head(q) \in Terminal!Message
      /\ \A i \in 1..Len(q) - 1 : t[i] = q[i + 1]
  BY TakenPlaces
<1>2. s.told \/ Head(q).kind = "disconnected" <=> r.told
  BY <1>1, ReceivedParts
<1> HIDE DEF t, r
<1>3. CASE s.told
  BY <1>2, <1>3 DEF Terminal!Told, r, t
<1>4. CASE \E i \in DOMAIN q : q[i].kind = "disconnected"
  <2>1. PICK i \in 1..Len(q) : q[i].kind = "disconnected"
    BY <1>4
  <2>2. CASE i = 1
    BY <1>1, <1>2, <2>1, <2>2 DEF Terminal!Told, r, t
  <2>3. CASE i # 1
    <3>1. i - 1 \in 1..Len(q) - 1 /\ i - 1 + 1 = i
      BY <1>1, <2>3
    <3>2. t[i - 1] = q[i] /\ i - 1 \in DOMAIN t
      BY <1>1, <3>1
    <3>3. Terminal!Told(r, t)
      BY <2>1, <3>2 DEF Terminal!Told
    <3> QED
      BY <3>3 DEF r, t
  <2> QED
    BY <2>2, <2>3
<1> QED
  BY <1>3, <1>4 DEF Terminal!Told

LEMMA AppendedTold ==
    ASSUME NEW s, NEW q \in Seq(Terminal!Message), NEW m \in Terminal!Message,
           Terminal!Told(s, q) \/ m.kind = "disconnected"
    PROVE  Terminal!Told(s, Append(q, m))
<1> DEFINE a == Append(q, m)
<1>1. /\ a \in Seq(Terminal!Message) /\ Len(a) = Len(q) + 1 /\ a[Len(q) + 1] = m
      /\ \A i \in 1..Len(q) : a[i] = q[i]
  BY AppendedPlaces
<1>2. DOMAIN a = 1..Len(q) + 1 /\ DOMAIN q = 1..Len(q) /\ Len(q) \in Nat
  BY <1>1
<1> HIDE DEF a
<1>3. CASE s.told
  BY <1>3 DEF Terminal!Told, a
<1>4. CASE m.kind = "disconnected"
  <2>1. Len(q) + 1 \in DOMAIN a /\ a[Len(q) + 1].kind = "disconnected"
    BY <1>1, <1>2, <1>4
  <2> QED
    BY <2>1 DEF Terminal!Told, a
<1>5. CASE \E i \in DOMAIN q : q[i].kind = "disconnected"
  <2>1. PICK i \in 1..Len(q) : q[i].kind = "disconnected"
    BY <1>2, <1>5
  <2>2. i \in DOMAIN a /\ a[i] = q[i]
    BY <1>1, <1>2
  <2> QED
    BY <2>1, <2>2 DEF Terminal!Told, a
<1> QED
  BY <1>3, <1>4, <1>5 DEF Terminal!Told

----------------------------------------------------------------------------
(* A queue that fits: what the browser saw and what the queue holds add up *)
(* to consecutive chunks up to the n-th.                                   *)

Numbered(q) == \A i \in Terminal!Outputs(q) : q[i].from > 0 /\ q[i].to > 0

Fits(s, q, n) ==
    /\ Terminal!Whole(s, q)
    /\ Terminal!LastSeen(s, q) = n
    /\ n \in 1..BufferChunks => Terminal!FirstSeen(s, q) = 1
    /\ Numbered(q)
    /\ s.last = 0 => s.first = 0

\* A control message changes nothing of that.
LEMMA FitsControl ==
    ASSUME NEW s, NEW q \in Seq(Terminal!Message), NEW m \in Terminal!Message, NEW n,
           m.kind # "output", Fits(s, q, n)
    PROVE  Fits(s, Append(q, m), n)
<1>1. Terminal!Whole(s, Append(q, m))
  BY AppendedWhole DEF Fits
<1>2. /\ Terminal!LastSeen(s, Append(q, m)) = Terminal!LastSeen(s, q)
      /\ Terminal!FirstSeen(s, Append(q, m)) = Terminal!FirstSeen(s, q)
  BY AppendedLast, AppendedFirst
<1>3. Numbered(Append(q, m))
  <2>1. /\ Terminal!Outputs(Append(q, m)) = Terminal!Outputs(q)
        /\ \A i \in 1..Len(q) : Append(q, m)[i] = q[i]
    BY AppendedPlaces
  <2>2. Terminal!Outputs(q) \subseteq 1..Len(q)
    BY OutputPlaces
  <2>3. \A i \in Terminal!Outputs(q) : q[i].from > 0 /\ q[i].to > 0
    BY DEF Fits, Numbered
  <2> QED
    BY <2>1, <2>2, <2>3 DEF Numbered
<1> QED
  BY <1>1, <1>2, <1>3 DEF Fits

\* The next chunk goes on where the queue ends.
LEMMA FitsOutput ==
    ASSUME NEW s, NEW q \in Seq(Terminal!Message), NEW n \in Nat, NEW m \in Terminal!Message,
           m.kind = "output", m.from = n + 1, m.to = n + 1, Fits(s, q, n)
    PROVE  Fits(s, Append(q, m), n + 1)
<1>1. Terminal!Whole(s, Append(q, m))
  BY AppendedWhole DEF Fits
<1>2. Terminal!LastSeen(s, Append(q, m)) = n + 1
  BY AppendedLast
<1>3. /\ Terminal!Outputs(Append(q, m)) = Terminal!Outputs(q) \cup {Len(q) + 1}
      /\ \A i \in 1..Len(q) : Append(q, m)[i] = q[i]
      /\ Append(q, m)[Len(q) + 1] = m
  BY AppendedPlaces
<1>4. Terminal!Outputs(q) \subseteq 1..Len(q)
  BY OutputPlaces
<1>5. \A i \in Terminal!Outputs(q) : q[i].from > 0 /\ q[i].to > 0
  BY DEF Fits, Numbered
<1>6. Numbered(Append(q, m))
  BY <1>3, <1>4, <1>5 DEF Numbered
<1>7. ASSUME n + 1 \in 1..BufferChunks PROVE Terminal!FirstSeen(s, Append(q, m)) = 1
  <2>1. CASE n = 0
    <3>1. Terminal!Outputs(q) = {}
      <4> SUFFICES ASSUME Terminal!Outputs(q) # {} PROVE FALSE
        OBVIOUS
      <4>1. PICK i \in Terminal!Outputs(q) : \A k \in Terminal!Outputs(q) : k <= i
        BY Ends
      <4>2. Terminal!LastSeen(s, q) = q[i].to
        BY <4>1, LastAt
      <4>3. q[i].to = 0
        BY <2>1, <4>2 DEF Fits
      <4> QED
        BY <1>5, <4>3
    <3>2. s.last = 0
      BY <2>1, <3>1, NoOutput DEF Fits
    <3>3. s.first = 0
      BY <3>2 DEF Fits
    <3>4. Terminal!FirstSeen(s, Append(q, m)) = m.from
      BY <3>1, <3>3, AppendedFirst
    <3> QED
      BY <2>1, <3>4
  <2>2. CASE n # 0
    <3>1. n \in 1..BufferChunks
      BY <1>7, <2>2, TerminalAssumption
    <3>2. Terminal!FirstSeen(s, q) = 1
      BY <3>1 DEF Fits
    <3>3. ~(s.first = 0 /\ Terminal!Outputs(q) = {})
      <4> SUFFICES ASSUME s.first = 0, Terminal!Outputs(q) = {} PROVE FALSE
        OBVIOUS
      <4>1. Terminal!FirstSeen(s, q) = 0
        BY NoOutput
      <4> QED
        BY <3>2, <4>1
    <3> QED
      BY <3>2, <3>3, AppendedFirst
  <2> QED
    BY <2>1, <2>2
<1> QED
  BY <1>1, <1>2, <1>6, <1>7 DEF Fits

\* The sender moves a message from the queue to what was seen.
LEMMA FitsTaken ==
    ASSUME NEW s \in Terminal!View, NEW q \in Seq(Terminal!Message), NEW n, q # <<>>,
           Fits(s, q, n)
    PROVE  Fits(Terminal!Received(s, Head(q)), Tail(q), n)
<1>1. Terminal!Whole(Terminal!Received(s, Head(q)), Tail(q))
  BY TakenWhole DEF Fits
<1>2. Terminal!LastSeen(Terminal!Received(s, Head(q)), Tail(q)) = n
  BY TakenLast DEF Fits
<1>3. \A i \in Terminal!Outputs(q) : q[i].from > 0 /\ q[i].to > 0
  BY DEF Fits, Numbered
<1>4. Terminal!FirstSeen(Terminal!Received(s, Head(q)), Tail(q)) = Terminal!FirstSeen(s, q)
  <2>1. \A i \in Terminal!Outputs(q) : q[i].from # 0
    BY <1>3
  <2> QED
    BY <2>1, TakenFirst
<1>5. /\ Head(q) = q[1] /\ Head(q) \in Terminal!Message
      /\ \A i \in 1..Len(q) - 1 : Tail(q)[i] = q[i + 1]
      /\ Head(q).kind = "output" <=> 1 \in Terminal!Outputs(q)
      /\ \A i : i \in Terminal!Outputs(Tail(q)) <=>
                   i \in 1..Len(q) - 1 /\ i + 1 \in Terminal!Outputs(q)
  BY TakenPlaces
<1>6. Numbered(Tail(q))
  BY <1>3, <1>5 DEF Numbered
<1>7. Terminal!Received(s, Head(q)).last = 0 => Terminal!Received(s, Head(q)).first = 0
  <2>1. CASE Head(q).kind = "output"
    <3>1. Head(q).to > 0
      BY <1>3, <1>5, <2>1
    <3>2. Terminal!Received(s, Head(q)).last = Head(q).to
      BY <1>5, <2>1, ReceivedParts
    <3> QED
      BY <3>1, <3>2
  <2>2. CASE Head(q).kind # "output"
    <3>1. /\ Terminal!Received(s, Head(q)).last = s.last
          /\ Terminal!Received(s, Head(q)).first = s.first
      BY <1>5, <2>2, ReceivedParts
    <3> QED
      BY <3>1 DEF Fits
  <2> QED
    BY <2>1, <2>2
<1> QED
  BY <1>1, <1>2, <1>4, <1>6, <1>7 DEF Fits

\* The catch-up of a new subscriber fits.
LEMMA SnapshotType ==
    ASSUME NEW n \in 0..MaxChunks
    PROVE  /\ Terminal!Snapshot(n) \in Seq(Terminal!Message)
           /\ Len(Terminal!Snapshot(n)) <= 1
<1>1. CASE n = 0
  <2>1. Terminal!Snapshot(n) = <<>>
    BY <1>1 DEF Terminal!Snapshot
  <2> QED
    BY <2>1
<1>2. CASE n # 0
  <2> DEFINE from == IF n > BufferChunks THEN n - BufferChunks + 1 ELSE 1
             m == Terminal!Output(from, n)
  <2>1. Terminal!Snapshot(n) = <<m>>
    BY <1>2 DEF Terminal!Snapshot
  <2>2. from \in 0..MaxChunks + 1
    BY <1>2, TerminalAssumption
  <2>3. m \in Terminal!Message
    <3> HIDE DEF from
    <3> QED
      BY <2>2 DEF Terminal!Output, Terminal!Message, Terminal!Kinds
  <2> HIDE DEF m
  <2> QED
    BY <2>1, <2>3
<1> QED
  BY <1>1, <1>2

LEMMA FitsFresh ==
    ASSUME NEW n \in 0..MaxChunks
    PROVE  Fits(Terminal!Nothing, Terminal!Snapshot(n), n)
<1> DEFINE q == Terminal!Snapshot(n)  s == Terminal!Nothing
<1>1. s.first = 0 /\ s.last = 0 /\ s.whole
  BY DEF Terminal!Nothing
<1>2. q \in Seq(Terminal!Message)
  BY SnapshotType
<1>3. CASE n = 0
  <2>1. q = <<>>
    BY <1>3 DEF Terminal!Snapshot
  <2>2. Terminal!Outputs(q) = {}
    BY <2>1 DEF Terminal!Outputs
  <2> HIDE DEF q, s
  <2>3. Fits(s, q, n)
    BY <1>1, <1>3, <2>2, NoOutput DEF Fits, Numbered, Terminal!Whole
  <2> QED
    BY <2>3 DEF q, s
<1>4. CASE n # 0
  <2> DEFINE from == IF n > BufferChunks THEN n - BufferChunks + 1 ELSE 1
             m == Terminal!Output(from, n)
  <2>1. q = <<m>>
    BY <1>4 DEF Terminal!Snapshot
  <2>2. m.kind = "output" /\ m.from = from /\ m.to = n
    BY DEF Terminal!Output
  <2>3. from > 0 /\ n > 0
    BY <1>4, TerminalAssumption
  <2>4. n \in 1..BufferChunks => from = 1
    BY <2>3, TerminalAssumption
  <2> HIDE DEF from, m
  <2>5. q[1] = m /\ Len(q) = 1
    BY <2>1
  <2>6. Terminal!Outputs(q) = {1}
    BY <2>1, <2>2 DEF Terminal!Outputs
  <2>7. SubSeq(q, 1, 1 - 1) = <<>>
    BY <1>2
  <2>8. Terminal!Outputs(<<>>) = {}
    BY DEF Terminal!Outputs
  <2> HIDE DEF q, s
  <2>9. Terminal!LastSeen(s, SubSeq(q, 1, 1 - 1)) = 0
    BY <1>1, <2>7, <2>8, NoOutput
  <2>10. Terminal!LastSeen(s, q) = n
    <3>1. 1 \in Terminal!Outputs(q) /\ \A j \in Terminal!Outputs(q) : j <= 1
      BY <2>6
    <3> QED
      BY <1>2, <2>2, <2>5, <3>1, LastAt
  <2>11. Terminal!FirstSeen(s, q) = from
    <3>1. 1 \in Terminal!Outputs(q) /\ \A j \in Terminal!Outputs(q) : 1 <= j
      BY <2>6
    <3> QED
      BY <1>1, <1>2, <2>2, <2>5, <3>1, FirstAt
  <2>12. Terminal!Whole(s, q)
    BY <1>1, <2>6, <2>9 DEF Terminal!Whole
  <2>13. Numbered(q)
    BY <2>2, <2>3, <2>5, <2>6 DEF Numbered
  <2>14. Fits(s, q, n)
    BY <1>1, <2>4, <2>10, <2>11, <2>12, <2>13 DEF Fits
  <2> QED
    BY <2>14 DEF q, s
<1> QED
  BY <1>3, <1>4

----------------------------------------------------------------------------
(* The inductive invariant of a terminal. *)

\* the clients whose output the invariant follows: with threads a follower may
\* miss a chunk (add_subscriber), the operator may not
Followed == IF Preemptive THEN {"primary"} ELSE Terminal!Clients

\* the chunks that were broadcast to the end
Broadcast == IF casting = Terminal!Idle THEN buffered ELSE buffered - 1

\* Only threads are interrupted in a broadcast or between the steps of joining,
\* and a broadcast in progress has the operator among its targets.
CastingSound ==
    /\ casting.step = "none" => casting = Terminal!Idle
    /\ casting # Terminal!Idle => Preemptive /\ buffered > 0
    /\ casting.step = "put" /\ "primary" \in subs => "primary" \in casting.to
    /\ ~Preemptive => \A c \in Terminal!Clients :
          stage[c] \notin {"created", "found", "snapped", "joined"}

\* Before the operator subscribes nothing was read and nobody can subscribe twice.
BeforeStart ==
    /\ stage["primary"] \in {"away", "created"} =>
          buffered = 0 /\ casting = Terminal!Idle /\ reader = "none"
    /\ \A c \in Followed : stage[c] \in {"away", "created"} =>
          c \notin subs /\ queue[c] = <<>> /\ seen[c] = Terminal!Nothing

QueuesFit ==
    \A c \in Followed :
        c \in (subs \cap ws) \ lost => Fits(seen[c], queue[c], Broadcast)

\* With greenlets the registry forgets the session when its end is announced.
EndSound ==
    ~Preemptive =>
        /\ reader # "ending"
        /\ reader = "ended" => ~registered /\ Terminal!EndAnnounced

StreamInv == Terminal!TypeOK /\ CastingSound /\ BeforeStart /\ QueuesFit /\ EndSound

----------------------------------------------------------------------------
(* Types. *)

LEMMA ControlType ==
    ASSUME NEW k \in Terminal!Kinds
    PROVE  Terminal!Control(k) \in Terminal!Message /\ Terminal!Control(k).kind = k
  BY TerminalAssumption DEF Terminal!Control, Terminal!Message

LEMMA OutputType ==
    ASSUME NEW n \in 0..MaxChunks
    PROVE  /\ Terminal!Output(n, n) \in Terminal!Message
           /\ Terminal!Output(n, n).kind = "output"
           /\ Terminal!Output(n, n).from = n /\ Terminal!Output(n, n).to = n
  BY TerminalAssumption DEF Terminal!Output, Terminal!Message, Terminal!Kinds

LEMMA ReceivedType ==
    ASSUME NEW s \in Terminal!View, NEW m \in Terminal!Message
    PROVE  Terminal!Received(s, m) \in Terminal!View
<1>1. CASE m.kind = "output"
  BY <1>1, TerminalAssumption DEF Terminal!Received, Terminal!View, Terminal!Message
<1>2. CASE m.kind = "disconnected"
  BY <1>2 DEF Terminal!Received, Terminal!View, Terminal!Message
<1>3. CASE m.kind # "output" /\ m.kind # "disconnected"
  BY <1>3 DEF Terminal!Received, Terminal!View, Terminal!Message
<1> QED
  BY <1>1, <1>2, <1>3

LEMMA NothingType == Terminal!Nothing \in Terminal!View
  BY TerminalAssumption DEF Terminal!Nothing, Terminal!View

\* The queues, each within its bound.
Queues == {q \in [Terminal!Clients -> Seq(Terminal!Message)] :
             \A c \in Terminal!Clients : Len(q[c]) <= QueueSize}

LEMMA PutType ==
    ASSUME NEW q \in Queues, NEW to, NEW m \in Terminal!Message
    PROVE  Terminal!Put(q, to, m) \in Queues
<1>1. \A c \in Terminal!Clients : q[c] \in Seq(Terminal!Message) /\ Len(q[c]) <= QueueSize
  BY DEF Queues
<1>2. ASSUME NEW c \in Terminal!Clients
      PROVE  /\ (IF c \in to /\ Len(q[c]) < QueueSize THEN Append(q[c], m) ELSE q[c])
                   \in Seq(Terminal!Message)
             /\ Len(IF c \in to /\ Len(q[c]) < QueueSize THEN Append(q[c], m) ELSE q[c])
                   <= QueueSize
  <2>1. q[c] \in Seq(Terminal!Message) /\ Len(q[c]) <= QueueSize
    BY <1>1
  <2>2. /\ Append(q[c], m) \in Seq(Terminal!Message)
        /\ Len(Append(q[c], m)) = Len(q[c]) + 1
    BY <2>1
  <2>3. Len(q[c]) \in Nat
    BY <2>1
  <2> QED
    BY <2>1, <2>2, <2>3, TerminalAssumption
<1> QED
  BY <1>2 DEF Terminal!Put, Queues

LEMMA ReplacedQueue ==
    ASSUME NEW q \in Queues, NEW c \in Terminal!Clients, NEW x \in Seq(Terminal!Message),
           Len(x) <= QueueSize
    PROVE  [q EXCEPT ![c] = x] \in Queues
  BY DEF Queues

\* What the variables other than the queues range over.
SessionTyped ==
    /\ worker \in Workers /\ stage \in [Terminal!Clients -> Terminal!Stages]
    /\ ws \subseteq Terminal!Clients /\ subs \subseteq Terminal!Clients
    /\ sender \subseteq Terminal!Clients
    /\ registered \in BOOLEAN /\ channel \in {"none", "open", "closed"}
    /\ reader \in {"none", "reading", "ending", "ended"}
    /\ watch \in {"none", "on", "closing", "off"}
    /\ buffered \in 0..MaxChunks
    /\ casting \in [step : {"none", "append", "put"}, to : SUBSET Terminal!Clients]
    /\ lost \subseteq Terminal!Clients /\ revoked \subseteq Terminal!Clients

LEMMA SessionTypeParts ==
    Terminal!TypeOK <=>
        SessionTyped /\ queue \in Queues /\ seen \in [Terminal!Clients -> Terminal!View]
  BY DEF Terminal!TypeOK, SessionTyped, Queues

\* Every step keeps the types.
LEMMA TypedKept ==
    ASSUME SessionTyped, Terminal!Next
    PROVE  SessionTyped'
<1> USE TerminalAssumption
<1>1. CASE Terminal!PrimaryConnect
  BY <1>1 DEF SessionTyped, Terminal!PrimaryConnect, Terminal!Clients, Terminal!Stages,
     Terminal!outside, Terminal!threads, Terminal!stream
<1>2. CASE Terminal!PrimarySubscribe
  BY <1>2 DEF SessionTyped, Terminal!PrimarySubscribe, Terminal!Clients, Terminal!Stages,
     Terminal!outside, Terminal!threads, Terminal!stream
<1>3. CASE Terminal!PrimaryStart
  BY <1>3 DEF SessionTyped, Terminal!PrimaryStart, Terminal!Clients, Terminal!Stages,
     Terminal!outside, Terminal!threads, Terminal!stream
<1>4. CASE Terminal!PrimaryLoopEnds
  BY <1>4 DEF SessionTyped, Terminal!PrimaryLoopEnds, Terminal!Clients, Terminal!Stages,
     Terminal!outside, Terminal!threads, Terminal!stream
<1>5. CASE Terminal!PrimaryCleanUp
  BY <1>5 DEF SessionTyped, Terminal!PrimaryCleanUp, Terminal!Clients, Terminal!Stages,
     Terminal!outside, Terminal!threads, Terminal!stream
<1>6. CASE Terminal!PrimaryClose
  BY <1>6 DEF SessionTyped, Terminal!PrimaryClose, Terminal!Clients, Terminal!Stages,
     Terminal!outside, Terminal!threads, Terminal!stream
<1>7. CASE Terminal!ReadAppend
  BY <1>7 DEF SessionTyped, Terminal!ReadAppend, Terminal!Clients, Terminal!Stages,
     Terminal!outside, Terminal!threads, Terminal!stream, Terminal!Idle
<1>8. CASE Terminal!ReadTargets
  BY <1>8 DEF SessionTyped, Terminal!ReadTargets, Terminal!Clients, Terminal!Stages,
     Terminal!outside, Terminal!threads, Terminal!stream, Terminal!Idle
<1>9. CASE Terminal!ReadPut
  BY <1>9 DEF SessionTyped, Terminal!ReadPut, Terminal!Clients, Terminal!Stages,
     Terminal!outside, Terminal!threads, Terminal!stream, Terminal!Idle, Terminal!Dropping
<1>10. CASE Terminal!ReadOutput
  BY <1>10 DEF SessionTyped, Terminal!ReadOutput, Terminal!Clients, Terminal!Stages,
     Terminal!outside, Terminal!threads, Terminal!stream, Terminal!Dropping
<1>11. CASE Terminal!ShellExits
  BY <1>11 DEF SessionTyped, Terminal!ShellExits, Terminal!Clients, Terminal!Stages,
     Terminal!outside, Terminal!threads, Terminal!stream
<1>12. CASE Terminal!ReaderEnds
  BY <1>12 DEF SessionTyped, Terminal!ReaderEnds, Terminal!Clients, Terminal!Stages,
     Terminal!outside, Terminal!threads, Terminal!stream, Terminal!Dropping
<1>13. CASE Terminal!ReaderRemoves
  BY <1>13 DEF SessionTyped, Terminal!ReaderRemoves, Terminal!Clients, Terminal!Stages,
     Terminal!outside, Terminal!threads, Terminal!stream
<1>14. ASSUME NEW f \in Followers, Terminal!FollowerFinds(f) PROVE SessionTyped'
  BY <1>14 DEF SessionTyped, Terminal!FollowerFinds, Terminal!Clients, Terminal!Stages,
     Terminal!outside, Terminal!threads, Terminal!stream
<1>15. ASSUME NEW f \in Followers, Terminal!FollowerSnapshots(f) PROVE SessionTyped'
  BY <1>15 DEF SessionTyped, Terminal!FollowerSnapshots, Terminal!Clients, Terminal!Stages,
     Terminal!outside, Terminal!threads, Terminal!stream
<1>16. ASSUME NEW f \in Followers, Terminal!FollowerRegisters(f) PROVE SessionTyped'
  BY <1>16 DEF SessionTyped, Terminal!FollowerRegisters, Terminal!Clients, Terminal!Stages,
     Terminal!outside, Terminal!threads, Terminal!stream
<1>17. ASSUME NEW f \in Followers, Terminal!FollowerGreeted(f) PROVE SessionTyped'
  BY <1>17 DEF SessionTyped, Terminal!FollowerGreeted, Terminal!Clients, Terminal!Stages,
     Terminal!outside, Terminal!threads, Terminal!stream
<1>18. ASSUME NEW f \in Followers, Terminal!FollowerJoins(f) PROVE SessionTyped'
  BY <1>18 DEF SessionTyped, Terminal!FollowerJoins, Terminal!Clients, Terminal!Stages,
     Terminal!outside, Terminal!threads, Terminal!stream
<1>19. ASSUME NEW f \in Followers, Terminal!FollowerLoopEnds(f) PROVE SessionTyped'
  BY <1>19 DEF SessionTyped, Terminal!FollowerLoopEnds, Terminal!Clients, Terminal!Stages,
     Terminal!outside, Terminal!threads, Terminal!stream
<1>20. ASSUME NEW f \in Followers, Terminal!FollowerCleanUp(f) PROVE SessionTyped'
  BY <1>20 DEF SessionTyped, Terminal!FollowerCleanUp, Terminal!Clients, Terminal!Stages,
     Terminal!outside, Terminal!threads, Terminal!stream
<1>21. ASSUME NEW c \in Terminal!Clients, Terminal!SenderTurn(c) PROVE SessionTyped'
  BY <1>21 DEF SessionTyped, Terminal!SenderTurn, Terminal!Clients, Terminal!Stages,
     Terminal!outside, Terminal!threads, Terminal!stream
<1>22. CASE Terminal!WatchdogFires
  BY <1>22 DEF SessionTyped, Terminal!WatchdogFires, Terminal!Clients, Terminal!Stages,
     Terminal!outside, Terminal!threads, Terminal!stream, Terminal!Dropping
<1>23. CASE Terminal!WatchdogEnds
  BY <1>23 DEF SessionTyped, Terminal!WatchdogEnds, Terminal!Clients, Terminal!Stages,
     Terminal!outside, Terminal!threads, Terminal!stream
<1>24. ASSUME NEW f \in Followers, Terminal!FollowerWatchdog(f) PROVE SessionTyped'
  BY <1>24 DEF SessionTyped, Terminal!FollowerWatchdog, Terminal!Clients, Terminal!Stages,
     Terminal!outside, Terminal!threads, Terminal!stream, Terminal!Dropping
<1>25. ASSUME NEW c \in Terminal!Clients, Terminal!ClientCloses(c) PROVE SessionTyped'
  BY <1>25 DEF SessionTyped, Terminal!ClientCloses, Terminal!Clients, Terminal!Stages,
     Terminal!outside, Terminal!threads, Terminal!stream
<1>26. ASSUME NEW c \in Terminal!Clients, Terminal!Revoke(c) PROVE SessionTyped'
  BY <1>26 DEF SessionTyped, Terminal!Revoke, Terminal!Clients, Terminal!Stages,
     Terminal!outside, Terminal!threads, Terminal!stream
<1> QED
  BY <1>1, <1>2, <1>3, <1>4, <1>5, <1>6, <1>7, <1>8, <1>9, <1>10, <1>11, <1>12, <1>13,
     <1>14, <1>15, <1>16, <1>17, <1>18, <1>19, <1>20, <1>21, <1>22, <1>23, <1>24, <1>25, <1>26
     DEF Terminal!Next, Terminal!GeventNext, Terminal!ThreadNext, Terminal!Follower

\* Every step keeps the queues typed and within their bound.
LEMMA QueuesKept ==
    ASSUME SessionTyped, queue \in Queues, seen \in [Terminal!Clients -> Terminal!View],
           Terminal!Next
    PROVE  queue' \in Queues /\ seen' \in [Terminal!Clients -> Terminal!View]
<1>1. CASE Terminal!PrimaryConnect
  BY <1>1 DEF Terminal!PrimaryConnect, Terminal!outside, Terminal!threads, Terminal!stream
<1>2. CASE Terminal!PrimarySubscribe
  <2>1. queue' = [queue EXCEPT !["primary"] = Terminal!Snapshot(buffered)] /\ UNCHANGED seen
    BY <1>2 DEF Terminal!PrimarySubscribe
  <2>2. /\ Terminal!Snapshot(buffered) \in Seq(Terminal!Message)
        /\ Len(Terminal!Snapshot(buffered)) <= 1
    BY SnapshotType DEF SessionTyped
  <2>3. Len(Terminal!Snapshot(buffered)) <= QueueSize
    BY <2>2, TerminalAssumption
  <2>4. "primary" \in Terminal!Clients
    BY DEF Terminal!Clients
  <2> QED
    BY <2>1, <2>2, <2>3, <2>4, ReplacedQueue
<1>3. CASE Terminal!PrimaryStart
  BY <1>3 DEF Terminal!PrimaryStart, Terminal!outside, Terminal!threads, Terminal!stream
<1>4. CASE Terminal!PrimaryLoopEnds
  BY <1>4 DEF Terminal!PrimaryLoopEnds, Terminal!outside, Terminal!threads, Terminal!stream
<1>5. CASE Terminal!PrimaryCleanUp
  <2>1. Terminal!Control("stop") \in Terminal!Message
    BY ControlType DEF Terminal!Kinds
  <2>2. queue' = Terminal!Put(queue, {"primary"}, Terminal!Control("stop")) /\ UNCHANGED seen
    BY <1>5 DEF Terminal!PrimaryCleanUp
  <2> QED
    BY <2>1, <2>2, PutType
<1>6. CASE Terminal!PrimaryClose
  BY <1>6 DEF Terminal!PrimaryClose, Terminal!outside, Terminal!threads, Terminal!stream
<1>7. CASE Terminal!ReadAppend
  BY <1>7 DEF Terminal!ReadAppend, Terminal!outside, Terminal!threads, Terminal!stream
<1>8. CASE Terminal!ReadTargets
  BY <1>8 DEF Terminal!ReadTargets, Terminal!outside, Terminal!threads, Terminal!stream
<1>9. CASE Terminal!ReadPut
  <2>1. buffered \in 0..MaxChunks
    BY <1>9, TerminalAssumption DEF SessionTyped, Terminal!ReadPut
  <2>2. Terminal!Output(buffered, buffered) \in Terminal!Message
    BY <2>1, OutputType
  <2>3. /\ queue' = Terminal!Put(queue, casting.to, Terminal!Output(buffered, buffered))
        /\ UNCHANGED seen
    BY <1>9 DEF Terminal!ReadPut
  <2> QED
    BY <2>2, <2>3, PutType
<1>10. CASE Terminal!ReadOutput
  <2>1. buffered + 1 \in 0..MaxChunks
    BY <1>10, TerminalAssumption DEF SessionTyped, Terminal!ReadOutput
  <2>2. Terminal!Output(buffered + 1, buffered + 1) \in Terminal!Message
    BY <2>1, OutputType
  <2>3. /\ queue' = Terminal!Put(queue, subs, Terminal!Output(buffered + 1, buffered + 1))
        /\ UNCHANGED seen
    BY <1>10 DEF Terminal!ReadOutput
  <2> QED
    BY <2>2, <2>3, PutType
<1>11. CASE Terminal!ShellExits
  BY <1>11 DEF Terminal!ShellExits, Terminal!outside, Terminal!threads, Terminal!stream
<1>12. CASE Terminal!ReaderEnds
  <2>1. Terminal!Control("disconnected") \in Terminal!Message
    BY ControlType DEF Terminal!Kinds
  <2>2. queue' = Terminal!Put(queue, subs, Terminal!Control("disconnected")) /\ UNCHANGED seen
    BY <1>12 DEF Terminal!ReaderEnds
  <2> QED
    BY <2>1, <2>2, PutType
<1>13. CASE Terminal!ReaderRemoves
  BY <1>13 DEF Terminal!ReaderRemoves, Terminal!outside, Terminal!threads, Terminal!stream
<1>14. ASSUME NEW f \in Followers, Terminal!FollowerFinds(f)
      PROVE queue' \in Queues /\ seen' \in [Terminal!Clients -> Terminal!View]
  BY <1>14 DEF Terminal!FollowerFinds, Terminal!outside, Terminal!threads, Terminal!stream
<1>15. ASSUME NEW f \in Followers, Terminal!FollowerSnapshots(f)
      PROVE queue' \in Queues /\ seen' \in [Terminal!Clients -> Terminal!View]
  <2>1. queue' = [queue EXCEPT ![f] = Terminal!Snapshot(buffered)] /\ UNCHANGED seen
    BY <1>15 DEF Terminal!FollowerSnapshots
  <2>2. /\ Terminal!Snapshot(buffered) \in Seq(Terminal!Message)
        /\ Len(Terminal!Snapshot(buffered)) <= 1
    BY SnapshotType DEF SessionTyped
  <2>3. Len(Terminal!Snapshot(buffered)) <= QueueSize
    BY <2>2, TerminalAssumption
  <2>4. f \in Terminal!Clients
    BY DEF Terminal!Clients
  <2> QED
    BY <2>1, <2>2, <2>3, <2>4, ReplacedQueue
<1>16. ASSUME NEW f \in Followers, Terminal!FollowerRegisters(f)
      PROVE queue' \in Queues /\ seen' \in [Terminal!Clients -> Terminal!View]
  BY <1>16 DEF Terminal!FollowerRegisters, Terminal!outside, Terminal!threads, Terminal!stream
<1>17. ASSUME NEW f \in Followers, Terminal!FollowerGreeted(f)
      PROVE queue' \in Queues /\ seen' \in [Terminal!Clients -> Terminal!View]
  <2>1. Terminal!Control("connected") \in Terminal!Message
    BY ControlType DEF Terminal!Kinds
  <2>2. queue' = Terminal!Put(queue, {f}, Terminal!Control("connected")) /\ UNCHANGED seen
    BY <1>17 DEF Terminal!FollowerGreeted
  <2> QED
    BY <2>1, <2>2, PutType
<1>18. ASSUME NEW f \in Followers, Terminal!FollowerJoins(f)
      PROVE queue' \in Queues /\ seen' \in [Terminal!Clients -> Terminal!View]
  <2> DEFINE x == Append(Terminal!Snapshot(buffered), Terminal!Control("connected"))
  <2>1. queue' = [queue EXCEPT ![f] = x] /\ UNCHANGED seen
    BY <1>18 DEF Terminal!FollowerJoins
  <2>2. /\ Terminal!Snapshot(buffered) \in Seq(Terminal!Message)
        /\ Len(Terminal!Snapshot(buffered)) <= 1
    BY SnapshotType DEF SessionTyped
  <2>3. Terminal!Control("connected") \in Terminal!Message
    BY ControlType DEF Terminal!Kinds
  <2>4. x \in Seq(Terminal!Message) /\ Len(x) <= QueueSize
    BY <2>2, <2>3, TerminalAssumption
  <2>5. f \in Terminal!Clients
    BY DEF Terminal!Clients
  <2> HIDE DEF x
  <2> QED
    BY <2>1, <2>4, <2>5, ReplacedQueue
<1>19. ASSUME NEW f \in Followers, Terminal!FollowerLoopEnds(f)
      PROVE queue' \in Queues /\ seen' \in [Terminal!Clients -> Terminal!View]
  BY <1>19 DEF Terminal!FollowerLoopEnds, Terminal!outside, Terminal!threads, Terminal!stream
<1>20. ASSUME NEW f \in Followers, Terminal!FollowerCleanUp(f)
      PROVE queue' \in Queues /\ seen' \in [Terminal!Clients -> Terminal!View]
  <2>1. Terminal!Control("stop") \in Terminal!Message
    BY ControlType DEF Terminal!Kinds
  <2>2. queue' = Terminal!Put(queue, {f}, Terminal!Control("stop")) /\ UNCHANGED seen
    BY <1>20 DEF Terminal!FollowerCleanUp
  <2> QED
    BY <2>1, <2>2, PutType
<1>21. ASSUME NEW c \in Terminal!Clients, Terminal!SenderTurn(c)
      PROVE queue' \in Queues /\ seen' \in [Terminal!Clients -> Terminal!View]
  <2>1. /\ queue[c] \in Seq(Terminal!Message) /\ queue[c] # <<>> /\ Len(queue[c]) <= QueueSize
        /\ queue' = [queue EXCEPT ![c] = Tail(queue[c])]
        /\ UNCHANGED seen \/ seen' = [seen EXCEPT ![c] = Terminal!Received(seen[c], Head(queue[c]))]
    BY <1>21 DEF Terminal!SenderTurn, Queues
  <2>2. /\ Tail(queue[c]) \in Seq(Terminal!Message) /\ Len(queue[c]) \in Nat
        /\ Len(Tail(queue[c])) = Len(queue[c]) - 1 /\ Head(queue[c]) \in Terminal!Message
    BY <2>1, TakenPlaces
  <2>3. Len(Tail(queue[c])) <= QueueSize
    BY <2>1, <2>2, TerminalAssumption
  <2>4. Terminal!Received(seen[c], Head(queue[c])) \in Terminal!View
    BY <2>2, ReceivedType
  <2>5. queue' \in Queues
    BY <2>1, <2>2, <2>3, ReplacedQueue
  <2>6. seen' \in [Terminal!Clients -> Terminal!View]
    BY <2>1, <2>4
  <2> QED
    BY <2>5, <2>6
<1>22. CASE Terminal!WatchdogFires
  <2>1. Terminal!Control("closing") \in Terminal!Message
    BY ControlType DEF Terminal!Kinds
  <2>2. queue' = Terminal!Put(queue, subs, Terminal!Control("closing")) /\ UNCHANGED seen
    BY <1>22 DEF Terminal!WatchdogFires
  <2> QED
    BY <2>1, <2>2, PutType
<1>23. CASE Terminal!WatchdogEnds
  BY <1>23 DEF Terminal!WatchdogEnds, Terminal!outside, Terminal!threads, Terminal!stream
<1>24. ASSUME NEW f \in Followers, Terminal!FollowerWatchdog(f)
      PROVE queue' \in Queues /\ seen' \in [Terminal!Clients -> Terminal!View]
  <2>1. Terminal!Control("closing") \in Terminal!Message
    BY ControlType DEF Terminal!Kinds
  <2>2. queue' = Terminal!Put(queue, {f}, Terminal!Control("closing")) /\ UNCHANGED seen
    BY <1>24 DEF Terminal!FollowerWatchdog
  <2> QED
    BY <2>1, <2>2, PutType
<1>25. ASSUME NEW c \in Terminal!Clients, Terminal!ClientCloses(c)
      PROVE queue' \in Queues /\ seen' \in [Terminal!Clients -> Terminal!View]
  BY <1>25 DEF Terminal!ClientCloses, Terminal!outside, Terminal!threads, Terminal!stream
<1>26. ASSUME NEW c \in Terminal!Clients, Terminal!Revoke(c)
      PROVE queue' \in Queues /\ seen' \in [Terminal!Clients -> Terminal!View]
  BY <1>26 DEF Terminal!Revoke, Terminal!outside, Terminal!threads, Terminal!stream
<1> QED
  BY <1>1, <1>2, <1>3, <1>4, <1>5, <1>6, <1>7, <1>8, <1>9, <1>10, <1>11, <1>12, <1>13,
     <1>14, <1>15, <1>16, <1>17, <1>18, <1>19, <1>20, <1>21, <1>22, <1>23, <1>24, <1>25, <1>26
     DEF Terminal!Next, Terminal!GeventNext, Terminal!ThreadNext, Terminal!Follower

LEMMA PutAt ==
    ASSUME NEW q, NEW to, NEW m, NEW c \in Terminal!Clients
    PROVE  /\ c \in to /\ Len(q[c]) < QueueSize => Terminal!Put(q, to, m)[c] = Append(q[c], m)
           /\ ~(c \in to /\ Len(q[c]) < QueueSize) => Terminal!Put(q, to, m)[c] = q[c]
  BY DEF Terminal!Put

\* Every step keeps CastingSound.
LEMMA CastingKept ==
    ASSUME SessionTyped, CastingSound, BeforeStart, Terminal!Next
    PROVE  CastingSound'
<1> USE TerminalAssumption
<1>1. CASE Terminal!PrimaryConnect
  BY <1>1 DEF CastingSound, BeforeStart, Followed, SessionTyped, Terminal!PrimaryConnect,
     Terminal!Clients, Terminal!Idle,
     Preemptive, Terminal!Preemptive, Terminal!outside, Terminal!threads, Terminal!stream
<1>2. CASE Terminal!PrimarySubscribe
  BY <1>2 DEF CastingSound, BeforeStart, Followed, SessionTyped, Terminal!PrimarySubscribe,
     Terminal!Clients, Terminal!Idle,
     Preemptive, Terminal!Preemptive, Terminal!outside, Terminal!threads, Terminal!stream
<1>3. CASE Terminal!PrimaryStart
  BY <1>3 DEF CastingSound, BeforeStart, Followed, SessionTyped, Terminal!PrimaryStart,
     Terminal!Clients, Terminal!Idle,
     Preemptive, Terminal!Preemptive, Terminal!outside, Terminal!threads, Terminal!stream
<1>4. CASE Terminal!PrimaryLoopEnds
  BY <1>4 DEF CastingSound, BeforeStart, Followed, SessionTyped, Terminal!PrimaryLoopEnds,
     Terminal!Clients, Terminal!Idle,
     Preemptive, Terminal!Preemptive, Terminal!outside, Terminal!threads, Terminal!stream
<1>5. CASE Terminal!PrimaryCleanUp
  BY <1>5 DEF CastingSound, BeforeStart, Followed, SessionTyped, Terminal!PrimaryCleanUp,
     Terminal!Clients, Terminal!Idle,
     Preemptive, Terminal!Preemptive, Terminal!outside, Terminal!threads, Terminal!stream
<1>6. CASE Terminal!PrimaryClose
  BY <1>6 DEF CastingSound, BeforeStart, Followed, SessionTyped, Terminal!PrimaryClose,
     Terminal!Clients, Terminal!Idle,
     Preemptive, Terminal!Preemptive, Terminal!outside, Terminal!threads, Terminal!stream
<1>7. CASE Terminal!ReadAppend
  BY <1>7 DEF CastingSound, BeforeStart, Followed, SessionTyped, Terminal!ReadAppend,
     Terminal!Clients, Terminal!Idle,
     Preemptive, Terminal!Preemptive, Terminal!outside, Terminal!threads, Terminal!stream
<1>8. CASE Terminal!ReadTargets
  BY <1>8 DEF CastingSound, BeforeStart, Followed, SessionTyped, Terminal!ReadTargets,
     Terminal!Clients, Terminal!Idle,
     Preemptive, Terminal!Preemptive, Terminal!outside, Terminal!threads, Terminal!stream
<1>9. CASE Terminal!ReadPut
  BY <1>9 DEF CastingSound, BeforeStart, Followed, SessionTyped, Terminal!ReadPut,
     Terminal!Clients, Terminal!Idle,
     Preemptive, Terminal!Preemptive, Terminal!outside, Terminal!threads, Terminal!stream
<1>10. CASE Terminal!ReadOutput
  BY <1>10 DEF CastingSound, BeforeStart, Followed, SessionTyped, Terminal!ReadOutput,
     Terminal!Clients, Terminal!Idle,
     Preemptive, Terminal!Preemptive, Terminal!outside, Terminal!threads, Terminal!stream
<1>11. CASE Terminal!ShellExits
  BY <1>11 DEF CastingSound, BeforeStart, Followed, SessionTyped, Terminal!ShellExits,
     Terminal!Clients, Terminal!Idle,
     Preemptive, Terminal!Preemptive, Terminal!outside, Terminal!threads, Terminal!stream
<1>12. CASE Terminal!ReaderEnds
  BY <1>12 DEF CastingSound, BeforeStart, Followed, SessionTyped, Terminal!ReaderEnds,
     Terminal!Clients, Terminal!Idle,
     Preemptive, Terminal!Preemptive, Terminal!outside, Terminal!threads, Terminal!stream
<1>13. CASE Terminal!ReaderRemoves
  BY <1>13 DEF CastingSound, BeforeStart, Followed, SessionTyped, Terminal!ReaderRemoves,
     Terminal!Clients, Terminal!Idle,
     Preemptive, Terminal!Preemptive, Terminal!outside, Terminal!threads, Terminal!stream
<1>14. ASSUME NEW f \in Followers, Terminal!FollowerFinds(f) PROVE CastingSound'
  BY <1>14 DEF CastingSound, BeforeStart, Followed, SessionTyped, Terminal!FollowerFinds,
     Terminal!Clients, Terminal!Idle,
     Preemptive, Terminal!Preemptive, Terminal!outside, Terminal!threads, Terminal!stream
<1>15. ASSUME NEW f \in Followers, Terminal!FollowerSnapshots(f) PROVE CastingSound'
  BY <1>15 DEF CastingSound, BeforeStart, Followed, SessionTyped,
     Terminal!FollowerSnapshots, Terminal!Clients, Terminal!Idle,
     Preemptive, Terminal!Preemptive, Terminal!outside, Terminal!threads, Terminal!stream
<1>16. ASSUME NEW f \in Followers, Terminal!FollowerRegisters(f) PROVE CastingSound'
  BY <1>16 DEF CastingSound, BeforeStart, Followed, SessionTyped,
     Terminal!FollowerRegisters, Terminal!Clients, Terminal!Idle,
     Preemptive, Terminal!Preemptive, Terminal!outside, Terminal!threads, Terminal!stream
<1>17. ASSUME NEW f \in Followers, Terminal!FollowerGreeted(f) PROVE CastingSound'
  BY <1>17 DEF CastingSound, BeforeStart, Followed, SessionTyped, Terminal!FollowerGreeted,
     Terminal!Clients, Terminal!Idle,
     Preemptive, Terminal!Preemptive, Terminal!outside, Terminal!threads, Terminal!stream
<1>18. ASSUME NEW f \in Followers, Terminal!FollowerJoins(f) PROVE CastingSound'
  BY <1>18 DEF CastingSound, BeforeStart, Followed, SessionTyped, Terminal!FollowerJoins,
     Terminal!Clients, Terminal!Idle,
     Preemptive, Terminal!Preemptive, Terminal!outside, Terminal!threads, Terminal!stream
<1>19. ASSUME NEW f \in Followers, Terminal!FollowerLoopEnds(f) PROVE CastingSound'
  BY <1>19 DEF CastingSound, BeforeStart, Followed, SessionTyped,
     Terminal!FollowerLoopEnds, Terminal!Clients, Terminal!Idle,
     Preemptive, Terminal!Preemptive, Terminal!outside, Terminal!threads, Terminal!stream
<1>20. ASSUME NEW f \in Followers, Terminal!FollowerCleanUp(f) PROVE CastingSound'
  BY <1>20 DEF CastingSound, BeforeStart, Followed, SessionTyped, Terminal!FollowerCleanUp,
     Terminal!Clients, Terminal!Idle,
     Preemptive, Terminal!Preemptive, Terminal!outside, Terminal!threads, Terminal!stream
<1>21. ASSUME NEW c \in Terminal!Clients, Terminal!SenderTurn(c) PROVE CastingSound'
  BY <1>21 DEF CastingSound, BeforeStart, Followed, SessionTyped, Terminal!SenderTurn,
     Terminal!Clients, Terminal!Idle,
     Preemptive, Terminal!Preemptive, Terminal!outside, Terminal!threads, Terminal!stream
<1>22. CASE Terminal!WatchdogFires
  BY <1>22 DEF CastingSound, BeforeStart, Followed, SessionTyped, Terminal!WatchdogFires,
     Terminal!Clients, Terminal!Idle,
     Preemptive, Terminal!Preemptive, Terminal!outside, Terminal!threads, Terminal!stream
<1>23. CASE Terminal!WatchdogEnds
  BY <1>23 DEF CastingSound, BeforeStart, Followed, SessionTyped, Terminal!WatchdogEnds,
     Terminal!Clients, Terminal!Idle,
     Preemptive, Terminal!Preemptive, Terminal!outside, Terminal!threads, Terminal!stream
<1>24. ASSUME NEW f \in Followers, Terminal!FollowerWatchdog(f) PROVE CastingSound'
  BY <1>24 DEF CastingSound, BeforeStart, Followed, SessionTyped,
     Terminal!FollowerWatchdog, Terminal!Clients, Terminal!Idle,
     Preemptive, Terminal!Preemptive, Terminal!outside, Terminal!threads, Terminal!stream
<1>25. ASSUME NEW c \in Terminal!Clients, Terminal!ClientCloses(c) PROVE CastingSound'
  BY <1>25 DEF CastingSound, BeforeStart, Followed, SessionTyped, Terminal!ClientCloses,
     Terminal!Clients, Terminal!Idle,
     Preemptive, Terminal!Preemptive, Terminal!outside, Terminal!threads, Terminal!stream
<1>26. ASSUME NEW c \in Terminal!Clients, Terminal!Revoke(c) PROVE CastingSound'
  BY <1>26 DEF CastingSound, BeforeStart, Followed, SessionTyped, Terminal!Revoke,
     Terminal!Clients, Terminal!Idle,
     Preemptive, Terminal!Preemptive, Terminal!outside, Terminal!threads, Terminal!stream
<1> QED
  BY <1>1, <1>2, <1>3, <1>4, <1>5, <1>6, <1>7, <1>8, <1>9, <1>10, <1>11, <1>12, <1>13,
     <1>14, <1>15, <1>16, <1>17, <1>18, <1>19, <1>20, <1>21, <1>22, <1>23, <1>24, <1>25, <1>26
     DEF Terminal!Next, Terminal!GeventNext, Terminal!ThreadNext, Terminal!Follower

\* Every step keeps BeforeStart.
LEMMA StartKept ==
    ASSUME SessionTyped, queue \in Queues, seen \in [Terminal!Clients -> Terminal!View],
           CastingSound, BeforeStart, Terminal!Next
    PROVE  BeforeStart'
<1> USE TerminalAssumption DEF Queues
<1>1. CASE Terminal!PrimaryConnect
  BY <1>1 DEF BeforeStart, Followed, CastingSound, SessionTyped, Terminal!PrimaryConnect,
     Terminal!Clients, Terminal!Idle,
     Preemptive, Terminal!Preemptive, Terminal!outside, Terminal!threads, Terminal!stream
<1>2. CASE Terminal!PrimarySubscribe
  BY <1>2 DEF BeforeStart, Followed, CastingSound, SessionTyped, Terminal!PrimarySubscribe,
     Terminal!Clients, Terminal!Idle,
     Preemptive, Terminal!Preemptive, Terminal!outside, Terminal!threads, Terminal!stream
<1>3. CASE Terminal!PrimaryStart
  BY <1>3 DEF BeforeStart, Followed, CastingSound, SessionTyped, Terminal!PrimaryStart,
     Terminal!Clients, Terminal!Idle,
     Preemptive, Terminal!Preemptive, Terminal!outside, Terminal!threads, Terminal!stream
<1>4. CASE Terminal!PrimaryLoopEnds
  BY <1>4 DEF BeforeStart, Followed, CastingSound, SessionTyped, Terminal!PrimaryLoopEnds,
     Terminal!Clients, Terminal!Idle,
     Preemptive, Terminal!Preemptive, Terminal!outside, Terminal!threads, Terminal!stream
<1>5. CASE Terminal!PrimaryCleanUp
  <2>1. \A d \in Followed : d \notin {"primary"} =>
           Terminal!Put(queue, {"primary"}, Terminal!Control("stop"))[d] = queue[d]
    BY PutAt DEF Followed, Terminal!Clients
  <2> QED
    BY <1>5, <2>1 DEF BeforeStart, Followed, CastingSound, SessionTyped,
       Terminal!PrimaryCleanUp, Terminal!Clients, Terminal!Idle,
       Preemptive, Terminal!Preemptive, Terminal!outside, Terminal!threads, Terminal!stream
<1>6. CASE Terminal!PrimaryClose
  BY <1>6 DEF BeforeStart, Followed, CastingSound, SessionTyped, Terminal!PrimaryClose,
     Terminal!Clients, Terminal!Idle,
     Preemptive, Terminal!Preemptive, Terminal!outside, Terminal!threads, Terminal!stream
<1>7. CASE Terminal!ReadAppend
  BY <1>7 DEF BeforeStart, Followed, CastingSound, SessionTyped, Terminal!ReadAppend,
     Terminal!Clients, Terminal!Idle,
     Preemptive, Terminal!Preemptive, Terminal!outside, Terminal!threads, Terminal!stream
<1>8. CASE Terminal!ReadTargets
  BY <1>8 DEF BeforeStart, Followed, CastingSound, SessionTyped, Terminal!ReadTargets,
     Terminal!Clients, Terminal!Idle,
     Preemptive, Terminal!Preemptive, Terminal!outside, Terminal!threads, Terminal!stream
<1>9. CASE Terminal!ReadPut
  <2>1. \A d \in Followed : d \notin casting.to =>
           Terminal!Put(queue, casting.to, Terminal!Output(buffered, buffered))[d] = queue[d]
    BY PutAt DEF Followed, Terminal!Clients
  <2> QED
    BY <1>9, <2>1 DEF BeforeStart, Followed, CastingSound, SessionTyped, Terminal!ReadPut,
       Terminal!Clients, Terminal!Idle,
       Preemptive, Terminal!Preemptive, Terminal!outside, Terminal!threads, Terminal!stream
<1>10. CASE Terminal!ReadOutput
  <2>1. \A d \in Followed : d \notin subs =>
           Terminal!Put(queue, subs, Terminal!Output(buffered + 1, buffered + 1))[d] = queue[d]
    BY PutAt DEF Followed, Terminal!Clients
  <2> QED
    BY <1>10, <2>1 DEF BeforeStart, Followed, CastingSound, SessionTyped,
       Terminal!ReadOutput, Terminal!Clients, Terminal!Idle,
       Preemptive, Terminal!Preemptive, Terminal!outside, Terminal!threads, Terminal!stream
<1>11. CASE Terminal!ShellExits
  BY <1>11 DEF BeforeStart, Followed, CastingSound, SessionTyped, Terminal!ShellExits,
     Terminal!Clients, Terminal!Idle,
     Preemptive, Terminal!Preemptive, Terminal!outside, Terminal!threads, Terminal!stream
<1>12. CASE Terminal!ReaderEnds
  <2>1. \A d \in Followed : d \notin subs =>
           Terminal!Put(queue, subs, Terminal!Control("disconnected"))[d] = queue[d]
    BY PutAt DEF Followed, Terminal!Clients
  <2> QED
    BY <1>12, <2>1 DEF BeforeStart, Followed, CastingSound, SessionTyped,
       Terminal!ReaderEnds, Terminal!Clients, Terminal!Idle,
       Preemptive, Terminal!Preemptive, Terminal!outside, Terminal!threads, Terminal!stream
<1>13. CASE Terminal!ReaderRemoves
  BY <1>13 DEF BeforeStart, Followed, CastingSound, SessionTyped, Terminal!ReaderRemoves,
     Terminal!Clients, Terminal!Idle,
     Preemptive, Terminal!Preemptive, Terminal!outside, Terminal!threads, Terminal!stream
<1>14. ASSUME NEW f \in Followers, Terminal!FollowerFinds(f) PROVE BeforeStart'
  BY <1>14 DEF BeforeStart, Followed, CastingSound, SessionTyped, Terminal!FollowerFinds,
     Terminal!Clients, Terminal!Idle,
     Preemptive, Terminal!Preemptive, Terminal!outside, Terminal!threads, Terminal!stream
<1>15. ASSUME NEW f \in Followers, Terminal!FollowerSnapshots(f) PROVE BeforeStart'
  BY <1>15 DEF BeforeStart, Followed, CastingSound, SessionTyped,
     Terminal!FollowerSnapshots, Terminal!Clients, Terminal!Idle,
     Preemptive, Terminal!Preemptive, Terminal!outside, Terminal!threads, Terminal!stream
<1>16. ASSUME NEW f \in Followers, Terminal!FollowerRegisters(f) PROVE BeforeStart'
  BY <1>16 DEF BeforeStart, Followed, CastingSound, SessionTyped,
     Terminal!FollowerRegisters, Terminal!Clients, Terminal!Idle,
     Preemptive, Terminal!Preemptive, Terminal!outside, Terminal!threads, Terminal!stream
<1>17. ASSUME NEW f \in Followers, Terminal!FollowerGreeted(f) PROVE BeforeStart'
  <2>1. \A d \in Followed : d \notin {f} =>
           Terminal!Put(queue, {f}, Terminal!Control("connected"))[d] = queue[d]
    BY PutAt DEF Followed, Terminal!Clients
  <2> QED
    BY <1>17, <2>1 DEF BeforeStart, Followed, CastingSound, SessionTyped,
       Terminal!FollowerGreeted, Terminal!Clients, Terminal!Idle,
       Preemptive, Terminal!Preemptive, Terminal!outside, Terminal!threads, Terminal!stream
<1>18. ASSUME NEW f \in Followers, Terminal!FollowerJoins(f) PROVE BeforeStart'
  BY <1>18 DEF BeforeStart, Followed, CastingSound, SessionTyped, Terminal!FollowerJoins,
     Terminal!Clients, Terminal!Idle,
     Preemptive, Terminal!Preemptive, Terminal!outside, Terminal!threads, Terminal!stream
<1>19. ASSUME NEW f \in Followers, Terminal!FollowerLoopEnds(f) PROVE BeforeStart'
  BY <1>19 DEF BeforeStart, Followed, CastingSound, SessionTyped,
     Terminal!FollowerLoopEnds, Terminal!Clients, Terminal!Idle,
     Preemptive, Terminal!Preemptive, Terminal!outside, Terminal!threads, Terminal!stream
<1>20. ASSUME NEW f \in Followers, Terminal!FollowerCleanUp(f) PROVE BeforeStart'
  <2>1. \A d \in Followed : d \notin {f} =>
           Terminal!Put(queue, {f}, Terminal!Control("stop"))[d] = queue[d]
    BY PutAt DEF Followed, Terminal!Clients
  <2> QED
    BY <1>20, <2>1 DEF BeforeStart, Followed, CastingSound, SessionTyped,
       Terminal!FollowerCleanUp, Terminal!Clients, Terminal!Idle,
       Preemptive, Terminal!Preemptive, Terminal!outside, Terminal!threads, Terminal!stream
<1>21. ASSUME NEW c \in Terminal!Clients, Terminal!SenderTurn(c) PROVE BeforeStart'
  BY <1>21 DEF BeforeStart, Followed, CastingSound, SessionTyped, Terminal!SenderTurn,
     Terminal!Clients, Terminal!Idle,
     Preemptive, Terminal!Preemptive, Terminal!outside, Terminal!threads, Terminal!stream
<1>22. CASE Terminal!WatchdogFires
  <2>1. \A d \in Followed : d \notin subs =>
           Terminal!Put(queue, subs, Terminal!Control("closing"))[d] = queue[d]
    BY PutAt DEF Followed, Terminal!Clients
  <2> QED
    BY <1>22, <2>1 DEF BeforeStart, Followed, CastingSound, SessionTyped,
       Terminal!WatchdogFires, Terminal!Clients, Terminal!Idle,
       Preemptive, Terminal!Preemptive, Terminal!outside, Terminal!threads, Terminal!stream
<1>23. CASE Terminal!WatchdogEnds
  BY <1>23 DEF BeforeStart, Followed, CastingSound, SessionTyped, Terminal!WatchdogEnds,
     Terminal!Clients, Terminal!Idle,
     Preemptive, Terminal!Preemptive, Terminal!outside, Terminal!threads, Terminal!stream
<1>24. ASSUME NEW f \in Followers, Terminal!FollowerWatchdog(f) PROVE BeforeStart'
  <2>1. \A d \in Followed : d \notin {f} =>
           Terminal!Put(queue, {f}, Terminal!Control("closing"))[d] = queue[d]
    BY PutAt DEF Followed, Terminal!Clients
  <2> QED
    BY <1>24, <2>1 DEF BeforeStart, Followed, CastingSound, SessionTyped,
       Terminal!FollowerWatchdog, Terminal!Clients, Terminal!Idle,
       Preemptive, Terminal!Preemptive, Terminal!outside, Terminal!threads, Terminal!stream
<1>25. ASSUME NEW c \in Terminal!Clients, Terminal!ClientCloses(c) PROVE BeforeStart'
  BY <1>25 DEF BeforeStart, Followed, CastingSound, SessionTyped, Terminal!ClientCloses,
     Terminal!Clients, Terminal!Idle,
     Preemptive, Terminal!Preemptive, Terminal!outside, Terminal!threads, Terminal!stream
<1>26. ASSUME NEW c \in Terminal!Clients, Terminal!Revoke(c) PROVE BeforeStart'
  BY <1>26 DEF BeforeStart, Followed, CastingSound, SessionTyped, Terminal!Revoke,
     Terminal!Clients, Terminal!Idle,
     Preemptive, Terminal!Preemptive, Terminal!outside, Terminal!threads, Terminal!stream
<1> QED
  BY <1>1, <1>2, <1>3, <1>4, <1>5, <1>6, <1>7, <1>8, <1>9, <1>10, <1>11, <1>12, <1>13,
     <1>14, <1>15, <1>16, <1>17, <1>18, <1>19, <1>20, <1>21, <1>22, <1>23, <1>24, <1>25, <1>26
     DEF Terminal!Next, Terminal!GeventNext, Terminal!ThreadNext, Terminal!Follower

\* A control message on a queue keeps what fits and what was told.
LEMMA PutControl ==
    ASSUME queue \in Queues, NEW k \in Terminal!Kinds, k # "output", NEW to,
           NEW c \in Terminal!Clients
    PROVE  /\ \A s, n : Fits(s, queue[c], n) =>
                 Fits(s, Terminal!Put(queue, to, Terminal!Control(k))[c], n)
           /\ \A s : Terminal!Told(s, queue[c]) =>
                 Terminal!Told(s, Terminal!Put(queue, to, Terminal!Control(k))[c])
           /\ k = "disconnected" /\ c \in to /\ Len(queue[c]) < QueueSize =>
                 \A s : Terminal!Told(s, Terminal!Put(queue, to, Terminal!Control(k))[c])
<1> DEFINE m == Terminal!Control(k)
<1>1. m \in Terminal!Message /\ m.kind = k
  BY ControlType
<1>2. queue[c] \in Seq(Terminal!Message)
  BY DEF Queues
<1> HIDE DEF m
<1>3. \A s, n : Fits(s, queue[c], n) => Fits(s, Append(queue[c], m), n)
  BY <1>1, <1>2, FitsControl
<1>4. \A s : Terminal!Told(s, queue[c]) => Terminal!Told(s, Append(queue[c], m))
  BY <1>1, <1>2, AppendedTold
<1>5. k = "disconnected" => \A s : Terminal!Told(s, Append(queue[c], m))
  BY <1>1, <1>2, AppendedTold
<1>6. /\ c \in to /\ Len(queue[c]) < QueueSize =>
            Terminal!Put(queue, to, m)[c] = Append(queue[c], m)
      /\ ~(c \in to /\ Len(queue[c]) < QueueSize) =>
            Terminal!Put(queue, to, m)[c] = queue[c]
  BY PutAt
<1>7. CASE c \in to /\ Len(queue[c]) < QueueSize
  BY <1>3, <1>4, <1>5, <1>6, <1>7 DEF m
<1>8. CASE ~(c \in to /\ Len(queue[c]) < QueueSize)
  BY <1>6, <1>8 DEF m
<1> QED
  BY <1>7, <1>8

\* The next chunk goes on every queue it is meant for that has room.
LEMMA PutChunk ==
    ASSUME queue \in Queues, NEW n \in Nat, n + 1 \in 0..MaxChunks, NEW to,
           NEW c \in Terminal!Clients, c \in to, c \notin Terminal!Dropping(queue, to),
           NEW s, Fits(s, queue[c], n)
    PROVE  Fits(s, Terminal!Put(queue, to, Terminal!Output(n + 1, n + 1))[c], n + 1)
<1> DEFINE m == Terminal!Output(n + 1, n + 1)
<1>1. m \in Terminal!Message /\ m.kind = "output" /\ m.from = n + 1 /\ m.to = n + 1
  BY OutputType
<1>2. queue[c] \in Seq(Terminal!Message)
  BY DEF Queues
<1>3. Len(queue[c]) < QueueSize
  BY <1>2, TerminalAssumption DEF Terminal!Dropping
<1> HIDE DEF m
<1>4. Fits(s, Append(queue[c], m), n + 1)
  BY <1>1, <1>2, FitsOutput
<1>5. Terminal!Put(queue, to, m)[c] = Append(queue[c], m)
  BY <1>3, PutAt
<1> QED
  BY <1>4, <1>5 DEF m

\* The sender's turn keeps what fits and what was told, whether it passes the
\* message on or it was the sentinel.
LEMMA TurnKeeps ==
    ASSUME NEW s \in Terminal!View, NEW q \in Seq(Terminal!Message), q # <<>>, NEW r,
           r = Terminal!Received(s, Head(q)) \/ (r = s /\ Head(q).kind = "stop")
    PROVE  /\ \A n : Fits(s, q, n) => Fits(r, Tail(q), n)
           /\ Terminal!Told(s, q) => Terminal!Told(r, Tail(q))
<1>1. Head(q) \in Terminal!Message
  BY TakenPlaces
<1>2. Head(q).kind = "stop" => Terminal!Received(s, Head(q)) = s
  BY DEF Terminal!Received
<1>3. r = Terminal!Received(s, Head(q))
  BY <1>2
<1> QED
  BY <1>3, FitsTaken, TakenTold

\* Every step keeps QueuesFit.
LEMMA FitKept ==
    ASSUME SessionTyped, queue \in Queues, seen \in [Terminal!Clients -> Terminal!View],
           CastingSound, BeforeStart, QueuesFit, Terminal!Next
    PROVE  QueuesFit'
<1> USE TerminalAssumption
<1>1. CASE Terminal!PrimaryConnect
  <2>1. Fits(Terminal!Nothing, <<>>, 0)
    <3>1. Terminal!Snapshot(0) = <<>> /\ 0 \in 0..MaxChunks
      BY TerminalAssumption DEF Terminal!Snapshot
    <3> QED
      BY <3>1, FitsFresh
  <2> QED
    BY <1>1, <2>1 DEF QueuesFit, Followed, Broadcast, BeforeStart, Terminal!PrimaryConnect,
       SessionTyped, Terminal!Clients, Terminal!Idle,
       Preemptive, Terminal!Preemptive, Terminal!outside, Terminal!threads, Terminal!stream
<1>2. CASE Terminal!PrimarySubscribe
  <2>1. Fits(Terminal!Nothing, Terminal!Snapshot(0), 0)
    BY FitsFresh, TerminalAssumption
  <2> QED
    BY <1>2, <2>1 DEF QueuesFit, Followed, Broadcast, BeforeStart, CastingSound, Queues,
       Terminal!PrimarySubscribe,
       SessionTyped, Terminal!Clients, Terminal!Idle,
       Preemptive, Terminal!Preemptive, Terminal!outside, Terminal!threads, Terminal!stream
<1>3. CASE Terminal!PrimaryStart
  BY <1>3 DEF QueuesFit, Followed, Broadcast, Terminal!PrimaryStart, SessionTyped,
     Terminal!Clients, Terminal!Idle,
     Preemptive, Terminal!Preemptive, Terminal!outside, Terminal!threads, Terminal!stream
<1>4. CASE Terminal!PrimaryLoopEnds
  BY <1>4 DEF QueuesFit, Followed, Broadcast, Terminal!PrimaryLoopEnds, SessionTyped,
     Terminal!Clients, Terminal!Idle,
     Preemptive, Terminal!Preemptive, Terminal!outside, Terminal!threads, Terminal!stream
<1>5. CASE Terminal!PrimaryCleanUp
  <2>1. "stop" \in Terminal!Kinds
    BY DEF Terminal!Kinds
  <2>2. \A d \in Followed : \A s, n : Fits(s, queue[d], n) =>
           Fits(s, Terminal!Put(queue, {"primary"}, Terminal!Control("stop"))[d], n)
    BY <2>1, PutControl DEF Followed, Terminal!Clients
  <2> QED
    BY <1>5, <2>2 DEF QueuesFit, Followed, Broadcast, Terminal!PrimaryCleanUp,
       SessionTyped, Terminal!Clients, Terminal!Idle,
       Preemptive, Terminal!Preemptive, Terminal!outside, Terminal!threads, Terminal!stream
<1>6. CASE Terminal!PrimaryClose
  BY <1>6 DEF QueuesFit, Followed, Broadcast, Terminal!PrimaryClose, SessionTyped,
     Terminal!Clients, Terminal!Idle,
     Preemptive, Terminal!Preemptive, Terminal!outside, Terminal!threads, Terminal!stream
<1>7. CASE Terminal!ReadAppend
  BY <1>7 DEF QueuesFit, Followed, Broadcast, Terminal!ReadAppend, SessionTyped,
     Terminal!Clients, Terminal!Idle,
     Preemptive, Terminal!Preemptive, Terminal!outside, Terminal!threads, Terminal!stream
<1>8. CASE Terminal!ReadTargets
  BY <1>8 DEF QueuesFit, Followed, Broadcast, Terminal!ReadTargets, SessionTyped,
     Terminal!Clients, Terminal!Idle,
     Preemptive, Terminal!Preemptive, Terminal!outside, Terminal!threads, Terminal!stream
<1>9. CASE Terminal!ReadPut
  <2>1. casting # Terminal!Idle
    BY <1>9 DEF Terminal!ReadPut, Terminal!Idle
  <2>2. Followed = {"primary"} /\ Followed' = {"primary"} /\ "primary" \in Terminal!Clients
    BY <1>9, <2>1
    DEF CastingSound, Followed, Preemptive, Terminal!ReadPut, Terminal!outside, Terminal!Clients
  <2>3. buffered - 1 \in Nat /\ buffered - 1 + 1 = buffered /\ buffered \in 0..MaxChunks
    BY <2>1 DEF CastingSound, SessionTyped
  <2>4. Broadcast = buffered - 1 /\ Broadcast' = buffered
    BY <1>9, <2>1 DEF Broadcast, Terminal!ReadPut
  <2> SUFFICES ASSUME "primary" \in (subs' \cap ws') \ lost'
               PROVE  Fits(seen'["primary"], queue'["primary"], Broadcast')
    BY <2>2 DEF QueuesFit
  <2>5. /\ "primary" \in (subs \cap ws) \ lost
        /\ "primary" \notin Terminal!Dropping(queue, casting.to)
        /\ queue' = Terminal!Put(queue, casting.to, Terminal!Output(buffered, buffered))
        /\ seen' = seen
    BY <1>9 DEF Terminal!ReadPut
  <2>6. "primary" \in casting.to
    BY <1>9, <2>5 DEF CastingSound, Terminal!ReadPut
  <2>7. Fits(seen["primary"], queue["primary"], buffered - 1)
    BY <2>2, <2>4, <2>5 DEF QueuesFit
  <2>8. Fits(seen["primary"],
             Terminal!Put(queue, casting.to, Terminal!Output(buffered, buffered))["primary"],
             buffered)
    BY <2>2, <2>3, <2>5, <2>6, <2>7, PutChunk
  <2> QED
    BY <2>4, <2>5, <2>8
<1>10. CASE Terminal!ReadOutput
  <2>1. casting = Terminal!Idle
    BY <1>10 DEF CastingSound, Terminal!ReadOutput, Preemptive, Terminal!Preemptive
  <2>2. Followed' = Followed /\ Followed \subseteq Terminal!Clients
    BY <1>10 DEF Followed, Preemptive, Terminal!ReadOutput, Terminal!outside, Terminal!Clients
  <2>3. buffered \in Nat /\ buffered + 1 \in 0..MaxChunks
    BY <1>10, TerminalAssumption DEF Terminal!ReadOutput, SessionTyped
  <2>4. Broadcast = buffered /\ Broadcast' = buffered + 1
    BY <1>10, <2>1 DEF Broadcast, Terminal!ReadOutput
  <2> SUFFICES ASSUME NEW d \in Followed, d \in (subs' \cap ws') \ lost'
               PROVE  Fits(seen'[d], queue'[d], Broadcast')
    BY <2>2 DEF QueuesFit
  <2>5. /\ d \in (subs \cap ws) \ lost /\ d \notin Terminal!Dropping(queue, subs)
        /\ queue' = Terminal!Put(queue, subs, Terminal!Output(buffered + 1, buffered + 1))
        /\ seen' = seen
    BY <1>10 DEF Terminal!ReadOutput
  <2>6. Fits(seen[d], queue[d], buffered)
    BY <2>4, <2>5 DEF QueuesFit
  <2>7. Fits(seen[d], Terminal!Put(queue, subs, Terminal!Output(buffered + 1, buffered + 1))[d],
             buffered + 1)
    BY <2>2, <2>3, <2>5, <2>6, PutChunk
  <2> QED
    BY <2>4, <2>5, <2>7
<1>11. CASE Terminal!ShellExits
  BY <1>11 DEF QueuesFit, Followed, Broadcast, Terminal!ShellExits, SessionTyped,
     Terminal!Clients, Terminal!Idle,
     Preemptive, Terminal!Preemptive, Terminal!outside, Terminal!threads, Terminal!stream
<1>12. CASE Terminal!ReaderEnds
  <2>1. "disconnected" \in Terminal!Kinds
    BY DEF Terminal!Kinds
  <2>2. \A d \in Followed : \A s, n : Fits(s, queue[d], n) =>
           Fits(s, Terminal!Put(queue, subs, Terminal!Control("disconnected"))[d], n)
    BY <2>1, PutControl DEF Followed, Terminal!Clients
  <2> QED
    BY <1>12, <2>2 DEF QueuesFit, Followed, Broadcast, Terminal!ReaderEnds, SessionTyped,
       Terminal!Clients, Terminal!Idle,
       Preemptive, Terminal!Preemptive, Terminal!outside, Terminal!threads, Terminal!stream
<1>13. CASE Terminal!ReaderRemoves
  BY <1>13 DEF QueuesFit, Followed, Broadcast, Terminal!ReaderRemoves, SessionTyped,
     Terminal!Clients, Terminal!Idle,
     Preemptive, Terminal!Preemptive, Terminal!outside, Terminal!threads, Terminal!stream
<1>14. ASSUME NEW f \in Followers, Terminal!FollowerFinds(f) PROVE QueuesFit'
  BY <1>14 DEF QueuesFit, Followed, Broadcast, Terminal!FollowerFinds, SessionTyped,
     Terminal!Clients, Terminal!Idle,
     Preemptive, Terminal!Preemptive, Terminal!outside, Terminal!threads, Terminal!stream
<1>15. ASSUME NEW f \in Followers, Terminal!FollowerSnapshots(f) PROVE QueuesFit'
  BY <1>15 DEF QueuesFit, Followed, Broadcast, CastingSound, Queues,
     Terminal!FollowerSnapshots, SessionTyped, Terminal!Clients, Terminal!Idle,
     Preemptive, Terminal!Preemptive, Terminal!outside, Terminal!threads, Terminal!stream
<1>16. ASSUME NEW f \in Followers, Terminal!FollowerRegisters(f) PROVE QueuesFit'
  BY <1>16 DEF QueuesFit, Followed, Broadcast, CastingSound, Terminal!FollowerRegisters,
     SessionTyped, Terminal!Clients, Terminal!Idle,
     Preemptive, Terminal!Preemptive, Terminal!outside, Terminal!threads, Terminal!stream
<1>17. ASSUME NEW f \in Followers, Terminal!FollowerGreeted(f) PROVE QueuesFit'
  <2>1. "connected" \in Terminal!Kinds
    BY DEF Terminal!Kinds
  <2>2. \A d \in Followed : \A s, n : Fits(s, queue[d], n) =>
           Fits(s, Terminal!Put(queue, {f}, Terminal!Control("connected"))[d], n)
    BY <2>1, PutControl DEF Followed, Terminal!Clients
  <2> QED
    BY <1>17, <2>2 DEF QueuesFit, Followed, Broadcast, Terminal!FollowerGreeted,
       SessionTyped, Terminal!Clients, Terminal!Idle,
       Preemptive, Terminal!Preemptive, Terminal!outside, Terminal!threads, Terminal!stream
<1>18. ASSUME NEW f \in Followers, Terminal!FollowerJoins(f) PROVE QueuesFit'
  <2> DEFINE x == Append(Terminal!Snapshot(buffered), Terminal!Control("connected"))
  <2>1. casting = Terminal!Idle /\ buffered \in 0..MaxChunks
    BY <1>18 DEF CastingSound, SessionTyped, Terminal!FollowerJoins, Preemptive,
       Terminal!Preemptive
  <2>2. /\ Terminal!Control("connected") \in Terminal!Message
        /\ Terminal!Control("connected").kind = "connected"
    BY ControlType DEF Terminal!Kinds
  <2>3. Terminal!Snapshot(buffered) \in Seq(Terminal!Message)
    BY <2>1, SnapshotType
  <2>4. Fits(Terminal!Nothing, Terminal!Snapshot(buffered), buffered)
    BY <2>1, FitsFresh
  <2>5. Fits(Terminal!Nothing, x, buffered)
    BY <2>2, <2>3, <2>4, FitsControl
  <2>6. /\ queue' = [queue EXCEPT ![f] = x] /\ UNCHANGED <<buffered, casting, seen, lost, worker>>
        /\ stage[f] = "away" /\ ~Preemptive /\ subs' = subs \cup {f} /\ ws' = ws \cup {f}
    BY <1>18 DEF Terminal!FollowerJoins, Terminal!outside, Preemptive, Terminal!Preemptive
  <2> HIDE DEF x
  <2>7. Followed' = Followed /\ Followed = Terminal!Clients /\ Broadcast' = Broadcast
        /\ Broadcast = buffered
    BY <2>1, <2>6 DEF Followed, Broadcast, Preemptive, Terminal!Clients
  <2>8. f \in Terminal!Clients /\ seen[f] = Terminal!Nothing
    BY <2>6, <2>7 DEF BeforeStart, Terminal!Clients
  <2>9. ASSUME NEW d \in Followed, d \in (subs' \cap ws') \ lost'
        PROVE  Fits(seen'[d], queue'[d], Broadcast')
    <3>1. CASE d = f
      BY <2>5, <2>6, <2>7, <2>8, <3>1 DEF Queues
    <3>2. CASE d # f
      <4>1. Fits(seen[d], queue[d], Broadcast)
        BY <2>6, <2>9, <3>2 DEF QueuesFit
      <4>2. queue'[d] = queue[d]
        BY <2>6, <2>7, <3>2 DEF Queues
      <4> QED
        BY <2>6, <2>7, <4>1, <4>2
    <3> QED
      BY <3>1, <3>2
  <2> QED
    BY <2>7, <2>9 DEF QueuesFit
<1>19. ASSUME NEW f \in Followers, Terminal!FollowerLoopEnds(f) PROVE QueuesFit'
  BY <1>19 DEF QueuesFit, Followed, Broadcast, Terminal!FollowerLoopEnds, SessionTyped,
     Terminal!Clients, Terminal!Idle,
     Preemptive, Terminal!Preemptive, Terminal!outside, Terminal!threads, Terminal!stream
<1>20. ASSUME NEW f \in Followers, Terminal!FollowerCleanUp(f) PROVE QueuesFit'
  <2>1. "stop" \in Terminal!Kinds
    BY DEF Terminal!Kinds
  <2>2. \A d \in Followed : \A s, n : Fits(s, queue[d], n) =>
           Fits(s, Terminal!Put(queue, {f}, Terminal!Control("stop"))[d], n)
    BY <2>1, PutControl DEF Followed, Terminal!Clients
  <2> QED
    BY <1>20, <2>2 DEF QueuesFit, Followed, Broadcast, Terminal!FollowerCleanUp,
       SessionTyped, Terminal!Clients, Terminal!Idle,
       Preemptive, Terminal!Preemptive, Terminal!outside, Terminal!threads, Terminal!stream
<1>21. ASSUME NEW c \in Terminal!Clients, Terminal!SenderTurn(c) PROVE QueuesFit'
  <2>1. Followed' = Followed /\ Followed \subseteq Terminal!Clients /\ Broadcast' = Broadcast
    BY <1>21 DEF Followed, Broadcast, Preemptive, Terminal!SenderTurn, Terminal!outside,
       Terminal!Clients
  <2> SUFFICES ASSUME NEW d \in Followed, d \in (subs' \cap ws') \ lost'
               PROVE  Fits(seen'[d], queue'[d], Broadcast')
    BY <2>1 DEF QueuesFit
  <2>2. /\ d \in (subs \cap ws) \ lost /\ d \in Terminal!Clients
        /\ queue[c] # <<>> /\ queue' = [queue EXCEPT ![c] = Tail(queue[c])]
    BY <1>21, <2>1 DEF Terminal!SenderTurn
  <2>3. Fits(seen[d], queue[d], Broadcast)
    BY <2>2 DEF QueuesFit
  <2>4. CASE d # c
    BY <1>21, <2>1, <2>2, <2>3, <2>4 DEF Terminal!SenderTurn, Queues
  <2>5. CASE d = c
    <3>1. queue[c] \in Seq(Terminal!Message) /\ seen[c] \in Terminal!View
      BY DEF Queues
    <3>2. \/ seen'[c] = Terminal!Received(seen[c], Head(queue[c]))
          \/ seen'[c] = seen[c] /\ Head(queue[c]).kind = "stop"
      BY <1>21, <2>2, <2>5 DEF Terminal!SenderTurn
    <3>3. Fits(seen'[c], Tail(queue[c]), Broadcast)
      BY <2>2, <2>3, <2>5, <3>1, <3>2, TurnKeeps
    <3> QED
      BY <2>1, <2>2, <2>5, <3>3 DEF Queues
  <2> QED
    BY <2>4, <2>5
<1>22. CASE Terminal!WatchdogFires
  <2>1. "closing" \in Terminal!Kinds
    BY DEF Terminal!Kinds
  <2>2. \A d \in Followed : \A s, n : Fits(s, queue[d], n) =>
           Fits(s, Terminal!Put(queue, subs, Terminal!Control("closing"))[d], n)
    BY <2>1, PutControl DEF Followed, Terminal!Clients
  <2> QED
    BY <1>22, <2>2 DEF QueuesFit, Followed, Broadcast, Terminal!WatchdogFires,
       SessionTyped, Terminal!Clients, Terminal!Idle,
       Preemptive, Terminal!Preemptive, Terminal!outside, Terminal!threads, Terminal!stream
<1>23. CASE Terminal!WatchdogEnds
  BY <1>23 DEF QueuesFit, Followed, Broadcast, Terminal!WatchdogEnds, SessionTyped,
     Terminal!Clients, Terminal!Idle,
     Preemptive, Terminal!Preemptive, Terminal!outside, Terminal!threads, Terminal!stream
<1>24. ASSUME NEW f \in Followers, Terminal!FollowerWatchdog(f) PROVE QueuesFit'
  <2>1. "closing" \in Terminal!Kinds
    BY DEF Terminal!Kinds
  <2>2. \A d \in Followed : \A s, n : Fits(s, queue[d], n) =>
           Fits(s, Terminal!Put(queue, {f}, Terminal!Control("closing"))[d], n)
    BY <2>1, PutControl DEF Followed, Terminal!Clients
  <2> QED
    BY <1>24, <2>2 DEF QueuesFit, Followed, Broadcast, Terminal!FollowerWatchdog,
       SessionTyped, Terminal!Clients, Terminal!Idle,
       Preemptive, Terminal!Preemptive, Terminal!outside, Terminal!threads, Terminal!stream
<1>25. ASSUME NEW c \in Terminal!Clients, Terminal!ClientCloses(c) PROVE QueuesFit'
  BY <1>25 DEF QueuesFit, Followed, Broadcast, Terminal!ClientCloses, SessionTyped,
     Terminal!Clients, Terminal!Idle,
     Preemptive, Terminal!Preemptive, Terminal!outside, Terminal!threads, Terminal!stream
<1>26. ASSUME NEW c \in Terminal!Clients, Terminal!Revoke(c) PROVE QueuesFit'
  BY <1>26 DEF QueuesFit, Followed, Broadcast, Terminal!Revoke, SessionTyped,
     Terminal!Clients, Terminal!Idle,
     Preemptive, Terminal!Preemptive, Terminal!outside, Terminal!threads, Terminal!stream
<1> QED
  BY <1>1, <1>2, <1>3, <1>4, <1>5, <1>6, <1>7, <1>8, <1>9, <1>10, <1>11, <1>12, <1>13,
     <1>14, <1>15, <1>16, <1>17, <1>18, <1>19, <1>20, <1>21, <1>22, <1>23, <1>24, <1>25, <1>26
     DEF Terminal!Next, Terminal!GeventNext, Terminal!ThreadNext, Terminal!Follower

\* Every step keeps EndSound.
LEMMA EndKept ==
    ASSUME SessionTyped, queue \in Queues, seen \in [Terminal!Clients -> Terminal!View],
           CastingSound, BeforeStart, EndSound, Terminal!Next
    PROVE  EndSound'
<1> USE TerminalAssumption
<1>1. CASE Terminal!PrimaryConnect
  BY <1>1 DEF EndSound, BeforeStart, Terminal!PrimaryConnect, SessionTyped,
     Terminal!Clients, Terminal!EndAnnounced,
     Preemptive, Terminal!Preemptive, Terminal!outside, Terminal!threads, Terminal!stream
<1>2. CASE Terminal!PrimarySubscribe
  BY <1>2 DEF EndSound, BeforeStart, CastingSound, Terminal!Idle,
     Terminal!PrimarySubscribe, SessionTyped, Terminal!Clients, Terminal!EndAnnounced,
     Preemptive, Terminal!Preemptive, Terminal!outside, Terminal!threads, Terminal!stream
<1>3. CASE Terminal!PrimaryStart
  BY <1>3 DEF EndSound, Terminal!PrimaryStart, SessionTyped, Terminal!Clients,
     Terminal!EndAnnounced,
     Preemptive, Terminal!Preemptive, Terminal!outside, Terminal!threads, Terminal!stream
<1>4. CASE Terminal!PrimaryLoopEnds
  BY <1>4 DEF EndSound, Terminal!PrimaryLoopEnds, SessionTyped, Terminal!Clients,
     Terminal!EndAnnounced,
     Preemptive, Terminal!Preemptive, Terminal!outside, Terminal!threads, Terminal!stream
<1>5. CASE Terminal!PrimaryCleanUp
  <2>1. "stop" \in Terminal!Kinds
    BY DEF Terminal!Kinds
  <2>2. \A d \in Terminal!Clients : \A s : Terminal!Told(s, queue[d]) =>
           Terminal!Told(s, Terminal!Put(queue, {"primary"}, Terminal!Control("stop"))[d])
    BY <2>1, PutControl
  <2> QED
    BY <1>5, <2>2 DEF EndSound, Terminal!PrimaryCleanUp, SessionTyped, Terminal!Clients,
       Terminal!EndAnnounced,
       Preemptive, Terminal!Preemptive, Terminal!outside, Terminal!threads, Terminal!stream
<1>6. CASE Terminal!PrimaryClose
  BY <1>6 DEF EndSound, Terminal!PrimaryClose, SessionTyped, Terminal!Clients,
     Terminal!EndAnnounced,
     Preemptive, Terminal!Preemptive, Terminal!outside, Terminal!threads, Terminal!stream
<1>7. CASE Terminal!ReadAppend
  BY <1>7 DEF EndSound, Terminal!ReadAppend, SessionTyped, Terminal!Clients,
     Terminal!EndAnnounced,
     Preemptive, Terminal!Preemptive, Terminal!outside, Terminal!threads, Terminal!stream
<1>8. CASE Terminal!ReadTargets
  BY <1>8 DEF EndSound, CastingSound, Terminal!Idle, Terminal!ReadTargets, SessionTyped,
     Terminal!Clients, Terminal!EndAnnounced,
     Preemptive, Terminal!Preemptive, Terminal!outside, Terminal!threads, Terminal!stream
<1>9. CASE Terminal!ReadPut
  BY <1>9 DEF EndSound, CastingSound, Terminal!Idle, Terminal!ReadPut, SessionTyped,
     Terminal!Clients, Terminal!EndAnnounced,
     Preemptive, Terminal!Preemptive, Terminal!outside, Terminal!threads, Terminal!stream
<1>10. CASE Terminal!ReadOutput
  BY <1>10 DEF EndSound, Terminal!ReadOutput, SessionTyped, Terminal!Clients,
     Terminal!EndAnnounced,
     Preemptive, Terminal!Preemptive, Terminal!outside, Terminal!threads, Terminal!stream
<1>11. CASE Terminal!ShellExits
  BY <1>11 DEF EndSound, Terminal!ShellExits, SessionTyped, Terminal!Clients,
     Terminal!EndAnnounced,
     Preemptive, Terminal!Preemptive, Terminal!outside, Terminal!threads, Terminal!stream
<1>12. CASE Terminal!ReaderEnds
  <2>1. "disconnected" \in Terminal!Kinds
    BY DEF Terminal!Kinds
  <2>2. \A d \in Terminal!Clients : d \in subs /\ Len(queue[d]) < QueueSize =>
           \A s : Terminal!Told(s, Terminal!Put(queue, subs, Terminal!Control("disconnected"))[d])
    BY <2>1, PutControl
  <2>3. \A d \in Terminal!Clients : Len(queue[d]) \in Nat
    BY DEF Queues
  <2>4. ASSUME NEW d \in (subs' \cap ws') \ lost' PROVE Terminal!Told(seen'[d], queue'[d])
    <3>1. d \in subs /\ d \in Terminal!Clients /\ d \notin Terminal!Dropping(queue, subs)
      BY <1>12, <2>4 DEF SessionTyped, Terminal!ReaderEnds
    <3>2. Len(queue[d]) < QueueSize
      BY <2>3, <3>1 DEF Terminal!Dropping
    <3> QED
      BY <1>12, <2>2, <3>1, <3>2 DEF Terminal!ReaderEnds
  <2> QED
    BY <1>12, <2>4 DEF EndSound, Terminal!ReaderEnds, SessionTyped, Terminal!Clients,
       Terminal!EndAnnounced,
       Preemptive, Terminal!Preemptive, Terminal!outside, Terminal!threads, Terminal!stream
<1>13. CASE Terminal!ReaderRemoves
  BY <1>13 DEF EndSound, Terminal!ReaderRemoves, SessionTyped, Terminal!Clients,
     Terminal!EndAnnounced,
     Preemptive, Terminal!Preemptive, Terminal!outside, Terminal!threads, Terminal!stream
<1>14. ASSUME NEW f \in Followers, Terminal!FollowerFinds(f) PROVE EndSound'
  BY <1>14 DEF EndSound, Terminal!FollowerFinds, SessionTyped, Terminal!Clients,
     Terminal!EndAnnounced,
     Preemptive, Terminal!Preemptive, Terminal!outside, Terminal!threads, Terminal!stream
<1>15. ASSUME NEW f \in Followers, Terminal!FollowerSnapshots(f) PROVE EndSound'
  BY <1>15 DEF EndSound, CastingSound, Terminal!Idle, Terminal!FollowerSnapshots,
     SessionTyped, Terminal!Clients, Terminal!EndAnnounced,
     Preemptive, Terminal!Preemptive, Terminal!outside, Terminal!threads, Terminal!stream
<1>16. ASSUME NEW f \in Followers, Terminal!FollowerRegisters(f) PROVE EndSound'
  BY <1>16 DEF EndSound, CastingSound, Terminal!Idle, Terminal!FollowerRegisters,
     SessionTyped, Terminal!Clients, Terminal!EndAnnounced,
     Preemptive, Terminal!Preemptive, Terminal!outside, Terminal!threads, Terminal!stream
<1>17. ASSUME NEW f \in Followers, Terminal!FollowerGreeted(f) PROVE EndSound'
  <2>1. "connected" \in Terminal!Kinds
    BY DEF Terminal!Kinds
  <2>2. \A d \in Terminal!Clients : \A s : Terminal!Told(s, queue[d]) =>
           Terminal!Told(s, Terminal!Put(queue, {f}, Terminal!Control("connected"))[d])
    BY <2>1, PutControl
  <2> QED
    BY <1>17, <2>2 DEF EndSound, Terminal!FollowerGreeted, SessionTyped, Terminal!Clients,
       Terminal!EndAnnounced,
       Preemptive, Terminal!Preemptive, Terminal!outside, Terminal!threads, Terminal!stream
<1>18. ASSUME NEW f \in Followers, Terminal!FollowerJoins(f) PROVE EndSound'
  BY <1>18 DEF EndSound, Terminal!FollowerJoins, SessionTyped, Terminal!Clients,
     Terminal!EndAnnounced,
     Preemptive, Terminal!Preemptive, Terminal!outside, Terminal!threads, Terminal!stream
<1>19. ASSUME NEW f \in Followers, Terminal!FollowerLoopEnds(f) PROVE EndSound'
  BY <1>19 DEF EndSound, Terminal!FollowerLoopEnds, SessionTyped, Terminal!Clients,
     Terminal!EndAnnounced,
     Preemptive, Terminal!Preemptive, Terminal!outside, Terminal!threads, Terminal!stream
<1>20. ASSUME NEW f \in Followers, Terminal!FollowerCleanUp(f) PROVE EndSound'
  <2>1. "stop" \in Terminal!Kinds
    BY DEF Terminal!Kinds
  <2>2. \A d \in Terminal!Clients : \A s : Terminal!Told(s, queue[d]) =>
           Terminal!Told(s, Terminal!Put(queue, {f}, Terminal!Control("stop"))[d])
    BY <2>1, PutControl
  <2> QED
    BY <1>20, <2>2 DEF EndSound, Terminal!FollowerCleanUp, SessionTyped, Terminal!Clients,
       Terminal!EndAnnounced,
       Preemptive, Terminal!Preemptive, Terminal!outside, Terminal!threads, Terminal!stream
<1>21. ASSUME NEW c \in Terminal!Clients, Terminal!SenderTurn(c) PROVE EndSound'
  <2> SUFFICES ASSUME ~Preemptive', reader' = "ended", NEW d \in (subs' \cap ws') \ lost'
               PROVE  Terminal!Told(seen'[d], queue'[d])
    BY <1>21 DEF EndSound, Terminal!EndAnnounced, Terminal!SenderTurn, Terminal!outside,
       Preemptive
  <2>1. /\ d \in (subs \cap ws) \ lost /\ d \in Terminal!Clients
        /\ queue[c] # <<>> /\ queue' = [queue EXCEPT ![c] = Tail(queue[c])]
    BY <1>21 DEF Terminal!SenderTurn, SessionTyped
  <2>2. Terminal!Told(seen[d], queue[d])
    BY <1>21, <2>1 DEF EndSound, Terminal!EndAnnounced, Terminal!SenderTurn,
       Terminal!outside, Preemptive
  <2>3. CASE d # c
    BY <1>21, <2>1, <2>2, <2>3 DEF Terminal!SenderTurn, Queues
  <2>4. CASE d = c
    <3>1. queue[c] \in Seq(Terminal!Message) /\ seen[c] \in Terminal!View
      BY DEF Queues
    <3>2. \/ seen'[c] = Terminal!Received(seen[c], Head(queue[c]))
          \/ seen'[c] = seen[c] /\ Head(queue[c]).kind = "stop"
      BY <1>21, <2>1, <2>4 DEF Terminal!SenderTurn
    <3>3. Terminal!Told(seen'[c], Tail(queue[c]))
      BY <2>1, <2>2, <2>4, <3>1, <3>2, TurnKeeps
    <3> QED
      BY <2>1, <2>4, <3>3 DEF Queues
  <2> QED
    BY <2>3, <2>4
<1>22. CASE Terminal!WatchdogFires
  <2>1. "closing" \in Terminal!Kinds
    BY DEF Terminal!Kinds
  <2>2. \A d \in Terminal!Clients : \A s : Terminal!Told(s, queue[d]) =>
           Terminal!Told(s, Terminal!Put(queue, subs, Terminal!Control("closing"))[d])
    BY <2>1, PutControl
  <2> QED
    BY <1>22, <2>2 DEF EndSound, Terminal!WatchdogFires, SessionTyped, Terminal!Clients,
       Terminal!EndAnnounced,
       Preemptive, Terminal!Preemptive, Terminal!outside, Terminal!threads, Terminal!stream
<1>23. CASE Terminal!WatchdogEnds
  BY <1>23 DEF EndSound, Terminal!WatchdogEnds, SessionTyped, Terminal!Clients,
     Terminal!EndAnnounced,
     Preemptive, Terminal!Preemptive, Terminal!outside, Terminal!threads, Terminal!stream
<1>24. ASSUME NEW f \in Followers, Terminal!FollowerWatchdog(f) PROVE EndSound'
  <2>1. "closing" \in Terminal!Kinds
    BY DEF Terminal!Kinds
  <2>2. \A d \in Terminal!Clients : \A s : Terminal!Told(s, queue[d]) =>
           Terminal!Told(s, Terminal!Put(queue, {f}, Terminal!Control("closing"))[d])
    BY <2>1, PutControl
  <2> QED
    BY <1>24, <2>2 DEF EndSound, Terminal!FollowerWatchdog, SessionTyped, Terminal!Clients,
       Terminal!EndAnnounced,
       Preemptive, Terminal!Preemptive, Terminal!outside, Terminal!threads, Terminal!stream
<1>25. ASSUME NEW c \in Terminal!Clients, Terminal!ClientCloses(c) PROVE EndSound'
  BY <1>25 DEF EndSound, Terminal!ClientCloses, SessionTyped, Terminal!Clients,
     Terminal!EndAnnounced,
     Preemptive, Terminal!Preemptive, Terminal!outside, Terminal!threads, Terminal!stream
<1>26. ASSUME NEW c \in Terminal!Clients, Terminal!Revoke(c) PROVE EndSound'
  BY <1>26 DEF EndSound, Terminal!Revoke, SessionTyped, Terminal!Clients, Terminal!EndAnnounced,
     Preemptive, Terminal!Preemptive, Terminal!outside, Terminal!threads, Terminal!stream
<1> QED
  BY <1>1, <1>2, <1>3, <1>4, <1>5, <1>6, <1>7, <1>8, <1>9, <1>10, <1>11, <1>12, <1>13,
     <1>14, <1>15, <1>16, <1>17, <1>18, <1>19, <1>20, <1>21, <1>22, <1>23, <1>24, <1>25, <1>26
     DEF Terminal!Next, Terminal!GeventNext, Terminal!ThreadNext, Terminal!Follower

LEMMA InitStream == Terminal!Init => StreamInv
<1> SUFFICES ASSUME Terminal!Init PROVE StreamInv
  OBVIOUS
<1> USE TerminalAssumption
<1>1. SessionTyped
  <2>1. stage \in [Terminal!Clients -> Terminal!Stages]
    BY DEF Terminal!Init, Terminal!Stages
  <2>2. casting \in [step : {"none", "append", "put"}, to : SUBSET Terminal!Clients]
    BY DEF Terminal!Init, Terminal!Idle
  <2>3. buffered \in 0..MaxChunks
    BY DEF Terminal!Init
  <2> QED
    BY <2>1, <2>2, <2>3 DEF Terminal!Init, SessionTyped
<1>2. queue \in Queues /\ seen \in [Terminal!Clients -> Terminal!View]
  BY NothingType DEF Terminal!Init, Queues
<1>3. Terminal!TypeOK
  BY <1>1, <1>2, SessionTypeParts
<1>4. CastingSound
  BY DEF Terminal!Init, CastingSound, Terminal!Clients, Terminal!Idle
<1>5. BeforeStart
  BY DEF Terminal!Init, BeforeStart, Followed, Terminal!Clients
<1>6. QueuesFit /\ EndSound
  BY DEF Terminal!Init, QueuesFit, EndSound
<1> QED
  BY <1>3, <1>4, <1>5, <1>6 DEF StreamInv

LEMMA NextStream == StreamInv /\ [Terminal!Next]_Terminal!vars => StreamInv'
<1> SUFFICES ASSUME StreamInv, [Terminal!Next]_Terminal!vars PROVE StreamInv'
  OBVIOUS
<1>1. CASE Terminal!Next
  <2>1. SessionTyped /\ queue \in Queues /\ seen \in [Terminal!Clients -> Terminal!View]
    BY SessionTypeParts DEF StreamInv
  <2>2. CastingSound /\ BeforeStart /\ QueuesFit /\ EndSound
    BY DEF StreamInv
  <2>3. SessionTyped'
    BY <1>1, <2>1, TypedKept
  <2>4. queue' \in Queues /\ seen' \in [Terminal!Clients -> Terminal!View]
    BY <1>1, <2>1, QueuesKept
  <2>5. Terminal!TypeOK'
    BY <2>3, <2>4 DEF Terminal!TypeOK, SessionTyped, Queues
  <2>6. CastingSound' /\ BeforeStart'
    BY <1>1, <2>1, <2>2, CastingKept, StartKept
  <2>7. QueuesFit' /\ EndSound'
    BY <1>1, <2>1, <2>2, FitKept, EndKept
  <2> QED
    BY <2>5, <2>6, <2>7 DEF StreamInv
<1>2. CASE UNCHANGED Terminal!vars
  <2>1. /\ UNCHANGED <<worker, stage, ws, registered, channel, reader, watch, buffered>>
        /\ UNCHANGED <<casting, subs, queue, sender, seen, lost, revoked>>
    BY <1>2 DEF Terminal!vars
  <2>2. Terminal!TypeOK'
    BY <2>1 DEF StreamInv, Terminal!TypeOK
  <2>3. CastingSound' /\ BeforeStart'
    BY <2>1 DEF StreamInv, CastingSound, BeforeStart, Followed, Preemptive
  <2>4. QueuesFit' /\ EndSound'
    BY <2>1 DEF StreamInv, QueuesFit, EndSound, Terminal!EndAnnounced, Followed, Broadcast,
       Preemptive
  <2> QED
    BY <2>2, <2>3, <2>4 DEF StreamInv
<1> QED
  BY <1>1, <1>2

LEMMA StreamInvSound == StreamInv => StreamSound
<1> SUFFICES ASSUME StreamInv PROVE StreamSound
  OBVIOUS
<1>1. ASSUME NEW c \in Followed PROVE Terminal!SeesAll(c)
  BY <1>1 DEF StreamInv, QueuesFit, Fits, Broadcast, Terminal!SeesAll
<1>2. Terminal!OperatorSeesAll
  <2>1. "primary" \in Followed
    BY DEF Followed, Terminal!Clients
  <2> QED
    BY <1>1, <2>1 DEF Terminal!OperatorSeesAll
<1>3. ~Preemptive => Terminal!StreamContiguous
  <2> SUFFICES ASSUME ~Preemptive PROVE Terminal!StreamContiguous
    OBVIOUS
  <2>1. Followed = Terminal!Clients
    BY DEF Followed
  <2> QED
    BY <1>1, <2>1 DEF Terminal!StreamContiguous
<1>4. ~Preemptive => Terminal!EndAnnounced
  BY DEF StreamInv, EndSound, Terminal!EndAnnounced
<1> QED
  BY <1>2, <1>3, <1>4 DEF StreamInv, StreamSound

\* A terminal's queues stay within their bound; whatever joins, leaves, prints,
\* overflows or ends, the operator sees consecutive output with greenlets and
\* with threads, and with greenlets so does every follower, and everyone
\* connected hears of the end: for any followers, history and queue sizes
\* (add_subscriber, broadcast_output, send_control).
THEOREM StreamSoundHolds == Terminal!Spec => []StreamSound
<1>1. Terminal!Spec => []StreamInv
  BY InitStream, NextStream, PTL DEF Terminal!Spec
<1> QED
  BY <1>1, StreamInvSound, PTL
=============================================================================
