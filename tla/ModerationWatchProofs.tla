----------------------- MODULE ModerationWatchProofs -----------------------
(***************************************************************************)
(* Proofs about ModerationWatch, for any accounts, pages, batches, bounds  *)
(* and whatever was posted, watched or polled before: its inductive        *)
(* invariant, that nothing is told twice (MessagesOnce), and that the      *)
(* cursors pass nothing over (NothingPassedOver).                          *)
(***************************************************************************)
EXTENDS ModerationWatch, FiniteSetTheorems, TLAPS

----------------------------------------------------------------------------
\* Sequences and keys.

\* A list is its head and the rest.
LEMMA HeadAndTail ==
    ASSUME NEW S, NEW s \in Seq(S), s # <<>>
    PROVE  /\ Head(s) \in S /\ Tail(s) \in Seq(S) /\ Len(s) \in Nat \ {0}
           /\ Len(s) = 1 => Tail(s) = <<>>
           /\ Len(s) # 1 => Tail(s) # <<>>
           /\ Head(s) \in {s[i] : i \in DOMAIN s}
           /\ \A x \in {s[i] : i \in DOMAIN s} :
                 x = Head(s) \/ x \in {Tail(s)[i] : i \in DOMAIN Tail(s)}
           /\ \A x \in {Tail(s)[i] : i \in DOMAIN Tail(s)} : x \in {s[i] : i \in DOMAIN s}
<1>1. Len(s) \in Nat \ {0} /\ DOMAIN s = 1..Len(s) /\ s[1] \in S /\ Head(s) = s[1]
  OBVIOUS
<1>2. Tail(s) \in Seq(S) /\ Len(Tail(s)) = Len(s) - 1 /\ DOMAIN Tail(s) = 1..(Len(s) - 1)
      /\ \A i \in 1..(Len(s) - 1) : Tail(s)[i] = s[i + 1]
  BY <1>1
<1>3. Len(s) = 1 => Tail(s) = <<>>
  BY <1>2
<1>4. Len(s) # 1 => Tail(s) # <<>>
  <2>1. Len(s) # 1 => Len(Tail(s)) # 0
    BY <1>1, <1>2
  <2> QED
    BY <2>1, <1>2
<1>5. ASSUME NEW i \in DOMAIN s
      PROVE  s[i] = Head(s) \/ s[i] \in {Tail(s)[j] : j \in DOMAIN Tail(s)}
  <2>1. CASE i = 1
    BY <2>1, <1>1
  <2>2. CASE i # 1
    <3>1. i - 1 \in DOMAIN Tail(s) /\ Tail(s)[i - 1] = s[i]
      BY <2>2, <1>1, <1>2
    <3> QED
      BY <3>1
  <2> QED
    BY <2>1, <2>2
<1>6. ASSUME NEW i \in DOMAIN Tail(s)
      PROVE  Tail(s)[i] \in {s[j] : j \in DOMAIN s}
  <2>1. i + 1 \in DOMAIN s /\ s[i + 1] = Tail(s)[i]
    BY <1>1, <1>2
  <2> QED
    BY <2>1
<1> QED
  BY <1>1, <1>2, <1>3, <1>4, <1>5, <1>6, SMTT(30)

\* An interval with a later start is part of one with an earlier.
LEMMA LaterStart ==
    \A x, y, c \in Nat : x <= y => \A i \in y + 1 .. c : i \in x + 1 .. c
  OBVIOUS

LEMMA NothingAfter == \A x \in Nat : x + 1 .. 0 = {}
  OBVIOUS

\* A page of the places up to the last one, from the first one that fits.
LEMMA PageOf ==
    \A m \in Nat : \A last \in 0..m : \A first \in 0..last : \A seen \in 0..first :
        /\ last - first \in Nat
        /\ \A i \in 1..last - first : first + i \in 1..m /\ first + i \in first + 1 .. last
        /\ \A i \in first + 1 .. last : i - first \in 1..last - first /\ first + (i - first) = i
        /\ \A i \in seen + 1 .. first : i \in 1..m
  OBVIOUS

\* The parts of a key.
LEMMA KeyParts ==
    /\ \A k \in AlertKeys :
          /\ k[1] \in {"watched_post", "new_account", "silent_login"} /\ k[2] \in Accounts
          /\ k[1] = "watched_post" => k[3] \in 1..MaxPosts /\ k = PostKey(k[2], k[3])
          /\ k[1] = "new_account" => k = NewKey(k[2])
          /\ k[1] = "silent_login" => k = SilentKey(k[2])
    /\ \A a \in Accounts :
          /\ \A n \in 1..MaxPosts :
                /\ PostKey(a, n) \in AlertKeys
                /\ PostKey(a, n)[1] = "watched_post" /\ PostKey(a, n)[2] = a /\ PostKey(a, n)[3] = n
          /\ NewKey(a) \in AlertKeys /\ NewKey(a)[1] = "new_account" /\ NewKey(a)[2] = a
          /\ SilentKey(a) \in AlertKeys /\ SilentKey(a)[1] = "silent_login" /\ SilentKey(a)[2] = a
  BY DEF AlertKeys, PostKey, NewKey, SilentKey

LEMMA KeyKinds == \A a, n : PostKey(a, n)[1] = "watched_post" /\ NewKey(a)[1] = "new_account"
  BY DEF PostKey, NewKey

\* What a poll has in its hands is the same, but for what was done; it is all
\* the same; and the poll does not move.
LessToDo(q) ==
    /\ poll'[q].batch = poll[q].batch /\ poll'[q].seen = poll[q].seen
    /\ poll'[q].newest = poll[q].newest /\ poll'[q].missed = poll[q].missed
    /\ poll'[q].fresh = poll[q].fresh
    /\ Todo(q)' \subseteq Todo(q) /\ Todo(q) \subseteq raised' \cup Todo(q)'
SameHand(q) ==
    /\ poll'[q].batch = poll[q].batch /\ poll'[q].seen = poll[q].seen
    /\ poll'[q].todo = poll[q].todo /\ poll'[q].newest = poll[q].newest
    /\ poll'[q].missed = poll[q].missed /\ poll'[q].fresh = poll[q].fresh
Same(q) ==
    /\ SameHand(q)
    /\ poll'[q].pc = poll[q].pc /\ poll'[q].sent = poll[q].sent /\ poll'[q].found = poll[q].found

\* What every step but the pruning of posts and sign-ups does to what the polls
\* share: it grows, silent logins apart, and a row keeps its past or has none.
Grows ==
    /\ \A k \in Pruned' : k \in Pruned
    /\ \A k \in raised : k \in raised' \/ k[1] = "silent_login"
    /\ \A a \in Accounts : posts[a] <= posts'[a]
    /\ DOMAIN signups \subseteq DOMAIN signups' /\ Len(signups) <= Len(signups')
    /\ \A i \in DOMAIN signups : signups'[i] = signups[i]
    /\ gone \subseteq gone' /\ overlooked \subseteq overlooked' /\ bootstrapped <= bootstrapped'
    /\ \A a \in Watched' :
          \/ watch'[a].since = posts[a]
          \/ a \in Watched /\ watch'[a].since = watch[a].since /\ watch[a].missed \subseteq watch'[a].missed

Local(q) == Staged(q) /\ Sighted(q) /\ Announced(q) /\ Unpruned(q)

\* What a poll has in its hands stays covered and unpruned.
LEMMA HandKept ==
    ASSUME TypeOK, TypeOK', Grows, NEW q \in Pollers, LessToDo(q), Local(q)
    PROVE  Sighted(q)' /\ Announced(q)' /\ Unpruned(q)'
<1>1. At(q)' = At(q) /\ poll[q] \in Polls /\ poll'[q] \in Polls
  BY DEF LessToDo, At, TypeOK
<1>2. poll[q].batch \in Seq(Accounts) /\ poll[q].seen \in Nat /\ poll[q].newest \in Nat
      /\ poll[q].todo \in Seq(AlertKeys)
  <2>1. poll[q].batch \in Seq(Accounts) /\ poll[q].seen \in 0..MaxPosts /\ poll[q].newest \in Nat
        /\ poll[q].todo \in Seq(AlertKeys)
    BY <1>1 DEF Polls
  <2> QED
    BY <2>1
<1>3. poll[q].batch # <<>> => At(q) \in Accounts
  BY <1>2, HeadAndTail DEF At
<1>4. \A a \in Accounts : posts[a] \in Nat /\ posts'[a] \in Nat /\ posts[a] <= posts'[a]
  BY DEF Grows, TypeOK
<1>5. Sighted(q)'
  <2>1. poll[q].batch # <<>> => poll[q].seen <= posts'[At(q)] /\ poll[q].newest <= posts'[At(q)]
    BY <1>2, <1>3, <1>4 DEF Local, Sighted
  <2>2. poll[q].batch = <<>> => poll[q].newest <= Len(signups')
    BY <1>2 DEF Local, Sighted, Grows, TypeOK
  <2>3. ASSUME poll[q].batch # <<>>, At(q) \in Watched'
        PROVE  /\ \A n \in watch'[At(q)].since + 1 .. poll[q].seen :
                     PostKey(At(q), n) \in raised' \/ n \in watch'[At(q)].missed
               /\ \A n \in watch'[At(q)].since + 1 .. poll[q].newest :
                     \/ PostKey(At(q), n) \in raised' \cup Todo(q)'
                     \/ n \in watch'[At(q)].missed \cup poll[q].missed
    <3>1. poll[q].seen <= posts[At(q)] /\ poll[q].newest <= posts[At(q)] /\ posts[At(q)] \in Nat
      BY <2>3, <1>3, <1>4 DEF Local, Sighted
    <3>2. CASE watch'[At(q)].since = posts[At(q)]
      BY <3>1, <3>2, <1>2
    <3>3. CASE /\ At(q) \in Watched /\ watch'[At(q)].since = watch[At(q)].since
               /\ watch[At(q)].missed \subseteq watch'[At(q)].missed
      BY <2>3, <3>3, KeyKinds DEF Local, Sighted, Grows, LessToDo
    <3> QED
      BY <2>3, <3>2, <3>3 DEF Grows
  <2> QED
    BY <1>1, <2>1, <2>2, <2>3 DEF Sighted, LessToDo
<1>6. Announced(q)'
  <2> SUFFICES ASSUME poll[q].fresh # <<>>, NEW i \in bootstrapped' + 1 .. poll[q].newest
               PROVE  \/ NewKey(signups'[i]) \in raised' \cup Todo(q)'
                      \/ signups'[i] \in overlooked' \cup gone'
    BY <1>1 DEF Announced, LessToDo
  <2>1. i \in bootstrapped + 1 .. poll[q].newest
    BY <1>2 DEF Grows, TypeOK
  <2>2. poll[q].batch = <<>>
    BY DEF Local, Staged
  <2>3. i \in DOMAIN signups
    BY <2>1, <2>2, <1>2, SMTT(30) DEF Local, Sighted, TypeOK
  <2> QED
    BY <2>1, <2>3, KeyKinds DEF Local, Announced, Grows, LessToDo
<1>7. Unpruned(q)'
  <2> SUFFICES ASSUME NEW k \in Pruned'
               PROVE  /\ k \notin Todo(q)'
                      /\ k[1] = "watched_post" /\ poll[q].batch # <<>> /\ k[2] = At(q) =>
                            /\ poll[q].seen = 0 \/ k[3] <= poll[q].seen
                            /\ poll[q].newest = 0 \/ k[3] <= poll[q].newest
                      /\ k[1] = "new_account" /\ poll[q].batch = <<>> /\ poll[q].newest # 0 =>
                            \E i \in 1..poll[q].newest : signups'[i] = k[2]
    BY <1>1 DEF Unpruned, LessToDo
  <2>1. k \in Pruned
    BY DEF Grows
  <2>2. ASSUME k[1] = "new_account", poll[q].batch = <<>>, poll[q].newest # 0
        PROVE  \E i \in 1..poll[q].newest : signups'[i] = k[2]
    <3>1. PICK i \in 1..poll[q].newest : signups[i] = k[2]
      BY <2>1, <2>2 DEF Local, Unpruned
    <3>2. i \in DOMAIN signups
      BY <2>2, <1>2 DEF Local, Sighted, TypeOK
    <3> QED
      BY <3>1, <3>2 DEF Grows
  <2> QED
    BY <2>1, <2>2 DEF Local, Unpruned, LessToDo
<1> QED
  BY <1>5, <1>6, <1>7

LEMMA SameIsLess == ASSUME NEW q \in Pollers, SameHand(q) PROVE LessToDo(q)
  BY DEF SameHand, LessToDo, Todo

\* A poll that does not move keeps what it is about.
LEMMA LocalKept ==
    ASSUME TypeOK, TypeOK', Grows, NEW q \in Pollers, Same(q), Local(q)
    PROVE  Local(q)'
<1>1. /\ Todo(q)' = Todo(q) /\ At(q)' = At(q)
      /\ poll[q] \in Polls /\ poll'[q] \in Polls
  BY DEF Same, SameHand, Todo, At, TypeOK
<1>2. poll[q].batch \in Seq(Accounts) /\ poll[q].seen \in Nat /\ poll[q].newest \in Nat
      /\ poll[q].todo \in Seq(AlertKeys)
  <2>1. poll[q].batch \in Seq(Accounts) /\ poll[q].seen \in 0..MaxPosts /\ poll[q].newest \in Nat
        /\ poll[q].todo \in Seq(AlertKeys)
    BY <1>1 DEF Polls
  <2> QED
    BY <2>1
<1>3. poll[q].batch # <<>> => At(q) \in Accounts
  BY <1>2, HeadAndTail DEF At
<1>4. \A k \in Todo(q) : k \in AlertKeys
  BY <1>2 DEF Todo
<1>5. \A a \in Accounts : posts[a] \in Nat /\ posts'[a] \in Nat /\ posts[a] <= posts'[a]
  BY DEF Grows, TypeOK
<1>6. Staged(q)'
  <2>1. \A k \in Todo(q) : k[1] = "watched_post" => k[3] \in Nat /\ k[2] \in Accounts
    BY <1>4, KeyParts
  <2>2. \A k \in Todo(q) : k[1] = "watched_post" => k[3] <= posts'[k[2]]
    BY <2>1, <1>5 DEF Local, Staged
  <2> QED
    BY <1>1, <2>2 DEF Same, SameHand, Local, Staged
<1>7. Sighted(q)' /\ Announced(q)' /\ Unpruned(q)'
  BY HandKept, SameIsLess DEF Same
<1> QED
  BY <1>6, <1>7 DEF Local

\* The rows of a step that moves no cursor: kept with what is excused, or new.
Rows ==
    \A a \in Watched' :
        \/ watch'[a].since = posts[a] /\ watch'[a].cursor \in {0, posts[a]}
        \/ /\ a \in Watched /\ watch'[a].since = watch[a].since
           /\ watch'[a].cursor = watch[a].cursor /\ watch[a].missed \subseteq watch'[a].missed

RaisesPosted ==
    \A k \in raised' : k \in raised \/ (k[1] = "watched_post" => k[3] <= posts[k[2]])

\* The cursors that are stored, when none of them moves.
LEMMA CursorsKept ==
    ASSUME IInv, TypeOK', Grows, Rows, settings'.cursor = settings.cursor, RaisesPosted
    PROVE  PostsCovered' /\ SignUpsCovered' /\ PrunedBehind' /\ RaisedPosted'
<1>1. TypeOK /\ PostsCovered /\ SignUpsCovered /\ PrunedBehind /\ RaisedPosted
  BY DEF IInv, NothingPassedOver
<1>2. \A a \in Accounts : posts[a] \in Nat /\ posts'[a] \in Nat /\ posts[a] <= posts'[a]
  BY <1>1 DEF Grows, TypeOK
<1>3. settings.cursor \in Nat /\ settings.cursor <= Len(signups) /\ DOMAIN signups = 1..Len(signups)
      /\ Len(signups) \in Nat
      /\ bootstrapped \in Nat /\ bootstrapped' \in Nat /\ bootstrapped <= bootstrapped'
  BY <1>1 DEF TypeOK, Grows
<1>4. PostsCovered'
  <2> SUFFICES ASSUME NEW a \in Watched', NEW n \in watch'[a].since + 1 .. watch'[a].cursor
               PROVE  PostKey(a, n) \in raised' \/ n \in watch'[a].missed
    BY DEF PostsCovered
  <2>1. a \in Accounts /\ posts[a] \in Nat
    BY <1>2 DEF Watched
  <2>2. ~(watch'[a].since = posts[a] /\ watch'[a].cursor \in {0, posts[a]})
    BY <2>1
  <2>3. /\ a \in Watched /\ watch'[a].since = watch[a].since
        /\ watch'[a].cursor = watch[a].cursor /\ watch[a].missed \subseteq watch'[a].missed
    BY <2>2 DEF Rows
  <2> QED
    BY <2>3, <1>1, KeyKinds DEF PostsCovered, Grows
<1>5. SignUpsCovered'
  <2> SUFFICES ASSUME NEW i \in bootstrapped' + 1 .. settings.cursor
               PROVE  NewKey(signups'[i]) \in raised' \/ signups'[i] \in overlooked' \cup gone'
    BY DEF SignUpsCovered
  <2>1. i \in bootstrapped + 1 .. settings.cursor
    BY <1>3, LaterStart
  <2>2. i \in DOMAIN signups
    BY <2>1, <1>3
  <2> QED
    BY <2>1, <2>2, <1>1, KeyKinds DEF SignUpsCovered, Grows
<1>6. RaisedPosted'
  <2> SUFFICES ASSUME NEW k \in raised', k[1] = "watched_post"
               PROVE  k[3] <= posts'[k[2]]
    BY DEF RaisedPosted
  <2>1. k \in AlertKeys
    BY DEF TypeOK
  <2>2. k[2] \in Accounts /\ k[3] \in Nat
    BY <2>1, KeyParts
  <2>3. k[3] <= posts[k[2]]
    BY <1>1 DEF RaisedPosted, RaisesPosted
  <2> QED
    BY <2>2, <2>3, <1>2
<1>7. PrunedBehind'
  <2> SUFFICES ASSUME NEW k \in Pruned'
               PROVE  /\ k[1] # "silent_login"
                      /\ k[1] = "watched_post" /\ k[2] \in Watched' =>
                            watch'[k[2]].cursor = 0 \/ k[3] <= watch'[k[2]].cursor
                      /\ k[1] = "new_account" => \E i \in 1..settings.cursor : signups'[i] = k[2]
    BY DEF PrunedBehind
  <2>1. k \in Pruned /\ k \in raised
    BY DEF Grows, Pruned
  <2>2. ASSUME k[1] = "watched_post", k[2] \in Watched'
        PROVE  watch'[k[2]].cursor = 0 \/ k[3] <= watch'[k[2]].cursor
    <3>1. k[3] <= posts[k[2]]
      BY <1>1, <2>1, <2>2 DEF RaisedPosted
    <3> QED
      BY <3>1, <2>1, <2>2, <1>1 DEF PrunedBehind, Rows
  <2>3. ASSUME k[1] = "new_account"
        PROVE  \E i \in 1..settings.cursor : signups'[i] = k[2]
    <3>1. PICK i \in 1..settings.cursor : signups[i] = k[2]
      BY <2>1, <2>3, <1>1 DEF PrunedBehind
    <3>2. i \in DOMAIN signups
      BY <1>3
    <3> QED
      BY <3>1, <3>2 DEF Grows
  <2> QED
    BY <2>1, <2>2, <2>3, <1>1 DEF PrunedBehind
<1> QED
  BY <1>4, <1>5, <1>6, <1>7

\* What is about to be told of, in a step that tells of nothing and raises
\* nothing to be told of.
Hushed ==
    /\ told' = told /\ raised \subseteq raised'
    /\ \A q \in Pollers :
          /\ poll'[q].pc = "notify" => poll[q].pc = "notify" /\ poll'[q].todo = poll[q].todo
          /\ \/ poll'[q].found = {}
             \/ poll'[q].found = poll[q].found /\ (poll[q].pc = "finish" => poll'[q].pc = "finish")
LEMMA UntoldKept ==
    ASSUME IInv, Hushed
    PROVE  \A q \in Pollers : Untold(q)'
<1> SUFFICES ASSUME NEW q \in Pollers
             PROVE  Untold(q)'
  OBVIOUS
<1>1. \A r \in Pollers : Untold(r)
  BY DEF IInv
<1>2. \A r \in Pollers : poll'[r].pc = "notify" => poll[r].pc = "notify" /\ Key(r)' = Key(r)
  BY DEF Hushed, Key
<1>3. poll'[q].pc = "notify" => Key(q)' \in raised' \ told'
  BY <1>1, <1>2 DEF Untold, Hushed
<1>4. poll'[q].found \subseteq raised' /\ \A k \in poll'[q].found : k[1] = "silent_login"
  BY <1>1 DEF Untold, Hushed
<1>5. poll'[q].pc # "finish" => poll'[q].found \cap told' = {}
  BY <1>1 DEF Untold, Hushed
<1>6. ASSUME NEW r \in Pollers \ {q}
      PROVE  /\ poll'[q].found \cap poll'[r].found = {}
             /\ poll'[q].pc = "notify" /\ poll'[r].pc = "notify" => Key(q)' # Key(r)'
  <2>1. /\ poll[q].found \cap poll[r].found = {}
        /\ poll[q].pc = "notify" /\ poll[r].pc = "notify" => Key(q) # Key(r)
    BY <1>1 DEF Untold
  <2> QED
    BY <2>1, <1>2 DEF Hushed
<1> QED
  BY <1>3, <1>4, <1>5, <1>6 DEF Untold

\* The welcomes, in a step that sends and records none.
LEMMA WelcomesKept ==
    ASSUME IInv, UNCHANGED bot,
           \A q \in Pollers : poll[q].pc = "record" =>
               poll'[q].pc = "record" /\ poll'[q].fresh = poll[q].fresh
    PROVE  Welcomes'
<1>1. \A a \in Accounts : InHand(a) => InHand(a)'
  BY DEF InHand, bot
<1> QED
  BY <1>1 DEF Welcomes, IInv, bot

\* A step of one poll.
LEMMA Moved ==
    ASSUME IInv, TypeOK', Grows, NEW p \in Pollers, \A q \in Pollers \ {p} : Same(q), Local(p)',
           PostsCovered', SignUpsCovered', PrunedBehind', RaisedPosted', AlertsOnce', Welcomes',
           \A q \in Pollers : Untold(q)'
    PROVE  IInv'
<1>1. TypeOK /\ \A q \in Pollers : Local(q)
  BY DEF IInv, NothingPassedOver, Local
<1>2. \A q \in Pollers : Local(q)'
  BY <1>1, LocalKept
<1> QED
  BY <1>2 DEF IInv, NothingPassedOver, Local

----------------------------------------------------------------------------
\* The steps of the instance, the moderators and the clock: no poll moves.
LEMMA Rested ==
    ASSUME IInv, TypeOK', Grows, Rows, settings'.cursor = settings.cursor, Welcomes',
           UNCHANGED <<poll, raised, told, twice>>
    PROVE  IInv'
<1>1. \A q \in Pollers : Same(q)
  BY DEF Same, SameHand
<1>2. TypeOK /\ \A q \in Pollers : Local(q)
  BY DEF IInv, NothingPassedOver, Local
<1>3. \A q \in Pollers : Local(q)'
  BY <1>1, <1>2, LocalKept
<1>4. PostsCovered' /\ SignUpsCovered' /\ PrunedBehind' /\ RaisedPosted'
  BY CursorsKept DEF RaisesPosted
<1>5. \A q \in Pollers : Untold(q)'
  BY UntoldKept DEF Hushed
<1>6. AlertsOnce'
  BY DEF IInv, AlertsOnce
<1> QED
  BY <1>3, <1>4, <1>5, <1>6 DEF IInv, NothingPassedOver, Local

\* The shared state and the rows, when they stay as they are.
LEMMA Unmoved ==
    ASSUME TypeOK, UNCHANGED <<posts, signups, gone, alerts, raised, overlooked, bootstrapped, watch>>
    PROVE  Grows /\ Rows
<1>1. \A a \in Accounts : posts[a] <= posts'[a]
  BY DEF TypeOK
<1>2. Len(signups) <= Len(signups') /\ bootstrapped <= bootstrapped'
  BY DEF TypeOK
<1>3. Pruned' = Pruned /\ Watched' = Watched
  BY DEF Pruned, Watched
<1> QED
  BY <1>1, <1>2, <1>3 DEF Grows, Rows

LEMMA PostKeeps ==
    ASSUME IInv, NEW a \in Accounts, Post(a)
    PROVE  IInv'
<1>1. TypeOK
  BY DEF IInv, NothingPassedOver
<1>2. /\ posts' \in [Accounts -> 0..MaxPosts] /\ \A b \in Accounts : posts[b] <= posts'[b]
      /\ posts[a] + 1 \in 0..MaxPosts
  BY <1>1, ModerationAssumption, SMTT(30) DEF Post, TypeOK
<1>3. \A b \in Accounts : watch[b].cursor <= posts'[b]
  BY <1>1, <1>2, SMTT(30) DEF TypeOK, WatchRows
<1>4. TypeOK'
  BY <1>1, <1>2, <1>3 DEF TypeOK, Post, bot, history
<1>5. Pruned' = Pruned /\ Watched' = Watched
  BY DEF Pruned, Watched, Post, history
<1>6. Len(signups) <= Len(signups') /\ bootstrapped <= bootstrapped'
  BY <1>1 DEF TypeOK, Post, history
<1>7. Grows /\ Rows
  BY <1>2, <1>5, <1>6 DEF Grows, Rows, Post, history
<1>8. Welcomes'
  BY WelcomesKept DEF Post
<1> QED
  BY <1>4, <1>7, <1>8, Rested DEF Post, history

LEMMA SignUpKeeps ==
    ASSUME IInv, NEW a \in Accounts, SignUp(a)
    PROVE  IInv'
<1>1. TypeOK
  BY DEF IInv, NothingPassedOver
<1>2. /\ signups \in Seq(Accounts) /\ signups' = Append(signups, a) /\ DOMAIN signups = 1..Len(signups)
      /\ \A i, j \in DOMAIN signups : signups[i] = signups[j] => i = j
      /\ \A i \in DOMAIN signups : signups[i] # a
  BY <1>1 DEF TypeOK, SignUp
<1>3. /\ signups' \in Seq(Accounts) /\ Len(signups') = Len(signups) + 1
      /\ DOMAIN signups' = 1..(Len(signups) + 1)
      /\ Len(signups) <= Len(signups') /\ DOMAIN signups \subseteq DOMAIN signups'
      /\ \A i \in DOMAIN signups : signups'[i] = signups[i]
      /\ signups'[Len(signups) + 1] = a
  BY <1>2
<1>4. \A i, j \in DOMAIN signups' : signups'[i] = signups'[j] => i = j
  <2> SUFFICES ASSUME NEW i \in DOMAIN signups', NEW j \in DOMAIN signups', signups'[i] = signups'[j]
               PROVE  i = j
    OBVIOUS
  <2>1. /\ i \in DOMAIN signups \/ i = Len(signups) + 1
        /\ j \in DOMAIN signups \/ j = Len(signups) + 1
    BY <1>2, <1>3
  <2> QED
    BY <2>1, <1>2, <1>3
<1>5. settings.cursor <= Len(signups')
  BY <1>1, <1>2, <1>3 DEF TypeOK
<1>6. TypeOK'
  BY <1>1, <1>3, <1>4, <1>5 DEF TypeOK, SignUp, bot, history
<1>7. Pruned' = Pruned /\ Watched' = Watched
  BY DEF Pruned, Watched, SignUp, history
<1>8. /\ \A b \in Accounts : posts[b] <= posts'[b]
      /\ bootstrapped <= bootstrapped'
  BY <1>1 DEF TypeOK, SignUp, history
<1>9. Grows /\ Rows
  BY <1>3, <1>7, <1>8 DEF Grows, Rows, SignUp, history
<1>10. Welcomes'
  BY WelcomesKept DEF SignUp
<1> QED
  BY <1>6, <1>9, <1>10, Rested DEF SignUp, history

LEMMA DeletedKeeps ==
    ASSUME IInv, NEW a \in Accounts, Deleted(a)
    PROVE  IInv'
<1>1. TypeOK
  BY DEF IInv, NothingPassedOver
<1>2. TypeOK'
  BY <1>1 DEF TypeOK, Deleted, bot, history
<1>3. Pruned' = Pruned /\ Watched' = Watched
  BY DEF Pruned, Watched, Deleted, history
<1>4. /\ \A b \in Accounts : posts[b] <= posts'[b]
      /\ Len(signups) <= Len(signups') /\ bootstrapped <= bootstrapped'
  BY <1>1 DEF TypeOK, Deleted, history
<1>5. Grows /\ Rows
  BY <1>3, <1>4 DEF Grows, Rows, Deleted, history
<1>6. Welcomes'
  BY WelcomesKept DEF Deleted
<1> QED
  BY <1>2, <1>5, <1>6, Rested DEF Deleted, history

LEMMA RowsMoved ==
    ASSUME TypeOK, UNCHANGED <<posts, signups, gone, alerts, raised, overlooked, bootstrapped>>, Rows
    PROVE  Grows
<1>1. \A a \in Accounts : posts[a] <= posts'[a]
  BY DEF TypeOK
<1>2. Len(signups) <= Len(signups') /\ bootstrapped <= bootstrapped'
  BY DEF TypeOK
<1>3. Pruned' = Pruned
  BY DEF Pruned
<1> QED
  BY <1>1, <1>2, <1>3 DEF Grows, Rows

LEMMA AbsentRow == Absent \in WatchRows /\ Absent.expires = "absent" /\ Absent.cursor = 0
  BY ModerationAssumption DEF Absent, NoWatch, WatchRows, None

LEMMA AddKeeps ==
    ASSUME IInv, NEW a \in Accounts, Add(a)
    PROVE  IInv'
<1>1. TypeOK
  BY DEF IInv, NothingPassedOver
<1>2. PICK expires \in {None, "later"} :
          watch' = [watch EXCEPT ![a] = Row(posts[a], expires, posts[a])]
  BY DEF Add
<1>3. /\ Row(posts[a], expires, posts[a]) \in WatchRows
      /\ Row(posts[a], expires, posts[a]).cursor = posts[a]
      /\ Row(posts[a], expires, posts[a]).since = posts[a]
  BY <1>1 DEF Row, WatchRows, TypeOK
<1>4. /\ watch' \in [Accounts -> WatchRows] /\ watch'[a].cursor = posts[a] /\ watch'[a].since = posts[a]
      /\ \A b \in Accounts \ {a} : watch'[b] = watch[b]
  BY <1>1, <1>2, <1>3 DEF TypeOK
<1>5. \A b \in Accounts : watch'[b].cursor <= posts[b]
  <2> SUFFICES ASSUME NEW b \in Accounts
               PROVE  watch'[b].cursor <= posts[b]
    OBVIOUS
  <2>1. posts[b] \in Nat /\ watch[b].cursor <= posts[b]
    BY <1>1 DEF TypeOK
  <2> QED
    BY <2>1, <1>4
<1>6. TypeOK'
  BY <1>1, <1>4, <1>5 DEF TypeOK, Add, Click, mastodon, bot, history
<1>7. Rows
  BY <1>4 DEF Rows, Watched
<1>8. Grows
  BY <1>1, <1>7, RowsMoved DEF Add, mastodon, history
<1>9. Welcomes'
  BY WelcomesKept DEF Add
<1> QED
  BY <1>6, <1>7, <1>8, <1>9, Rested DEF Add, history

\* A row that is dropped.
LEMMA DropsRow ==
    ASSUME TypeOK, NEW a \in Accounts, watch' = [watch EXCEPT ![a] = Absent], UNCHANGED posts
    PROVE  /\ watch' \in [Accounts -> WatchRows] /\ Rows
           /\ \A b \in Accounts : watch'[b].cursor <= posts[b]
<1>1. /\ watch' \in [Accounts -> WatchRows] /\ watch'[a] = Absent
      /\ \A b \in Accounts \ {a} : watch'[b] = watch[b]
  BY AbsentRow DEF TypeOK
<1>2. ASSUME NEW b \in Accounts
      PROVE  watch'[b].cursor <= posts[b]
  <2>1. posts[b] \in Nat /\ watch[b].cursor <= posts[b]
    BY DEF TypeOK
  <2> QED
    BY <2>1, <1>1, AbsentRow
<1>3. \A b \in Watched' : b \in Accounts /\ b # a /\ b \in Watched /\ watch'[b] = watch[b]
  BY <1>1, AbsentRow DEF Watched
<1> QED
  BY <1>1, <1>2, <1>3 DEF Rows

LEMMA RemoveKeeps ==
    ASSUME IInv, NEW a \in Accounts, Remove(a)
    PROVE  IInv'
<1>1. TypeOK
  BY DEF IInv, NothingPassedOver
<1>2. /\ watch' \in [Accounts -> WatchRows] /\ Rows
      /\ \A b \in Accounts : watch'[b].cursor <= posts[b]
  BY <1>1, DropsRow DEF Remove, mastodon
<1>3. TypeOK'
  BY <1>1, <1>2 DEF TypeOK, Remove, Click, mastodon, bot, history
<1>4. Grows
  BY <1>1, <1>2, RowsMoved DEF Remove, mastodon, history
<1>5. Welcomes'
  BY WelcomesKept DEF Remove
<1> QED
  BY <1>2, <1>3, <1>4, <1>5, Rested DEF Remove, history

LEMMA ExpireKeeps ==
    ASSUME IInv, NEW a \in Accounts, Expire(a)
    PROVE  IInv'
<1>1. TypeOK
  BY DEF IInv, NothingPassedOver
<1>2. watch[a] \in WatchRows /\ watch[a].expires = "later"
  BY <1>1 DEF TypeOK, Expire
<1>3. /\ [watch[a] EXCEPT !.expires = "over"] \in WatchRows
      /\ [watch[a] EXCEPT !.expires = "over"].cursor = watch[a].cursor
      /\ [watch[a] EXCEPT !.expires = "over"].since = watch[a].since
      /\ [watch[a] EXCEPT !.expires = "over"].missed = watch[a].missed
  BY <1>2 DEF WatchRows
<1>4. /\ watch' \in [Accounts -> WatchRows] /\ watch'[a].cursor = watch[a].cursor
      /\ watch'[a].since = watch[a].since /\ watch'[a].missed = watch[a].missed
      /\ \A b \in Accounts \ {a} : watch'[b] = watch[b]
  BY <1>1, <1>3 DEF TypeOK, Expire
<1>5. \A b \in Accounts : watch'[b].cursor <= posts[b]
  BY <1>1, <1>4 DEF TypeOK
<1>6. TypeOK'
  BY <1>1, <1>4, <1>5 DEF TypeOK, Expire, mastodon, bot, history
<1>7. Rows
  BY <1>2, <1>4 DEF Rows, Watched
<1>8. Grows
  BY <1>1, <1>7, RowsMoved DEF Expire, mastodon, history
<1>9. Welcomes'
  BY WelcomesKept DEF Expire
<1> QED
  BY <1>6, <1>7, <1>8, <1>9, Rested DEF Expire, history

LEMMA ClockKeeps ==
    ASSUME IInv, SaveSettings \/ BackoffOver \/ DayPasses
    PROVE  IInv'
<1>1. TypeOK
  BY DEF IInv, NothingPassedOver
<1>2. /\ pace' \in [short : 0..2, factor : {1, 2, 4, 6}, interval : {1, 2, 4, 6}]
      /\ settings' \in [cursor : Nat, backoff : {None, "active", "over"}, silentDue : BOOLEAN]
      /\ settings'.cursor = settings.cursor /\ clicks' \in Nat
  <2>1. CASE SaveSettings
    <3>1. pace \in [short : 0..2, factor : {1, 2, 4, 6}, interval : {1, 2, 4, 6}]
      BY <1>1 DEF TypeOK
    <3>2. [pace EXCEPT !.interval = 1] \in [short : 0..2, factor : {1, 2, 4, 6}, interval : {1, 2, 4, 6}]
      BY <3>1
    <3>3. settings' = settings /\ clicks' \in Nat
      BY <2>1, <1>1 DEF TypeOK, SaveSettings, Click
    <3> QED
      BY <2>1, <3>2, <3>3, <1>1 DEF TypeOK, SaveSettings
  <2>2. CASE BackoffOver
    BY <2>2, <1>1 DEF TypeOK, BackoffOver
  <2>3. CASE DayPasses
    BY <2>3, <1>1 DEF TypeOK, DayPasses
  <2> QED
    BY <2>1, <2>2, <2>3
<1>3. UNCHANGED <<mastodon, bot, watch, alerts, poll, history, faults>>
  BY DEF SaveSettings, BackoffOver, DayPasses
<1>4. TypeOK'
  BY <1>1, <1>2, <1>3 DEF TypeOK, mastodon, bot, history
<1>5. Grows /\ Rows
  BY <1>1, <1>3, Unmoved DEF mastodon, history
<1>6. Welcomes'
  BY <1>3, WelcomesKept
<1> QED
  BY <1>2, <1>3, <1>4, <1>5, <1>6, Rested DEF history

\* A message is sent to an account that was not welcomed, or may be again.
LEMMA MessageSent ==
    ASSUME IInv, NEW a \in Accounts, DirectMessage(a), UNCHANGED welcomed,
           \/ again' = again \cup {a}
           \/ again' = again /\ a \notin welcomed /\ InHand(a)',
           \A b \in Accounts : InHand(b) => InHand(b)'
    PROVE  Welcomes'
<1>1. TypeOK /\ Welcomes
  BY DEF IInv, NothingPassedOver
<1>2. dms \in [Accounts -> Nat] /\ dms' = [dms EXCEPT ![a] = IF a \in keys THEN @ ELSE @ + 1]
      /\ keys' = keys \cup {a}
  BY <1>1 DEF TypeOK, DirectMessage
<1> SUFFICES ASSUME NEW b \in Accounts \ again'
             PROVE  /\ dms'[b] <= 1
                    /\ dms'[b] = 1 => b \in welcomed \/ (b \in keys' /\ InHand(b)')
  BY DEF Welcomes
<1>3. b \in Accounts \ again
  OBVIOUS
<1>7. b = a => a \notin welcomed /\ InHand(a)'
  OBVIOUS
<1>4. dms[b] \in Nat /\ dms[b] <= 1 /\ (dms[b] = 1 => b \in welcomed \/ (b \in keys /\ InHand(b)))
  BY <1>1, <1>2, <1>3 DEF Welcomes
<1>5. CASE b # a
  BY <1>2, <1>4, <1>5
<1>6. CASE b = a
  <2>1. a \notin welcomed
    BY <1>6, <1>7
  <2>2. a \notin keys => dms[a] = 0
    BY <2>1, <1>4, <1>6
  <2>3. dms'[a] <= 1
    BY <2>2, <1>2, <1>4, <1>6
  <2> QED
    BY <2>3, <1>2, <1>6, <1>7
<1> QED
  BY <1>5, <1>6

LEMMA SendWelcomeKeeps ==
    ASSUME IInv, NEW a \in Accounts, NEW force \in BOOLEAN, SendWelcome(a, force)
    PROVE  IInv'
<1>1. TypeOK
  BY DEF IInv, NothingPassedOver
<1>2. /\ DirectMessage(a) /\ UNCHANGED welcomed
      /\ again' \in {again, again \cup {a}} /\ sender' \in {sender, a}
      /\ again' = again => sender' = a \/ a \in again
      /\ again' = again => a \notin welcomed \/ a \in again
      /\ sender = None /\ faults' \in Nat /\ clicks' \in Nat
      /\ UNCHANGED <<mastodon, watch, alerts, settings, pace, poll, history>>
  BY <1>1 DEF SendWelcome, Unrecorded, Fault, Click, TypeOK
<1>3. TypeOK'
  <2>1. dms' \in [Accounts -> Nat] /\ keys' \subseteq Accounts
    BY <1>1, <1>2 DEF TypeOK, DirectMessage
  <2> QED
    BY <1>1, <1>2, <2>1 DEF TypeOK, mastodon, history
<1>4. Grows /\ Rows
  BY <1>1, <1>2, Unmoved DEF mastodon, history
<1>5. \A b \in Accounts : InHand(b) => InHand(b)'
  <2>1. \A b \in Accounts : b # None
    BY ModerationAssumption DEF None
  <2> QED
    BY <1>2, <2>1 DEF InHand
<1>6. Welcomes'
  <2>1. again' = again \/ again' = again \cup {a}
    BY <1>2
  <2>2. again' = again /\ a \notin again => a \notin welcomed /\ InHand(a)'
    BY <1>2 DEF InHand
  <2>3. again' = again /\ a \in again => again' = again \cup {a}
    OBVIOUS
  <2> QED
    BY <1>2, <1>5, <2>1, <2>2, <2>3, MessageSent
<1> QED
  BY <1>2, <1>3, <1>4, <1>6, Rested DEF history

LEMMA RecordWelcomeKeeps ==
    ASSUME IInv, RecordWelcome
    PROVE  IInv'
<1>1. TypeOK /\ Welcomes
  BY DEF IInv, NothingPassedOver
<1>2. sender \in Accounts
  BY <1>1 DEF TypeOK, RecordWelcome
<1>3. TypeOK'
  BY <1>1, <1>2 DEF TypeOK, RecordWelcome, Fault, mastodon, history
<1>4. Grows /\ Rows
  BY <1>1, Unmoved DEF RecordWelcome, mastodon, history
<1>5. \A a \in Accounts : InHand(a) => a = sender \/ InHand(a)'
  BY DEF InHand, RecordWelcome
<1>6. Welcomes'
  BY <1>1, <1>5 DEF Welcomes, RecordWelcome
<1> QED
  BY <1>3, <1>4, <1>6, Rested DEF RecordWelcome, history

LEMMA ForgetKeyKeeps ==
    ASSUME IInv, NEW a \in Accounts, ForgetKey(a)
    PROVE  IInv'
<1>1. TypeOK /\ Welcomes
  BY DEF IInv, NothingPassedOver
<1>2. TypeOK'
  BY <1>1 DEF TypeOK, ForgetKey, mastodon, history
<1>3. Grows /\ Rows
  BY <1>1, Unmoved DEF ForgetKey, mastodon, history
<1>4. \A b \in Accounts : ~InHand(b)
  BY ModerationAssumption DEF InHand, ForgetKey, None
<1>5. Welcomes'
  BY <1>1, <1>4 DEF Welcomes, ForgetKey
<1> QED
  BY <1>2, <1>3, <1>5, Rested DEF ForgetKey, history

----------------------------------------------------------------------------
\* The steps of a poll that change nothing but the poll.
LEMMA PollPut ==
    ASSUME TypeOK, NEW p \in Pollers, NEW rec \in Polls, poll' = [poll EXCEPT ![p] = rec]
    PROVE  /\ poll' \in [Pollers -> Polls] /\ poll'[p] = rec
           /\ \A q \in Pollers \ {p} : poll'[q] = poll[q] /\ Same(q)
<1>1. /\ poll' \in [Pollers -> Polls] /\ poll'[p] = rec
      /\ \A q \in Pollers \ {p} : poll'[q] = poll[q]
  BY DEF TypeOK
<1> QED
  BY <1>1 DEF Same, SameHand

\* A poll with nothing in its hands.
LEMMA EmptyHand ==
    ASSUME TypeOK', NEW p \in Pollers, Staged(p)', poll'[p].todo = <<>>, poll'[p].newest = 0,
           poll'[p].batch = <<>> \/ poll'[p].seen = 0
    PROVE  Local(p)'
<1>1. Todo(p)' = {}
  BY DEF Todo
<1>2. /\ poll'[p] \in Polls /\ bootstrapped' \in Nat /\ Len(signups') \in Nat
      /\ \A a \in Accounts : posts'[a] \in Nat /\ watch'[a] \in WatchRows
  BY DEF TypeOK
<1>3. poll'[p].batch \in Seq(Accounts)
  BY <1>2 DEF Polls
<1>4. poll'[p].batch # <<>> => At(p)' \in Accounts
  BY <1>3, HeadAndTail DEF At
<1>5. \A a \in Accounts : watch'[a].since \in Nat
  BY <1>2 DEF WatchRows
<1>6. poll'[p].batch # <<>> => posts'[At(p)'] \in Nat /\ watch'[At(p)'].since \in Nat /\ poll'[p].seen = 0
  BY <1>2, <1>4, <1>5
<1>7. Sighted(p)'
  <2>1. poll'[p].batch # <<>> => 0 <= posts'[At(p)'] /\ watch'[At(p)'].since + 1 .. 0 = {}
    BY <1>6
  <2> QED
    BY <1>2, <1>6, <2>1 DEF Sighted
<1>8. Announced(p)'
  <2>1. bootstrapped' + 1 .. 0 = {}
    BY <1>2, NothingAfter
  <2> QED
    BY <2>1 DEF Announced
<1>9. Unpruned(p)'
  BY <1>1, <1>6 DEF Unpruned
<1> QED
  BY <1>7, <1>8, <1>9 DEF Local

LEMMA TurnTypes ==
    ASSUME IInv, NEW p \in Pollers, NEW rec \in Polls, OnlyPoll(p, rec), faults' \in Nat
    PROVE  /\ TypeOK /\ TypeOK' /\ Grows /\ Rows /\ poll'[p] = rec
           /\ \A q \in Pollers \ {p} : poll'[q] = poll[q] /\ Same(q)
<1>1. TypeOK
  BY DEF IInv, NothingPassedOver
<1>2. /\ poll' \in [Pollers -> Polls] /\ poll'[p] = rec
      /\ \A q \in Pollers \ {p} : poll'[q] = poll[q] /\ Same(q)
  BY <1>1, PollPut DEF OnlyPoll
<1>3. UNCHANGED <<bot, watch, alerts, settings, history, mastodon, pace, clicks>>
  BY DEF OnlyPoll, Quiet
<1>4. TypeOK'
  BY <1>1, <1>2, <1>3 DEF TypeOK, mastodon, bot, history
<1>5. Grows /\ Rows
  BY <1>1, <1>3, Unmoved DEF mastodon, history
<1> QED
  BY <1>1, <1>2, <1>4, <1>5

LEMMA Turned ==
    ASSUME IInv, NEW p \in Pollers, NEW rec \in Polls, OnlyPoll(p, rec), faults' \in Nat,
           Local(p)', rec.pc # "notify", poll[p].pc # "record",
           rec.found = {} \/ (rec.found = poll[p].found /\ poll[p].pc # "finish")
    PROVE  IInv'
<1>1. /\ TypeOK /\ TypeOK' /\ Grows /\ Rows /\ poll'[p] = rec
      /\ \A q \in Pollers \ {p} : poll'[q] = poll[q] /\ Same(q)
  BY TurnTypes
<1>2. UNCHANGED <<bot, settings, told, twice, raised>>
  BY DEF OnlyPoll, history
<1>3. PostsCovered' /\ SignUpsCovered' /\ PrunedBehind' /\ RaisedPosted'
  BY <1>1, <1>2, CursorsKept DEF RaisesPosted
<1>4. Hushed
  BY <1>1, <1>2 DEF Hushed
<1>5. \A q \in Pollers : Untold(q)'
  BY <1>4, UntoldKept
<1>6. Welcomes'
  BY <1>1, <1>2, WelcomesKept
<1>7. AlertsOnce'
  BY <1>2 DEF IInv, AlertsOnce
<1> QED
  BY <1>1, <1>3, <1>5, <1>6, <1>7, Moved

\* A turn that leaves nothing in the poll's hands.
LEMMA TurnedEmpty ==
    ASSUME IInv, NEW p \in Pollers, NEW rec \in Polls, OnlyPoll(p, rec), faults' \in Nat,
           Staged(p)', rec.todo = <<>>, rec.newest = 0, rec.batch = <<>> \/ rec.seen = 0,
           poll[p].pc # "record", rec.pc # "notify",
           rec.found = {} \/ (rec.found = poll[p].found /\ poll[p].pc # "finish")
    PROVE  IInv'
<1>1. TypeOK' /\ poll'[p] = rec
  BY TurnTypes
<1>2. Local(p)'
  BY <1>1, EmptyHand
<1> QED
  BY <1>2, Turned

\* A turn that keeps what is there.
LEMMA TurnedSame ==
    ASSUME IInv, NEW p \in Pollers, NEW rec \in Polls, OnlyPoll(p, rec), faults' \in Nat,
           Staged(p)', SameHand(p),
           poll[p].pc # "record", rec.pc # "notify",
           rec.found = {} \/ (rec.found = poll[p].found /\ poll[p].pc # "finish")
    PROVE  IInv'
<1>1. TypeOK /\ TypeOK' /\ Grows /\ poll'[p] = rec
  BY TurnTypes
<1>2. Local(p)
  BY DEF IInv, Local
<1>3. Sighted(p)' /\ Announced(p)' /\ Unpruned(p)'
  BY <1>1, <1>2, HandKept, SameIsLess
<1>4. Local(p)'
  BY <1>3 DEF Local
<1> QED
  BY <1>4, Turned

\* The poll of a step, and that it may be given up.
LEMMA PollFacts ==
    ASSUME IInv, NEW p \in Pollers
    PROVE  /\ TypeOK /\ poll[p] \in Polls /\ Local(p) /\ Staged(p) /\ Idle \in Polls
           /\ poll[p].batch \in Seq(Accounts) /\ poll[p].todo \in Seq(AlertKeys)
           /\ poll[p].fresh \in Seq(Accounts) /\ poll[p].seen \in 0..MaxPosts
           /\ poll[p].newest \in Nat /\ poll[p].missed \in SUBSET (1..MaxPosts)
           /\ poll[p].found \in SUBSET AlertKeys
           /\ Todo(p) \subseteq AlertKeys
           /\ faults \in Nat /\ MaxPosts \in Nat
<1>1. TypeOK /\ poll[p] \in Polls /\ Local(p) /\ Staged(p)
  BY DEF IInv, NothingPassedOver, TypeOK, Local
<1>2. Idle \in Polls
  BY ModerationAssumption DEF Idle, Polls, Steps
<1>3. /\ poll[p].batch \in Seq(Accounts) /\ poll[p].todo \in Seq(AlertKeys)
      /\ poll[p].fresh \in Seq(Accounts) /\ poll[p].seen \in 0..MaxPosts
      /\ poll[p].newest \in Nat /\ poll[p].missed \in SUBSET (1..MaxPosts)
      /\ poll[p].found \in SUBSET AlertKeys
  BY <1>1 DEF Polls
<1>4. Todo(p) \subseteq AlertKeys
  BY <1>3 DEF Todo
<1> QED
  BY <1>1, <1>2, <1>3, <1>4, ModerationAssumption DEF TypeOK

LEMMA DiesKeeps ==
    ASSUME IInv, NEW p \in Pollers, Dies(p), poll[p].pc # "record"
    PROVE  IInv'
<1>1. Idle \in Polls /\ TypeOK /\ faults' \in Nat /\ OnlyPoll(p, Idle)
  BY PollFacts DEF Dies
<1>2. poll'[p] = Idle
  BY <1>1, TurnTypes
<1>3. /\ Idle.todo = <<>> /\ Idle.newest = 0 /\ Idle.batch = <<>> /\ Idle.pc = "idle"
      /\ Idle.found = {} /\ Idle.seen = 0 /\ Idle.fresh = <<>>
  BY DEF Idle
<1>4. Todo(p)' = {}
  BY <1>2, <1>3 DEF Todo
<1>5. Staged(p)'
  BY <1>2, <1>3, <1>4 DEF Staged
<1> QED
  BY <1>1, <1>3, <1>5, TurnedEmpty

\* A request is put off or refused: the poll goes to its end, or to the next step.
LEMMA GivesUpKeeps ==
    ASSUME IInv, NEW p \in Pollers, poll[p].pc \in {"look", "ask", "discover", "silent"},
           Defer(p) \/ Limited(p) \/ Fails(p, "finish")
    PROVE  IInv'
<1>1. PICK rec \in Polls :
          /\ OnlyPoll(p, rec) /\ rec.pc = "finish" /\ rec.found = poll[p].found
          /\ rec.batch = poll[p].batch /\ rec.seen = poll[p].seen /\ rec.todo = poll[p].todo
          /\ rec.newest = poll[p].newest /\ rec.missed = poll[p].missed /\ rec.fresh = poll[p].fresh
  <2>1. poll[p] \in Polls
    BY PollFacts
  <2>2. CASE Defer(p)
    <3>1. [poll[p] EXCEPT !.pc = "finish", !.short = TRUE] \in Polls
      BY <2>1 DEF Polls, Steps
    <3> QED
      BY <2>1, <2>2, <3>1 DEF Defer, Polls
  <2>3. CASE Limited(p)
    <3>1. [poll[p] EXCEPT !.pc = "finish", !.limited = TRUE] \in Polls
      BY <2>1 DEF Polls, Steps
    <3> QED
      BY <2>1, <2>3, <3>1 DEF Limited, Polls
  <2>4. CASE Fails(p, "finish")
    <3>1. [poll[p] EXCEPT !.pc = "finish"] \in Polls
      BY <2>1 DEF Polls, Steps
    <3> QED
      BY <2>1, <2>4, <3>1 DEF Fails, Polls
  <2> QED
    BY <2>2, <2>3, <2>4
<1>2. faults' \in Nat
  BY PollFacts DEF Defer, Limited, Fails, Fault
<1>3. poll'[p] = rec
  BY <1>1, <1>2, TurnTypes
<1>4. SameHand(p)
  BY <1>1, <1>3 DEF SameHand
<1>5. Staged(p) /\ poll[p].todo = <<>>
  BY PollFacts DEF Staged
<1>6. Staged(p)'
  <2>1. Todo(p)' = {}
    BY <1>1, <1>3, <1>5 DEF Todo
  <2> QED
    BY <1>1, <1>3, <1>5, <2>1 DEF Staged
<1> QED
  BY <1>1, <1>2, <1>4, <1>6, TurnedSame

LEMMA QueryKeeps ==
    ASSUME IInv, NEW p \in Pollers, Query(p)
    PROVE  IInv'
<1>1. /\ TypeOK /\ poll[p] \in Polls /\ Staged(p) /\ poll[p].pc = "query" /\ faults' \in Nat
  BY PollFacts DEF Query
<1>2. PICK s \in Seq(Watched) : OnlyPoll(p, [poll[p] EXCEPT !.pc = "look", !.batch = s])
  <2>1. IsFiniteSet(Watched)
    BY ModerationAssumption, FS_Subset DEF Watched
  <2>2. Cardinality(Watched) \in Nat /\ BatchSize \in Nat
    BY <2>1, FS_CardinalityType, ModerationAssumption
  <2>3. \A m \in Nat : \A s \in [1..m -> Watched] : s \in Seq(Watched)
    OBVIOUS
  <2> QED
    BY <2>2, <2>3 DEF Query
<1>3. s \in Seq(Accounts)
  BY DEF Watched
<1>4. [poll[p] EXCEPT !.pc = "look", !.batch = s] \in Polls
  BY <1>1, <1>3 DEF Polls, Steps
<1> DEFINE rec == [poll[p] EXCEPT !.pc = "look", !.batch = s]
<1>5. /\ rec.pc = "look" /\ rec.todo = poll[p].todo /\ rec.newest = poll[p].newest
      /\ rec.seen = poll[p].seen /\ rec.fresh = poll[p].fresh /\ rec.found = poll[p].found
  BY <1>1 DEF Polls
<1>6. poll[p].todo = <<>> /\ poll[p].newest = 0 /\ poll[p].seen = 0 /\ poll[p].fresh = <<>>
  BY <1>1 DEF Staged
<1> HIDE DEF rec
<1>7. poll'[p] = rec
  BY <1>1, <1>2, <1>4, TurnTypes DEF rec
<1>8. Staged(p)'
  <2>1. Todo(p)' = {}
    BY <1>5, <1>6, <1>7 DEF Todo
  <2> QED
    BY <1>5, <1>6, <1>7, <2>1 DEF Staged
<1> QED
  BY <1>1, <1>2, <1>4, <1>5, <1>6, <1>8, TurnedEmpty DEF rec

LEMMA LookKeeps ==
    ASSUME IInv, NEW p \in Pollers, Look(p)
    PROVE  IInv'
<1>1. /\ TypeOK /\ poll[p] \in Polls /\ Local(p) /\ Staged(p) /\ poll[p].pc = "look"
      /\ poll[p].batch \in Seq(Accounts) /\ faults \in Nat
      /\ PostsCovered /\ PrunedBehind
  BY PollFacts DEF Look, IInv, NothingPassedOver
<1>2. poll[p].todo = <<>> /\ poll[p].newest = 0 /\ poll[p].fresh = <<>>
  BY <1>1 DEF Staged
<1>3. CASE Defer(p)
  BY <1>1, <1>3, GivesUpKeeps
<1>4. CASE Dies(p)
  BY <1>1, <1>4, DiesKeeps
<1>5. ASSUME poll[p].batch = <<>>, OnlyPoll(p, [poll[p] EXCEPT !.pc = "discover"]), UNCHANGED faults
      PROVE  IInv'
  <2> DEFINE rec == [poll[p] EXCEPT !.pc = "discover"]
  <2>1. rec \in Polls
    BY <1>1 DEF Polls, Steps
  <2>2. /\ rec.pc = "discover" /\ rec.todo = <<>> /\ rec.newest = 0 /\ rec.fresh = <<>>
        /\ rec.batch = <<>> /\ rec.found = poll[p].found
    BY <1>1, <1>2, <1>5 DEF Polls
  <2> HIDE DEF rec
  <2>3. OnlyPoll(p, rec) /\ faults' \in Nat
    BY <1>1, <1>5 DEF rec
  <2>4. poll'[p] = rec
    BY <2>1, <2>3, TurnTypes
  <2>5. Staged(p)'
    <3>1. Todo(p)' = {}
      BY <2>2, <2>4 DEF Todo
    <3> QED
      BY <2>2, <2>4, <3>1 DEF Staged
  <2> QED
    BY <1>1, <2>1, <2>2, <2>3, <2>5, TurnedEmpty
<1>6. ASSUME poll[p].batch # <<>>, At(p) \in Watched,
             OnlyPoll(p, [poll[p] EXCEPT !.pc = "ask", !.seen = watch[At(p)].cursor]), UNCHANGED faults
      PROVE  IInv'
  <2> DEFINE rec == [poll[p] EXCEPT !.pc = "ask", !.seen = watch[At(p)].cursor]
             a == At(p)
  <2>1. /\ a \in Accounts /\ watch[a] \in WatchRows /\ posts[a] \in Nat
        /\ watch[a].cursor <= posts[a] /\ Len(signups) \in Nat
    BY <1>1, <1>6 DEF Watched, TypeOK
  <2>2. watch[a].cursor \in 0..MaxPosts /\ watch[a].since \in Nat
    BY <2>1 DEF WatchRows
  <2>3. rec \in Polls
    BY <1>1, <2>2 DEF Polls, Steps
  <2>4. /\ rec.pc = "ask" /\ rec.todo = <<>> /\ rec.newest = 0 /\ rec.fresh = <<>>
        /\ rec.batch = poll[p].batch /\ rec.found = poll[p].found /\ rec.seen = watch[a].cursor
    BY <1>1, <1>2, <2>2 DEF Polls
  <2> HIDE DEF rec
  <2>5. OnlyPoll(p, rec) /\ faults' \in Nat
    BY <1>1, <1>6 DEF rec
  <2>6. poll'[p] = rec /\ UNCHANGED <<posts, watch, raised, alerts, signups, settings>>
    BY <2>3, <2>5, TurnTypes DEF OnlyPoll, Quiet, mastodon, history
  <2>7. Todo(p)' = {} /\ At(p)' = a /\ Watched' = Watched /\ Pruned' = Pruned
    BY <2>4, <2>6 DEF Todo, At, Watched, Pruned
  <2>8. Staged(p)'
    BY <2>4, <2>6, <2>7, <1>6 DEF Staged
  <2>9. Sighted(p)'
    <3>1. \A n \in watch[a].since + 1 .. watch[a].cursor :
              PostKey(a, n) \in raised \/ n \in watch[a].missed
      BY <1>1, <1>6 DEF PostsCovered
    <3>2. watch[a].since + 1 .. 0 = {}
      BY <2>2, NothingAfter
    <3> QED
      BY <3>1, <3>2, <2>1, <2>4, <2>6, <2>7, <1>6 DEF Sighted
  <2>10. Announced(p)'
    BY <2>4, <2>6 DEF Announced
  <2>11. Unpruned(p)'
    BY <1>1, <1>6, <2>4, <2>6, <2>7 DEF Unpruned, PrunedBehind
  <2>12. Local(p)'
    BY <2>8, <2>9, <2>10, <2>11 DEF Local
  <2> QED
    BY <1>1, <2>3, <2>4, <2>5, <2>12, Turned
<1> QED
  BY <1>3, <1>4, <1>5, <1>6 DEF Look

\* A step of a poll that moves no stored cursor, raises, tells and sends nothing.
LEMMA Shifted ==
    ASSUME IInv, TypeOK', Grows, Rows, settings'.cursor = settings.cursor,
           UNCHANGED <<raised, told, twice, bot>>,
           NEW p \in Pollers, \A q \in Pollers \ {p} : Same(q), Local(p)',
           poll'[p].pc # "notify", poll[p].pc # "record",
           poll'[p].found = {} \/ (poll'[p].found = poll[p].found /\ poll[p].pc # "finish")
    PROVE  IInv'
<1>1. PostsCovered' /\ SignUpsCovered' /\ PrunedBehind' /\ RaisedPosted'
  BY CursorsKept DEF RaisesPosted
<1>2. Hushed
  BY DEF Hushed, Same, SameHand
<1>3. \A q \in Pollers : Untold(q)'
  BY <1>2, UntoldKept
<1>4. Welcomes'
  BY WelcomesKept DEF Same, SameHand
<1>5. AlertsOnce'
  BY DEF IInv, AlertsOnce
<1> QED
  BY <1>1, <1>3, <1>4, <1>5, Moved

\* The next of the batch.
LEMMA LaterPoll ==
    ASSUME IInv, NEW p \in Pollers, poll[p].batch # <<>>, poll[p].todo = <<>>,
           poll[p].fresh = <<>>
    PROVE  /\ Later(poll[p]) \in Polls /\ Later(poll[p]).pc = "look"
           /\ Later(poll[p]).seen = 0 /\ Later(poll[p]).newest = 0
           /\ Later(poll[p]).todo = <<>> /\ Later(poll[p]).fresh = <<>>
           /\ Later(poll[p]).found = poll[p].found
           /\ poll'[p] = Later(poll[p]) => Staged(p)'
<1>1. poll[p] \in Polls /\ poll[p].batch \in Seq(Accounts)
  BY PollFacts
<1>2. Tail(poll[p].batch) \in Seq(Accounts)
  BY <1>1, HeadAndTail
<1>3. /\ Later(poll[p]) \in Polls /\ Later(poll[p]).pc = "look"
      /\ Later(poll[p]).seen = 0 /\ Later(poll[p]).newest = 0
      /\ Later(poll[p]).todo = <<>> /\ Later(poll[p]).fresh = <<>>
      /\ Later(poll[p]).found = poll[p].found
  <2>1. 0 \in 0..MaxPosts /\ {} \in SUBSET (1..MaxPosts) /\ "look" \in Steps
    BY ModerationAssumption DEF Steps
  <2>2. Later(poll[p]) \in Polls
    BY <1>1, <1>2, <2>1 DEF Later, Polls
  <2> QED
    BY <1>1, <2>2 DEF Later, Polls
<1>4. ASSUME poll'[p] = Later(poll[p])
      PROVE  Staged(p)'
  <2>1. Todo(p)' = {}
    BY <1>3, <1>4 DEF Todo
  <2> QED
    BY <1>3, <1>4, <2>1 DEF Staged
<1> QED
  BY <1>3, <1>4

LEMMA DropWatchKeeps ==
    ASSUME IInv, NEW p \in Pollers, poll[p].pc = "ask", DropWatch(p)
    PROVE  IInv'
<1>1. /\ TypeOK /\ poll[p] \in Polls /\ Staged(p) /\ poll[p].batch \in Seq(Accounts)
  BY PollFacts
<1>2. poll[p].batch # <<>> /\ poll[p].todo = <<>> /\ poll[p].fresh = <<>>
  BY <1>1 DEF Staged
<1>3. At(p) \in Accounts
  BY <1>1, <1>2, HeadAndTail DEF At
<1> DEFINE rec == Later(poll[p])
<1>4. /\ rec \in Polls /\ rec.pc = "look" /\ rec.seen = 0 /\ rec.newest = 0
      /\ rec.todo = <<>> /\ rec.found = poll[p].found
      /\ poll'[p] = rec => Staged(p)'
  BY <1>2, LaterPoll
<1> HIDE DEF rec
<1>5. /\ poll' \in [Pollers -> Polls] /\ poll'[p] = rec
      /\ \A q \in Pollers \ {p} : poll'[q] = poll[q] /\ Same(q)
  <2>1. poll' = [poll EXCEPT ![p] = rec]
    BY DEF DropWatch, rec
  <2> QED
    BY <1>1, <1>4, <2>1, PollPut
<1>6. /\ watch' \in [Accounts -> WatchRows] /\ Rows
      /\ \A b \in Accounts : watch'[b].cursor <= posts[b]
  BY <1>1, <1>3, DropsRow DEF DropWatch, Quiet, mastodon
<1>7. TypeOK'
  BY <1>1, <1>5, <1>6 DEF TypeOK, DropWatch, Quiet, mastodon, bot, history
<1>8. Grows
  BY <1>1, <1>6, RowsMoved DEF DropWatch, Quiet, mastodon, history
<1>9. Local(p)'
  BY <1>4, <1>5, <1>7, EmptyHand
<1> QED
  BY <1>4, <1>5, <1>6, <1>7, <1>8, <1>9, Shifted DEF DropWatch, history

LEMMA AskKeeps ==
    ASSUME IInv, NEW p \in Pollers, Ask(p)
    PROVE  IInv'
<1>1. /\ TypeOK /\ poll[p] \in Polls /\ Local(p) /\ Staged(p) /\ poll[p].pc = "ask"
      /\ poll[p].batch \in Seq(Accounts) /\ faults \in Nat /\ poll[p].seen \in 0..MaxPosts
      /\ RaisedPosted /\ MaxPosts \in Nat
  BY PollFacts DEF Ask, IInv
<1>2. poll[p].todo = <<>> /\ poll[p].newest = 0 /\ poll[p].fresh = <<>> /\ poll[p].batch # <<>>
  BY <1>1 DEF Staged
<1>3. CASE Limited(p)
  BY <1>1, <1>3, GivesUpKeeps
<1>4. ASSUME Fault, OnlyPoll(p, [poll[p] EXCEPT !.pc = "mark"])
      PROVE  IInv'
  <2> DEFINE rec == [poll[p] EXCEPT !.pc = "mark"]
  <2>1. rec \in Polls
    BY <1>1 DEF Polls, Steps
  <2>2. /\ rec.pc = "mark" /\ rec.todo = poll[p].todo /\ rec.newest = poll[p].newest
        /\ rec.fresh = poll[p].fresh /\ rec.batch = poll[p].batch /\ rec.found = poll[p].found
        /\ rec.seen = poll[p].seen /\ rec.missed = poll[p].missed
    BY <1>1 DEF Polls
  <2> HIDE DEF rec
  <2>3. OnlyPoll(p, rec) /\ faults' \in Nat
    BY <1>1, <1>4 DEF rec, Fault
  <2>4. poll'[p] = rec
    BY <2>1, <2>3, TurnTypes
  <2>5. Staged(p)'
    <3>1. Todo(p)' = {}
      BY <1>2, <2>2, <2>4 DEF Todo
    <3> QED
      BY <1>2, <2>2, <2>4, <3>1 DEF Staged
  <2>6. SameHand(p)
    BY <2>2, <2>4 DEF SameHand
  <2> QED
    BY <1>1, <2>1, <2>2, <2>3, <2>5, <2>6, TurnedSame
<1>5. CASE DropWatch(p)
  BY <1>1, <1>5, DropWatchKeeps
<1> DEFINE a == At(p)
           seen == poll[p].seen
           oldest == IF posts[a] - StatusPage > seen THEN posts[a] - StatusPage ELSE seen
           first == IF seen = 0 THEN posts[a] ELSE oldest
           keys0 == [i \in 1..posts[a] - first |-> PostKey(a, first + i)]
           rec == [poll[p] EXCEPT !.pc = "check",
                                  !.newest = IF posts[a] > seen THEN posts[a] ELSE 0,
                                  !.missed = seen + 1 .. first,
                                  !.todo = keys0]
<1>6. ASSUME OnlyPoll(p, rec), UNCHANGED faults
      PROVE  IInv'
  <2>1. /\ a \in Accounts /\ posts[a] \in 0..MaxPosts /\ seen \in 0..MaxPosts /\ seen <= posts[a]
        /\ StatusPage \in Nat /\ watch[a] \in WatchRows
    <3>1. a \in Accounts
      BY <1>1, <1>2, HeadAndTail DEF At
    <3> QED
      BY <3>1, <1>1, <1>2, ModerationAssumption DEF TypeOK, Local, Sighted
  <2>2. first \in 0..posts[a] /\ seen <= first /\ (seen = 0 => first = posts[a])
    BY <2>1
  <2>3. seen \in 0..first
    BY <2>1, <2>2
  <2> HIDE DEF first, oldest
  <2> HIDE DEF a, seen
  <2>4. /\ posts[a] - first \in Nat
        /\ \A i \in 1..posts[a] - first : first + i \in 1..MaxPosts /\ first + i \in first + 1 .. posts[a]
        /\ \A i \in first + 1 .. posts[a] :
              i - first \in 1..posts[a] - first /\ first + (i - first) = i
        /\ \A i \in seen + 1 .. first : i \in 1..MaxPosts
    BY <1>1, <2>1, <2>2, <2>3, PageOf
  <2>5. \A i \in 1..posts[a] - first : PostKey(a, first + i) \in AlertKeys
    BY <2>1, <2>4, KeyParts
  <2>6. keys0 \in Seq(AlertKeys) /\ DOMAIN keys0 = 1..posts[a] - first
    BY <2>4, <2>5
  <2> HIDE DEF keys0
  <2>7. rec \in Polls
    <3>1. (IF posts[a] > seen THEN posts[a] ELSE 0) \in Nat /\ "check" \in Steps
      BY <2>1 DEF Steps
    <3>2. seen + 1 .. first \in SUBSET (1..MaxPosts)
      BY <2>4
    <3> QED
      BY <1>1, <2>6, <3>1, <3>2 DEF Polls
  <2>8. /\ rec.pc = "check" /\ rec.todo = keys0 /\ rec.fresh = <<>> /\ rec.batch = poll[p].batch
        /\ rec.found = poll[p].found /\ rec.seen = seen /\ rec.missed = seen + 1 .. first
        /\ rec.newest = IF posts[a] > seen THEN posts[a] ELSE 0
    BY <1>1, <1>2 DEF Polls, seen
  <2> HIDE DEF rec
  <2>9. faults' \in Nat
    BY <1>1, <1>6
  <2>10. poll'[p] = rec /\ UNCHANGED <<posts, watch, raised, alerts, signups, settings>>
    BY <1>6, <2>7, <2>9, TurnTypes DEF OnlyPoll, Quiet, mastodon, history
  <2>11. At(p)' = a /\ Watched' = Watched /\ Pruned' = Pruned
    BY <2>8, <2>10 DEF At, Watched, Pruned, a
  <2>12. /\ \A n \in first + 1 .. posts[a] : PostKey(a, n) \in Todo(p)'
         /\ \A k \in Todo(p)' : \E n \in first + 1 .. posts[a] : k = PostKey(a, n)
    <3>1. Todo(p)' = {keys0[i] : i \in 1..posts[a] - first}
      BY <2>6, <2>8, <2>10 DEF Todo
    <3>2. \A i \in 1..posts[a] - first : keys0[i] = PostKey(a, first + i)
      BY DEF keys0
    <3>3. ASSUME NEW n \in first + 1 .. posts[a]
          PROVE  PostKey(a, n) \in Todo(p)'
      BY <3>1, <3>2, <2>4
    <3> QED
      BY <3>1, <3>2, <3>3, <2>4
  <2>13. \A k \in Todo(p)' :
            k[1] = "watched_post" /\ k[2] = a /\ k[3] \in first + 1 .. posts[a]
    BY <2>12 DEF PostKey
  <2>14. \A k \in Todo(p)' : k[3] <= posts[a]
    BY <2>1, <2>2, <2>13
  <2>15. Staged(p)'
    BY <1>2, <2>8, <2>10, <2>11, <2>13, <2>14 DEF Staged
  <2>16. Sighted(p)'
    <3>1. rec.newest <= posts[a] /\ watch[a].since \in Nat /\ posts[a] \in Nat
      BY <2>1, <2>8 DEF WatchRows
    <3>2. ASSUME a \in Watched, NEW n \in watch[a].since + 1 .. rec.newest
          PROVE  \/ PostKey(a, n) \in raised \cup Todo(p)'
                 \/ n \in watch[a].missed \cup rec.missed
      <4>1. n \in Nat /\ watch[a].since + 1 <= n /\ n <= posts[a] /\ 1 <= n
        BY <3>1, <2>8
      <4>2. n \in watch[a].since + 1 .. seen \/ n \in seen + 1 .. first \/ n \in first + 1 .. posts[a]
        BY <4>1, <2>1, <2>2, <3>1
      <4>3. \A j \in watch[a].since + 1 .. seen : PostKey(a, j) \in raised \/ j \in watch[a].missed
        BY <1>1, <1>2, <3>2 DEF Local, Sighted, a, seen
      <4> QED
        BY <4>2, <4>3, <2>8, <2>12
    <3>3. a \in Watched => \A n \in watch[a].since + 1 .. seen :
              PostKey(a, n) \in raised \/ n \in watch[a].missed
      BY <1>1, <1>2 DEF Local, Sighted, a, seen
    <3> QED
      BY <1>2, <2>1, <2>8, <2>10, <2>11, <3>1, <3>2, <3>3 DEF Sighted
  <2>17. Announced(p)'
    BY <2>8, <2>10 DEF Announced
  <2>18. Unpruned(p)'
    <3> SUFFICES ASSUME NEW k \in Pruned
                 PROVE  /\ k \notin Todo(p)'
                        /\ k[1] = "watched_post" /\ k[2] = a =>
                              /\ seen = 0 \/ k[3] <= seen
                              /\ rec.newest = 0 \/ k[3] <= rec.newest
      BY <1>2, <2>8, <2>10, <2>11 DEF Unpruned
    <3>1. k \in raised /\ k \in AlertKeys
      BY <1>1 DEF Pruned, TypeOK
    <3>2. ASSUME k[1] = "watched_post", k[2] = a
          PROVE  (seen = 0 \/ k[3] <= seen) /\ (rec.newest = 0 \/ k[3] <= rec.newest)
      <4>1. seen = 0 \/ k[3] <= seen
        BY <1>1, <1>2, <3>2 DEF Local, Unpruned, a, seen
      <4>2. k[3] <= posts[a]
        BY <3>1, <3>2, <1>1 DEF RaisedPosted
      <4> QED
        BY <4>1, <4>2, <2>8
    <3>3. k \notin Todo(p)'
      <4>1. ASSUME k \in Todo(p)'
            PROVE  FALSE
        <5>1. k[1] = "watched_post" /\ k[2] = a /\ k[3] \in first + 1 .. posts[a]
          BY <4>1, <2>13
        <5>2. seen = 0 \/ k[3] <= seen
          BY <5>1, <3>2
        <5> QED
          BY <5>1, <5>2, <2>1, <2>2
      <4> QED
        BY <4>1
    <3> QED
      BY <3>2, <3>3
  <2>19. Local(p)'
    BY <2>15, <2>16, <2>17, <2>18 DEF Local
  <2> QED
    BY <1>1, <1>6, <2>7, <2>8, <2>9, <2>19, Turned
<1> QED
  BY <1>3, <1>4, <1>5, <1>6 DEF Ask

----------------------------------------------------------------------------
\* record_alert and what follows it: the key is raised, and the next is taken.
Entry(p) ==
    /\ poll[p].pc \in {"check", "insert", "notify"} /\ poll[p].todo # <<>>
    /\ Key(p) \in raised' /\ raised \subseteq raised' /\ raised' \subseteq AlertKeys
    /\ alerts' \subseteq raised' /\ Pruned' \subseteq Pruned
    /\ UNCHANGED <<bot, settings, bootstrapped, overlooked, mastodon, pace, clicks>>
    /\ faults' \in Nat

LEMMA DoneStep ==
    ASSUME IInv, NEW p \in Pollers, NEW rec \in Polls, Entry(p), Done(p, rec),
           rec.batch = poll[p].batch, rec.seen = poll[p].seen, rec.todo = poll[p].todo,
           rec.newest = poll[p].newest, rec.missed = poll[p].missed, rec.fresh = poll[p].fresh
    PROVE  /\ TypeOK' /\ Grows /\ Rows /\ Local(p)'
           /\ \A q \in Pollers \ {p} : poll'[q] = poll[q] /\ Same(q)
           /\ poll'[p].pc \in {"check", "mark", "advance", "summary"} /\ poll'[p].found = rec.found
<1>1. /\ TypeOK /\ poll[p] \in Polls /\ Local(p) /\ Staged(p) /\ poll[p].todo \in Seq(AlertKeys)
      /\ Todo(p) \subseteq AlertKeys /\ poll[p].todo # <<>>
  BY PollFacts DEF Entry
<1>2. /\ Key(p) \in AlertKeys /\ Key(p) \in Todo(p) /\ Tail(poll[p].todo) \in Seq(AlertKeys)
      /\ Len(poll[p].todo) = 1 => Tail(poll[p].todo) = <<>>
      /\ Len(poll[p].todo) # 1 => Tail(poll[p].todo) # <<>>
      /\ \A k \in Todo(p) :
            k = Key(p) \/ k \in {Tail(poll[p].todo)[i] : i \in DOMAIN Tail(poll[p].todo)}
      /\ \A k \in {Tail(poll[p].todo)[i] : i \in DOMAIN Tail(poll[p].todo)} : k \in Todo(p)
  BY <1>1, HeadAndTail DEF Key, Todo
<1>3. Key(p)[1] \in {"watched_post", "new_account", "silent_login"} /\ Key(p)[2] \in Accounts
  BY <1>2, KeyParts
<1> DEFINE next == IF Len(rec.todo) = 1 THEN Upshot(Key(p)) ELSE "check"
           new == [rec EXCEPT !.todo = Tail(@), !.dirty = Key(p)[1] = "watched_post", !.pc = next]
<1>4. /\ Upshot(Key(p)) \in {"mark", "advance", "summary"}
      /\ Key(p)[1] = "watched_post" => Upshot(Key(p)) = "mark"
      /\ Key(p)[1] = "new_account" => Upshot(Key(p)) = "advance"
      /\ Key(p)[1] = "silent_login" => Upshot(Key(p)) = "summary"
  BY <1>3 DEF Upshot
<1>5. next \in {"check", "mark", "advance", "summary"}
  BY <1>4
<1> HIDE DEF next
<1>6. new \in Polls
  BY <1>2, <1>5 DEF Polls, Steps
<1>7. /\ new.batch = poll[p].batch /\ new.seen = poll[p].seen /\ new.newest = poll[p].newest
      /\ new.missed = poll[p].missed /\ new.fresh = poll[p].fresh /\ new.found = rec.found
      /\ new.todo = Tail(poll[p].todo) /\ new.pc = next
  BY DEF Polls
<1> HIDE DEF new
<1>8. /\ poll' \in [Pollers -> Polls] /\ poll'[p] = new
      /\ \A q \in Pollers \ {p} : poll'[q] = poll[q] /\ Same(q)
  <2>1. poll' = [poll EXCEPT ![p] = new]
    BY DEF Done, new, next
  <2> QED
    BY <1>1, <1>6, <2>1, PollPut
<1>9. /\ watch' \in [Accounts -> WatchRows] /\ Rows
      /\ \A b \in Accounts : watch'[b].cursor <= posts[b]
  <2> DEFINE a == Key(p)[2]
  <2>1. posts[a] \in 0..MaxPosts
    BY <1>1, <1>3 DEF TypeOK
  <2>2. CASE watch' = watch
    <3>1. Rows
      BY <2>2 DEF Rows, Watched
    <3> QED
      BY <1>1, <2>2, <3>1 DEF TypeOK
  <2>3. CASE watch' = [watch EXCEPT ![a] = Row(0, "later", posts[a])]
    <3>1. /\ Row(0, "later", posts[a]) \in WatchRows
          /\ Row(0, "later", posts[a]).cursor = 0 /\ Row(0, "later", posts[a]).since = posts[a]
      <4>1. 0 \in 0..MaxPosts
        BY ModerationAssumption
      <4> QED
        BY <2>1, <4>1 DEF Row, WatchRows
    <3>2. /\ watch' \in [Accounts -> WatchRows] /\ watch'[a].cursor = 0 /\ watch'[a].since = posts[a]
          /\ \A b \in Accounts \ {a} : watch'[b] = watch[b]
      BY <1>1, <1>3, <2>3, <3>1 DEF TypeOK
    <3>3. Rows
      BY <3>2 DEF Rows, Watched
    <3>4. ASSUME NEW b \in Accounts
          PROVE  watch'[b].cursor <= posts[b]
      <4>1. posts[b] \in Nat /\ watch[b].cursor <= posts[b]
        BY <1>1 DEF TypeOK
      <4> QED
        BY <4>1, <3>2
    <3> QED
      BY <3>2, <3>3, <3>4
  <2> QED
    BY <2>2, <2>3 DEF Done
<1>10. TypeOK'
  BY <1>1, <1>8, <1>9 DEF TypeOK, Entry, mastodon, bot
<1>11. Grows
  <2>1. \A a \in Accounts : posts[a] <= posts'[a]
    BY <1>1 DEF TypeOK, Entry, mastodon
  <2>2. Len(signups) <= Len(signups') /\ bootstrapped <= bootstrapped'
    BY <1>1 DEF TypeOK, Entry, mastodon
  <2> QED
    BY <2>1, <2>2, <1>9 DEF Grows, Rows, Entry, mastodon
<1>12. LessToDo(p)
  <2>1. Todo(p)' = {Tail(poll[p].todo)[i] : i \in DOMAIN Tail(poll[p].todo)}
    BY <1>7, <1>8 DEF Todo
  <2> QED
    BY <2>1, <1>2, <1>7, <1>8 DEF LessToDo, Entry
<1>13. Sighted(p)' /\ Announced(p)' /\ Unpruned(p)'
  BY <1>1, <1>10, <1>11, <1>12, HandKept
<1>14. Staged(p)'
  <2>1. Todo(p)' \subseteq Todo(p) /\ At(p)' = At(p) /\ posts' = posts
    BY <1>7, <1>8, <1>12 DEF LessToDo, At, Entry, mastodon
  <2>2. /\ Key(p)[1] = "watched_post" => poll[p].batch # <<>>
        /\ Key(p)[1] = "new_account" =>
              poll[p].batch = <<>> /\ poll[p].fresh # <<>> /\ poll[p].newest # 0
        /\ Key(p)[1] = "silent_login" =>
              poll[p].batch = <<>> /\ poll[p].fresh = <<>> /\ poll[p].newest = 0
    BY <1>1, <1>2 DEF Staged
  <2>3. poll[p].batch # <<>> => poll[p].fresh = <<>>
    BY <1>1 DEF Staged
  <2>4. CASE Len(poll[p].todo) = 1
    <3>1. next = Upshot(Key(p)) /\ new.todo = <<>>
      BY <1>2, <1>7, <2>4 DEF next
    <3>2. Todo(p)' = {}
      BY <1>8, <3>1 DEF Todo
    <3> QED
      BY <1>3, <1>4, <1>7, <1>8, <2>2, <2>3, <3>1, <3>2 DEF Staged
  <2>5. CASE Len(poll[p].todo) # 1
    <3>1. next = "check" /\ new.todo # <<>>
      BY <1>2, <1>7, <2>5 DEF next
    <3> QED
      BY <1>1, <1>7, <1>8, <2>1, <2>3, <3>1 DEF Staged
  <2> QED
    BY <2>4, <2>5
<1> QED
  BY <1>5, <1>7, <1>8, <1>9, <1>10, <1>11, <1>13, <1>14 DEF Local

\* The key was there already.
LEMMA FoundKeeps ==
    ASSUME IInv, NEW p \in Pollers, poll[p].pc \in {"check", "insert"}, poll[p].todo # <<>>,
           Key(p) \in alerts, Done(p, poll[p]), UNCHANGED <<bot, alerts, settings, history, faults>>, Quiet
    PROVE  IInv'
<1>1. TypeOK /\ poll[p] \in Polls
  BY PollFacts
<1>2. Entry(p)
  BY <1>1 DEF Entry, TypeOK, Quiet, history, Pruned
<1>3. /\ TypeOK' /\ Grows /\ Rows /\ Local(p)'
      /\ \A q \in Pollers \ {p} : poll'[q] = poll[q] /\ Same(q)
      /\ poll'[p].pc \in {"check", "mark", "advance", "summary"} /\ poll'[p].found = poll[p].found
  BY <1>1, <1>2, DoneStep
<1> QED
  BY <1>3, Shifted DEF history

LEMMA CheckKeeps ==
    ASSUME IInv, NEW p \in Pollers, Check(p)
    PROVE  IInv'
<1>1. /\ TypeOK /\ poll[p] \in Polls /\ Local(p) /\ Staged(p) /\ poll[p].pc = "check"
      /\ faults' \in Nat
  BY PollFacts DEF Check
<1>2. CASE Dies(p)
  BY <1>1, <1>2, DiesKeeps
<1>3. ASSUME NEW pc \in {"mark", "insert"}, OnlyPoll(p, [poll[p] EXCEPT !.pc = pc]),
             IF pc = "mark" THEN poll[p].todo = <<>> ELSE poll[p].todo # <<>>
      PROVE  IInv'
  <2> DEFINE rec == [poll[p] EXCEPT !.pc = pc]
  <2>1. rec \in Polls
    BY <1>1 DEF Polls, Steps
  <2>2. /\ rec.pc = pc /\ rec.todo = poll[p].todo /\ rec.newest = poll[p].newest
        /\ rec.fresh = poll[p].fresh /\ rec.batch = poll[p].batch /\ rec.found = poll[p].found
        /\ rec.seen = poll[p].seen /\ rec.missed = poll[p].missed
    BY <1>1 DEF Polls
  <2> HIDE DEF rec
  <2>3. OnlyPoll(p, rec)
    BY <1>3 DEF rec
  <2>4. poll'[p] = rec /\ posts' = posts
    BY <1>1, <2>1, <2>3, TurnTypes DEF OnlyPoll, Quiet, mastodon
  <2>5. SameHand(p)
    BY <2>2, <2>4 DEF SameHand
  <2>6. Staged(p)'
    <3>1. Todo(p)' = Todo(p) /\ At(p)' = At(p)
      BY <2>2, <2>4 DEF Todo, At
    <3>2. poll[p].batch # <<>> => poll[p].fresh = <<>>
      BY <1>1 DEF Staged
    <3>3. pc = "mark" => poll[p].batch # <<>>
      BY <1>1, <1>3 DEF Staged
    <3> QED
      BY <1>1, <1>3, <2>2, <2>4, <3>1, <3>2, <3>3 DEF Staged
  <2> QED
    BY <1>1, <2>1, <2>2, <2>3, <2>5, <2>6, TurnedSame
<1>4. CASE /\ Key(p) \in alerts /\ poll[p].todo # <<>> /\ Done(p, poll[p])
           /\ UNCHANGED <<bot, alerts, settings, history>> /\ Quiet
  BY <1>1, <1>4, FoundKeeps DEF Check
<1>5. poll[p].todo = <<>> /\ OnlyPoll(p, [poll[p] EXCEPT !.pc = "mark"]) => IInv'
  BY <1>3
<1>6. poll[p].todo # <<>> /\ OnlyPoll(p, [poll[p] EXCEPT !.pc = "insert"]) => IInv'
  BY <1>3
<1> QED
  BY <1>2, <1>4, <1>5, <1>6 DEF Check

\* A new key: it is raised, and to be told of by this poll alone.
LEMMA InsertKeeps ==
    ASSUME IInv, NEW p \in Pollers, Insert(p)
    PROVE  IInv'
<1>1. /\ TypeOK /\ poll[p] \in Polls /\ Local(p) /\ Staged(p) /\ poll[p].pc = "insert"
      /\ poll[p].todo # <<>> /\ poll[p].todo \in Seq(AlertKeys) /\ Todo(p) \subseteq AlertKeys
  BY PollFacts DEF Insert, Staged
<1>2. Key(p) \in Todo(p) /\ Key(p) \in AlertKeys /\ Key(p)[2] \in Accounts
      /\ Key(p)[1] \in {"watched_post", "new_account", "silent_login"}
  <2>1. Key(p) \in Todo(p)
    BY <1>1, HeadAndTail DEF Key, Todo
  <2> QED
    BY <2>1, <1>1, KeyParts
<1>3. CASE Key(p) \in alerts
  BY <1>1, <1>3, FoundKeeps DEF Insert, history
<1>4. CASE Key(p) \notin alerts
  <2>1. /\ alerts' = alerts \cup {Key(p)} /\ raised' = raised \cup {Key(p)}
        /\ UNCHANGED <<bot, settings, faults, told, twice, bootstrapped, overlooked>> /\ Quiet
    BY <1>4 DEF Insert
  <2>2. Key(p) \notin raised
    BY <1>1, <1>2, <1>4 DEF Local, Unpruned, Pruned
  <2>3. Entry(p)
    BY <1>1, <1>2, <2>1, <2>2 DEF Entry, TypeOK, Quiet, Pruned
  <2>4. RaisesPosted
    <3>1. Key(p)[1] = "watched_post" => Key(p)[3] <= posts[Key(p)[2]]
      BY <1>1, <1>2 DEF Staged
    <3> QED
      BY <2>1, <3>1 DEF RaisesPosted
  <2>5. \A q \in Pollers : Untold(q)
    BY DEF IInv
  <2>6. told \subseteq raised /\ AlertsOnce'
    BY <2>1 DEF IInv, AlertsOnce
  <2>7. CASE Key(p)[1] = "silent_login"
    <3> DEFINE rec == [poll[p] EXCEPT !.found = @ \cup {Key(p)}]
    <3>1. rec \in Polls
      BY <1>1, <1>2 DEF Polls
    <3>2. /\ rec.pc = poll[p].pc /\ rec.todo = poll[p].todo /\ rec.newest = poll[p].newest
          /\ rec.fresh = poll[p].fresh /\ rec.batch = poll[p].batch
          /\ rec.found = poll[p].found \cup {Key(p)}
          /\ rec.seen = poll[p].seen /\ rec.missed = poll[p].missed
      BY <1>1 DEF Polls
    <3>3. Done(p, rec)
      BY <1>4, <2>7 DEF Insert
    <3> HIDE DEF rec
    <3>4. /\ TypeOK' /\ Grows /\ Rows /\ Local(p)'
          /\ \A q \in Pollers \ {p} : poll'[q] = poll[q] /\ Same(q)
          /\ poll'[p].pc \in {"check", "mark", "advance", "summary"} /\ poll'[p].found = rec.found
      BY <2>3, <3>1, <3>2, <3>3, DoneStep
    <3>5. PostsCovered' /\ SignUpsCovered' /\ PrunedBehind' /\ RaisedPosted'
      BY <2>1, <2>4, <3>4, CursorsKept
    <3>6. Welcomes'
      BY <1>1, <2>1, <3>4, WelcomesKept
    <3>7. ASSUME NEW q \in Pollers
          PROVE  Untold(q)'
      <4>1. CASE q = p
        <5>1. /\ poll'[p].found = poll[p].found \cup {Key(p)}
              /\ poll[p].found \cap told = {} /\ poll[p].found \subseteq raised
              /\ \A k \in poll[p].found : k[1] = "silent_login"
          BY <1>1, <2>5, <3>2, <3>4 DEF Untold
        <5>2. ASSUME NEW r \in Pollers \ {p}
              PROVE  poll'[p].found \cap poll'[r].found = {}
          BY <5>1, <2>2, <2>5, <3>4 DEF Untold
        <5> QED
          BY <2>1, <2>2, <2>6, <2>7, <3>4, <4>1, <5>1, <5>2 DEF Untold
      <4>2. CASE q # p
        <5>1. poll'[q] = poll[q] /\ Key(q)' = Key(q)
          BY <3>4, <4>2 DEF Key
        <5>2. poll[q].found \subseteq raised
          BY <2>5 DEF Untold
        <5>3. ASSUME NEW r \in Pollers \ {q}
              PROVE  /\ poll[q].found \cap poll'[r].found = {}
                     /\ poll[q].pc = "notify" /\ poll'[r].pc = "notify" => Key(q) # Key(r)'
          <6>1. CASE r = p
            BY <2>2, <2>5, <3>2, <3>4, <4>2, <5>2, <6>1 DEF Untold
          <6>2. CASE r # p
            <7>1. poll'[r] = poll[r] /\ Key(r)' = Key(r)
              BY <3>4, <6>2 DEF Key
            <7> QED
              BY <7>1, <2>5 DEF Untold
          <6> QED
            BY <6>1, <6>2
        <5> QED
          BY <2>1, <2>5, <5>1, <5>3 DEF Untold
      <4> QED
        BY <4>1, <4>2
    <3> QED
      BY <2>6, <3>4, <3>5, <3>6, <3>7, Moved
  <2>8. CASE Key(p)[1] # "silent_login"
    <3> DEFINE rec == [poll[p] EXCEPT !.pc = "notify"]
    <3>1. rec \in Polls
      BY <1>1 DEF Polls, Steps
    <3>2. /\ rec.pc = "notify" /\ rec.todo = poll[p].todo /\ rec.newest = poll[p].newest
          /\ rec.fresh = poll[p].fresh /\ rec.batch = poll[p].batch /\ rec.found = poll[p].found
          /\ rec.seen = poll[p].seen /\ rec.missed = poll[p].missed
      BY <1>1 DEF Polls
    <3>3. poll' = [poll EXCEPT ![p] = rec] /\ UNCHANGED watch
      BY <1>4, <2>8 DEF Insert
    <3> HIDE DEF rec
    <3>4. /\ poll' \in [Pollers -> Polls] /\ poll'[p] = rec
          /\ \A q \in Pollers \ {p} : poll'[q] = poll[q] /\ Same(q)
      BY <1>1, <3>1, <3>3, PollPut
    <3>5. TypeOK'
      BY <1>1, <1>2, <2>1, <3>3, <3>4 DEF TypeOK, Quiet, mastodon, bot
    <3>6. Rows
      BY <3>3 DEF Rows, Watched
    <3>7. Grows
      <4>1. \A a \in Accounts : posts[a] <= posts'[a]
        BY <1>1, <2>1 DEF TypeOK, Quiet, mastodon
      <4>2. Len(signups) <= Len(signups') /\ bootstrapped <= bootstrapped'
        BY <1>1, <2>1 DEF TypeOK, Quiet, mastodon
      <4> QED
        BY <2>1, <2>3, <3>6, <4>1, <4>2 DEF Grows, Rows, Entry, Quiet, mastodon
    <3>8. SameHand(p)
      BY <3>2, <3>4 DEF SameHand
    <3>9. Sighted(p)' /\ Announced(p)' /\ Unpruned(p)'
      BY <1>1, <3>5, <3>7, <3>8, SameIsLess, HandKept
    <3>10. Staged(p)'
      <4>1. Todo(p)' = Todo(p) /\ At(p)' = At(p) /\ posts' = posts
        BY <2>1, <3>2, <3>4 DEF Todo, At, Quiet, mastodon
      <4>2. poll[p].batch # <<>> => poll[p].fresh = <<>>
        BY <1>1 DEF Staged
      <4>3. \A k \in Todo(p) : k[1] # "silent_login"
        BY <1>1, <1>2, <2>8 DEF Staged
      <4> QED
        BY <1>1, <3>2, <3>4, <4>1, <4>2, <4>3 DEF Staged
    <3>11. PostsCovered' /\ SignUpsCovered' /\ PrunedBehind' /\ RaisedPosted'
      BY <2>1, <2>4, <3>5, <3>6, <3>7, CursorsKept
    <3>12. Welcomes'
      BY <1>1, <2>1, <3>4, WelcomesKept
    <3>13. Key(p)' = Key(p) /\ \A q \in Pollers \ {p} : Key(q)' = Key(q)
      BY <3>2, <3>4 DEF Key
    <3>14. ASSUME NEW q \in Pollers
           PROVE  Untold(q)'
      <4>1. /\ poll'[q].found = poll[q].found
            /\ poll'[q].pc = "finish" <=> poll[q].pc = "finish"
        BY <1>1, <3>2, <3>4
      <4>2. /\ poll[q].found \subseteq raised /\ \A k \in poll[q].found : k[1] = "silent_login"
            /\ poll[q].pc # "finish" => poll[q].found \cap told = {}
            /\ \A r \in Pollers \ {q} : poll[q].found \cap poll[r].found = {}
        BY <2>5 DEF Untold
      <4>3. \A r \in Pollers \ {q} : poll'[r].found = poll[r].found
        BY <1>1, <3>2, <3>4
      <4>4. poll'[q].pc = "notify" => Key(q)' \in raised' \ told'
        BY <2>1, <2>2, <2>5, <2>6, <3>4, <3>13 DEF Untold
      <4>5. ASSUME NEW r \in Pollers \ {q}, poll'[q].pc = "notify", poll'[r].pc = "notify"
            PROVE  Key(q)' # Key(r)'
        <5>1. q # p => Key(q) \in raised
          BY <2>5, <3>4, <4>5 DEF Untold
        <5>2. r # p => Key(r) \in raised
          BY <2>5, <3>4, <4>5 DEF Untold
        <5>3. q # p /\ r # p => Key(q) # Key(r)
          BY <2>5, <3>4, <4>5 DEF Untold
        <5> QED
          BY <5>1, <5>2, <5>3, <2>2, <3>13
      <4> QED
        BY <2>1, <4>1, <4>2, <4>3, <4>4, <4>5 DEF Untold
    <3> QED
      BY <2>6, <3>4, <3>5, <3>7, <3>9, <3>10, <3>11, <3>12, <3>14, Moved DEF Local
  <2> QED
    BY <2>7, <2>8
<1> QED
  BY <1>3, <1>4

LEMMA NotifyKeeps ==
    ASSUME IInv, NEW p \in Pollers, Notify(p)
    PROVE  IInv'
<1>1. /\ TypeOK /\ poll[p] \in Polls /\ Staged(p) /\ poll[p].pc = "notify"
      /\ poll[p].todo # <<>> /\ poll[p].todo \in Seq(AlertKeys) /\ Todo(p) \subseteq AlertKeys
      /\ faults' \in Nat
  BY PollFacts DEF Notify, Staged, Fault
<1>2. Key(p) \in Todo(p) /\ Key(p)[1] # "silent_login"
  <2>1. Key(p) \in Todo(p)
    BY <1>1, HeadAndTail DEF Key, Todo
  <2> QED
    BY <2>1, <1>1 DEF Staged
<1>3. \A q \in Pollers : Untold(q)
  BY DEF IInv
<1>4. Key(p) \in raised \ told
  BY <1>1, <1>3 DEF Untold
<1>5. /\ Done(p, poll[p]) /\ Quiet
      /\ UNCHANGED <<bot, alerts, settings, raised, bootstrapped, overlooked>>
  BY DEF Notify
<1>6. Entry(p)
  BY <1>1, <1>4, <1>5 DEF Entry, TypeOK, Quiet, Pruned
<1>7. /\ TypeOK' /\ Grows /\ Rows /\ Local(p)'
      /\ \A q \in Pollers \ {p} : poll'[q] = poll[q] /\ Same(q)
      /\ poll'[p].pc \in {"check", "mark", "advance", "summary"} /\ poll'[p].found = poll[p].found
  BY <1>1, <1>5, <1>6, DoneStep
<1>8. CASE UNCHANGED <<told, twice>>
  BY <1>1, <1>5, <1>7, <1>8, Shifted
<1>9. CASE Tell({Key(p)})
  <2>1. AlertsOnce'
    BY <1>4, <1>5, <1>9 DEF Tell, IInv, AlertsOnce
  <2>2. told' = told \cup {Key(p)}
    BY <1>9 DEF Tell
  <2>3. PostsCovered' /\ SignUpsCovered' /\ PrunedBehind' /\ RaisedPosted'
    BY <1>5, <1>7, CursorsKept DEF RaisesPosted
  <2>4. Welcomes'
    BY <1>1, <1>5, <1>7, WelcomesKept
  <2>5. ASSUME NEW q \in Pollers
        PROVE  Untold(q)'
    <3>1. \A r \in Pollers : poll'[r].found = poll[r].found
      BY <1>7
    <3>2. /\ poll[q].found \subseteq raised /\ \A k \in poll[q].found : k[1] = "silent_login"
          /\ poll[q].pc # "finish" => poll[q].found \cap told = {}
          /\ \A r \in Pollers \ {q} : poll[q].found \cap poll[r].found = {}
      BY <1>3 DEF Untold
    <3>3. poll'[q].pc # "finish" => poll[q].pc # "finish"
      BY <1>1, <1>7
    <3>4. \A r \in Pollers : poll'[r].pc = "notify" =>
              r # p /\ poll[r].pc = "notify" /\ Key(r)' = Key(r) /\ Key(r) # Key(p)
      <4> SUFFICES ASSUME NEW r \in Pollers, poll'[r].pc = "notify"
                   PROVE  r # p /\ poll[r].pc = "notify" /\ Key(r)' = Key(r) /\ Key(r) # Key(p)
        OBVIOUS
      <4>1. r # p
        BY <1>7
      <4>2. poll'[r] = poll[r]
        BY <4>1, <1>7
      <4> QED
        BY <1>1, <1>3, <4>1, <4>2 DEF Untold, Key
    <3>5. poll'[q].pc = "notify" => Key(q)' \in raised' \ told'
      BY <1>3, <1>5, <2>2, <3>4 DEF Untold
    <3>6. poll'[q].pc # "finish" => poll'[q].found \cap told' = {}
      BY <1>2, <2>2, <3>1, <3>2, <3>3
    <3>7. \A r \in Pollers \ {q} : poll'[q].pc = "notify" /\ poll'[r].pc = "notify" => Key(q)' # Key(r)'
      BY <1>3, <3>4 DEF Untold
    <3> QED
      BY <1>5, <3>1, <3>2, <3>5, <3>6, <3>7 DEF Untold
  <2> QED
    BY <1>7, <2>1, <2>3, <2>4, <2>5, Moved
<1> QED
  BY <1>8, <1>9 DEF Notify

LEMMA SummaryKeeps ==
    ASSUME IInv, NEW p \in Pollers, Summary(p)
    PROVE  IInv'
<1>1. /\ TypeOK /\ poll[p] \in Polls /\ Staged(p) /\ poll[p].pc = "summary"
  BY PollFacts DEF Summary
<1>2. /\ told' = told \cup poll[p].found /\ twice' = twice \cup (told \cap poll[p].found)
      /\ settings' = [settings EXCEPT !.silentDue = FALSE]
      /\ UNCHANGED <<bot, watch, alerts, raised, bootstrapped, overlooked, faults>> /\ Quiet
  BY DEF Summary, Tell
<1> DEFINE rec == [poll[p] EXCEPT !.pc = "finish"]
<1>3. rec \in Polls
  BY <1>1 DEF Polls, Steps
<1>4. poll' = [poll EXCEPT ![p] = rec]
  BY DEF Summary
<1>5. /\ rec.pc = "finish" /\ rec.todo = poll[p].todo /\ rec.newest = poll[p].newest
      /\ rec.fresh = poll[p].fresh /\ rec.batch = poll[p].batch /\ rec.found = poll[p].found
      /\ rec.seen = poll[p].seen
  BY <1>1 DEF Polls
<1> HIDE DEF rec
<1>6. /\ poll' \in [Pollers -> Polls] /\ poll'[p] = rec
      /\ \A q \in Pollers \ {p} : poll'[q] = poll[q] /\ Same(q)
  BY <1>1, <1>3, <1>4, PollPut
<1>7. /\ settings' \in [cursor : Nat, backoff : {None, "active", "over"}, silentDue : BOOLEAN]
      /\ settings'.cursor = settings.cursor
  BY <1>1, <1>2 DEF TypeOK
<1>8. TypeOK'
  BY <1>1, <1>2, <1>6, <1>7 DEF TypeOK, Quiet, mastodon, bot
<1>9. Grows /\ Rows
  BY <1>1, <1>2, Unmoved DEF Quiet, mastodon
<1>10. poll[p].todo = <<>> /\ poll[p].newest = 0 /\ poll[p].batch = <<>> /\ poll[p].fresh = <<>>
  BY <1>1 DEF Staged
<1>11. Local(p)'
  <2>1. Todo(p)' = {}
    BY <1>5, <1>6, <1>10 DEF Todo
  <2>2. Staged(p)'
    BY <1>5, <1>6, <1>10, <2>1 DEF Staged
  <2> QED
    BY <2>2, <1>5, <1>6, <1>8, <1>10, EmptyHand
<1>12. PostsCovered' /\ SignUpsCovered' /\ PrunedBehind' /\ RaisedPosted'
  BY <1>2, <1>7, <1>8, <1>9, CursorsKept DEF RaisesPosted
<1>13. Welcomes'
  BY <1>1, <1>2, <1>6, WelcomesKept
<1>14. \A q \in Pollers : Untold(q)
  BY DEF IInv
<1>15. poll[p].found \subseteq raised /\ poll[p].found \cap told = {}
       /\ \A k \in poll[p].found : k[1] = "silent_login"
  BY <1>1, <1>14 DEF Untold
<1>16. AlertsOnce'
  BY <1>2, <1>15 DEF IInv, AlertsOnce
<1>17. ASSUME NEW q \in Pollers
       PROVE  Untold(q)'
  <2>1. \A r \in Pollers : poll'[r].found = poll[r].found
    BY <1>5, <1>6
  <2>2. /\ poll[q].found \subseteq raised /\ \A k \in poll[q].found : k[1] = "silent_login"
        /\ poll[q].pc # "finish" => poll[q].found \cap told = {}
        /\ \A r \in Pollers \ {q} : poll[q].found \cap poll[r].found = {}
    BY <1>14 DEF Untold
  <2>3. \A r \in Pollers : poll'[r].pc = "notify" =>
            r # p /\ poll[r].pc = "notify" /\ Key(r)' = Key(r)
    BY <1>5, <1>6 DEF Key
  <2>4. poll[q].pc = "notify" => Key(q)[1] # "silent_login"
    <3>1. Staged(q) /\ poll[q].todo \in Seq(AlertKeys)
      BY PollFacts
    <3>2. poll[q].pc = "notify" => Key(q) \in Todo(q)
      BY <3>1, HeadAndTail DEF Staged, Key, Todo
    <3> QED
      BY <3>1, <3>2 DEF Staged
  <2>5. poll'[q].pc = "notify" => Key(q)' \in raised' \ told'
    BY <1>2, <1>14, <1>15, <2>3, <2>4 DEF Untold
  <2>6. poll'[q].pc # "finish" => poll'[q].found \cap told' = {}
    <3>1. poll'[q].pc # "finish" => q # p /\ poll[q].pc # "finish"
      BY <1>5, <1>6
    <3> QED
      BY <3>1, <1>2, <2>1, <2>2
  <2>7. \A r \in Pollers \ {q} : poll'[q].pc = "notify" /\ poll'[r].pc = "notify" => Key(q)' # Key(r)'
    BY <1>14, <2>3 DEF Untold
  <2> QED
    BY <1>2, <2>1, <2>2, <2>5, <2>6, <2>7 DEF Untold
<1> QED
  BY <1>6, <1>8, <1>9, <1>11, <1>12, <1>13, <1>16, <1>17, Moved

\* The cursor of a watch is set: what it passes is covered, and what was pruned
\* stays behind it.
LEMMA MarkKeeps ==
    ASSUME IInv, NEW p \in Pollers, Mark(p)
    PROVE  IInv'
<1>1. /\ TypeOK /\ poll[p] \in Polls /\ Local(p) /\ Staged(p) /\ poll[p].pc = "mark"
      /\ poll[p].batch \in Seq(Accounts) /\ poll[p].newest \in Nat
      /\ poll[p].missed \in SUBSET (1..MaxPosts) /\ MaxPosts \in Nat
  BY PollFacts DEF Mark
<1>2. poll[p].batch # <<>> /\ poll[p].todo = <<>> /\ poll[p].fresh = <<>>
  BY <1>1 DEF Staged
<1>3. CASE Dies(p)
  BY <1>1, <1>3, DiesKeeps
<1>4. CASE ~Dies(p)
  <2> DEFINE a == At(p)
             row == Marked(p, watch[a])
             rec == Later(poll[p])
  <2>1. /\ a \in Watched /\ watch' = [watch EXCEPT ![a] = row] /\ poll' = [poll EXCEPT ![p] = rec]
        /\ UNCHANGED <<bot, alerts, settings, history, faults>> /\ Quiet
    <3>1. a \in Watched /\ UNCHANGED <<bot, alerts, settings, history, faults>> /\ Quiet
      BY <1>4 DEF Mark
    <3>2. watch' = [watch EXCEPT ![a] = row]
      BY <1>4 DEF Mark
    <3>3. poll' = [poll EXCEPT ![p] = rec]
      BY <1>4 DEF Mark
    <3> QED
      BY <3>1, <3>2, <3>3
  <2>2. /\ a \in Accounts /\ watch[a] \in WatchRows /\ posts[a] \in 0..MaxPosts
        /\ watch[a].cursor <= posts[a] /\ poll[p].newest <= posts[a]
    BY <1>1, <1>2, <2>1 DEF Watched, TypeOK, Local, Sighted
  <2>3. watch[a].cursor \in 0..MaxPosts /\ watch[a].missed \in SUBSET (1..MaxPosts)
        /\ watch[a].since \in 0..MaxPosts
    BY <2>2 DEF WatchRows
  <2>4. /\ SeenUpTo(p) \in 0..MaxPosts /\ SeenUpTo(p) <= posts[a]
        /\ poll[p].newest = 0 => SeenUpTo(p) = watch[a].cursor
        /\ poll[p].newest # 0 => SeenUpTo(p) = poll[p].newest
    BY <1>1, <2>2, <2>3 DEF SeenUpTo
  <2>5. row \in WatchRows
    <3>1. poll[p].now \in Nat
      BY <1>1 DEF Polls
    <3>2. (IF poll[p].newest = 0 THEN watch[a].missed ELSE watch[a].missed \cup poll[p].missed)
              \in SUBSET (1..MaxPosts)
      BY <1>1, <2>3
    <3> QED
      BY <2>2, <2>4, <3>1, <3>2 DEF WatchRows, Marked
  <2>6. /\ row.cursor = SeenUpTo(p) /\ row.since = watch[a].since
        /\ row.missed = IF poll[p].newest = 0 THEN watch[a].missed ELSE watch[a].missed \cup poll[p].missed
    BY <2>2 DEF WatchRows, Marked
  <2> HIDE DEF row
  <2>7. /\ rec \in Polls /\ rec.pc = "look" /\ rec.seen = 0 /\ rec.newest = 0
        /\ rec.todo = <<>> /\ rec.found = poll[p].found
        /\ poll'[p] = rec => Staged(p)'
    BY <1>2, LaterPoll
  <2> HIDE DEF rec
  <2>8. /\ poll' \in [Pollers -> Polls] /\ poll'[p] = rec
        /\ \A q \in Pollers \ {p} : poll'[q] = poll[q] /\ Same(q)
    BY <1>1, <2>1, <2>7, PollPut
  <2>9. /\ watch' \in [Accounts -> WatchRows] /\ watch'[a] = row
        /\ \A b \in Accounts \ {a} : watch'[b] = watch[b]
    BY <1>1, <2>1, <2>2, <2>5 DEF TypeOK
  <2> HIDE DEF a
  <2>10. \A b \in Accounts : watch'[b].cursor <= posts[b]
    BY <1>1, <2>4, <2>6, <2>9 DEF TypeOK
  <2>11. TypeOK'
    BY <1>1, <2>1, <2>8, <2>9, <2>10 DEF TypeOK, Quiet, mastodon, bot, history
  <2>12. ASSUME NEW b \in Watched'
         PROVE  b \in Watched /\ watch'[b].since = watch[b].since /\ watch[b].missed \subseteq watch'[b].missed
    <3>1. CASE b = a
      BY <2>1, <2>6, <2>9, <3>1
    <3>2. CASE b # a
      BY <2>9, <3>2 DEF Watched
    <3> QED
      BY <3>1, <3>2
  <2>13. Grows
    <3>1. \A b \in Accounts : posts[b] <= posts'[b]
      BY <1>1, <2>1 DEF TypeOK, Quiet, mastodon
    <3>2. Len(signups) <= Len(signups') /\ bootstrapped <= bootstrapped'
      BY <1>1, <2>1 DEF TypeOK, Quiet, mastodon, history
    <3>3. Pruned' = Pruned
      BY <2>1 DEF Pruned, history
    <3> QED
      BY <2>1, <2>12, <3>1, <3>2, <3>3 DEF Grows, Quiet, mastodon, history
  <2>14. Local(p)'
    BY <2>7, <2>8, <2>11, EmptyHand
  <2>15. PostsCovered /\ SignUpsCovered /\ PrunedBehind /\ RaisedPosted
    BY DEF IInv, NothingPassedOver
  <2>16. PostsCovered'
    <3> SUFFICES ASSUME NEW b \in Watched', NEW n \in watch'[b].since + 1 .. watch'[b].cursor
                 PROVE  PostKey(b, n) \in raised \/ n \in watch'[b].missed
      BY <2>1 DEF PostsCovered, history
    <3>1. CASE b # a
      <4>1. b \in Watched /\ watch'[b] = watch[b]
        BY <2>9, <2>12, <3>1 DEF Watched
      <4> QED
        BY <4>1, <2>15 DEF PostsCovered
    <3>2. CASE b = a /\ poll[p].newest = 0
      BY <2>1, <2>4, <2>6, <2>9, <2>15, <3>2 DEF PostsCovered
    <3>3. CASE b = a /\ poll[p].newest # 0
      <4>1. n \in watch[a].since + 1 .. poll[p].newest
        BY <2>4, <2>6, <2>9, <3>3
      <4>2. Todo(p) = {}
        BY <1>2 DEF Todo
      <4>3. PostKey(a, n) \in raised \/ n \in watch[a].missed \cup poll[p].missed
        BY <1>1, <1>2, <2>1, <4>1, <4>2 DEF Local, Sighted, a
      <4> QED
        BY <4>3, <2>6, <2>9, <3>3
    <3> QED
      BY <3>1, <3>2, <3>3
  <2>17. SignUpsCovered' /\ RaisedPosted'
    BY <2>1, <2>15 DEF SignUpsCovered, RaisedPosted, Quiet, mastodon, history
  <2>18. PrunedBehind'
    <3> SUFFICES ASSUME NEW k \in Pruned
                 PROVE  /\ k[1] # "silent_login"
                        /\ k[1] = "watched_post" /\ k[2] \in Watched' =>
                              watch'[k[2]].cursor = 0 \/ k[3] <= watch'[k[2]].cursor
                        /\ k[1] = "new_account" => \E i \in 1..settings.cursor : signups[i] = k[2]
      BY <2>1 DEF PrunedBehind, Pruned, Quiet, mastodon, history
    <3>1. ASSUME k[1] = "watched_post", k[2] \in Watched', k[2] # a
          PROVE  watch'[k[2]].cursor = 0 \/ k[3] <= watch'[k[2]].cursor
      <4>1. k[2] \in Watched /\ watch'[k[2]] = watch[k[2]]
        BY <2>9, <2>12, <3>1 DEF Watched
      <4> QED
        BY <4>1, <2>15, <3>1 DEF PrunedBehind
    <3>2. ASSUME k[1] = "watched_post", k[2] = a
          PROVE  watch'[a].cursor = 0 \/ k[3] <= watch'[a].cursor
      <4>1. poll[p].newest = 0 \/ k[3] <= poll[p].newest
        BY <1>1, <1>2, <3>2 DEF Local, Unpruned, a
      <4>2. watch[a].cursor = 0 \/ k[3] <= watch[a].cursor
        BY <2>1, <2>15, <3>2 DEF PrunedBehind
      <4> QED
        BY <4>1, <4>2, <2>4, <2>6, <2>9
    <3> QED
      BY <2>15, <3>1, <3>2 DEF PrunedBehind
  <2>19. Hushed
    BY <1>1, <2>1, <2>7, <2>8 DEF Hushed, history
  <2>20. \A q \in Pollers : Untold(q)'
    BY <2>19, UntoldKept
  <2>21. Welcomes'
    BY <1>1, <2>1, <2>8, WelcomesKept
  <2>22. AlertsOnce'
    BY <2>1 DEF IInv, AlertsOnce, history
  <2> QED
    BY <2>8, <2>11, <2>13, <2>14, <2>16, <2>17, <2>18, <2>20, <2>21, <2>22, Moved
<1> QED
  BY <1>3, <1>4

\* The cursor of the sign-ups is set: what it passes was announced, or is what
\* the first look begins with, and what was pruned stays behind it.
LEMMA AdvanceKeeps ==
    ASSUME IInv, NEW p \in Pollers, Advance(p)
    PROVE  IInv'
<1>1. /\ TypeOK /\ poll[p] \in Polls /\ Local(p) /\ Staged(p) /\ poll[p].pc = "advance"
      /\ poll[p].newest \in Nat /\ poll[p].fresh \in Seq(Accounts)
  BY PollFacts DEF Advance
<1>2. poll[p].batch = <<>> /\ poll[p].todo = <<>> /\ poll[p].newest # 0
  BY <1>1 DEF Staged
<1>3. /\ settings' = [settings EXCEPT !.cursor = poll[p].newest]
      /\ bootstrapped' = IF poll[p].fresh = <<>> /\ poll[p].newest > bootstrapped
                         THEN poll[p].newest ELSE bootstrapped
      /\ UNCHANGED <<bot, watch, alerts, raised, told, twice, overlooked, faults>> /\ Quiet
  BY DEF Advance
<1>4. PICK rec \in Polls :
          /\ poll' = [poll EXCEPT ![p] = rec] /\ rec.batch = <<>> /\ rec.newest = 0 /\ rec.todo = <<>>
          /\ rec.found = poll[p].found
          /\ rec.pc = "welcome" \/ (rec.pc = "silent" /\ rec.fresh = <<>>)
  <2>1. CASE p = "cron" /\ poll[p].fresh # <<>>
    <3>1. poll' = [poll EXCEPT ![p] = [poll[p] EXCEPT !.pc = "welcome", !.newest = 0]]
      BY <2>1, <1>1 DEF Advance, TypeOK
    <3>2. [poll[p] EXCEPT !.pc = "welcome", !.newest = 0] \in Polls
      BY <1>1 DEF Polls, Steps
    <3> QED
      BY <3>1, <3>2, <1>1, <1>2 DEF Polls
  <2>2. CASE ~(p = "cron" /\ poll[p].fresh # <<>>)
    <3>1. poll' = [poll EXCEPT ![p] = [poll[p] EXCEPT !.pc = "silent", !.newest = 0, !.fresh = <<>>]]
      BY <2>2, <1>1 DEF Advance, TypeOK
    <3>2. [poll[p] EXCEPT !.pc = "silent", !.newest = 0, !.fresh = <<>>] \in Polls
      <4>1. <<>> \in Seq(Accounts) /\ 0 \in Nat /\ "silent" \in Steps
        BY DEF Steps
      <4> QED
        BY <1>1, <4>1 DEF Polls
    <3> QED
      BY <3>1, <3>2, <1>1, <1>2 DEF Polls
  <2> QED
    BY <2>1, <2>2
<1>5. /\ poll' \in [Pollers -> Polls] /\ poll'[p] = rec
      /\ \A q \in Pollers \ {p} : poll'[q] = poll[q] /\ Same(q)
  BY <1>1, <1>4, PollPut
<1>6. /\ poll[p].newest <= Len(signups) /\ Len(signups) \in Nat /\ bootstrapped \in Nat
      /\ settings \in [cursor : Nat, backoff : {None, "active", "over"}, silentDue : BOOLEAN]
  BY <1>1, <1>2 DEF Local, Sighted, TypeOK
<1>7. /\ settings' \in [cursor : Nat, backoff : {None, "active", "over"}, silentDue : BOOLEAN]
      /\ settings'.cursor = poll[p].newest
  BY <1>1, <1>3, <1>6
<1>8. /\ bootstrapped' \in Nat /\ bootstrapped <= bootstrapped'
      /\ poll[p].fresh # <<>> => bootstrapped' = bootstrapped
      /\ poll[p].fresh = <<>> => poll[p].newest <= bootstrapped'
  BY <1>1, <1>3, <1>6
<1>9. TypeOK'
  BY <1>1, <1>3, <1>5, <1>6, <1>7, <1>8 DEF TypeOK, Quiet, mastodon, bot
<1>10. Grows
  <2>1. \A a \in Accounts : posts[a] <= posts'[a]
    BY <1>1, <1>3 DEF TypeOK, Quiet, mastodon
  <2>2. Len(signups) <= Len(signups')
    BY <1>3, <1>6 DEF Quiet, mastodon
  <2>3. Pruned' = Pruned /\ Watched' = Watched
    BY <1>3 DEF Pruned, Watched
  <2> QED
    BY <1>3, <1>8, <2>1, <2>2, <2>3 DEF Grows, Quiet, mastodon
<1>11. Local(p)'
  <2>1. Todo(p)' = {}
    BY <1>4, <1>5 DEF Todo
  <2>2. Staged(p)'
    BY <1>4, <1>5, <2>1 DEF Staged
  <2> QED
    BY <2>2, <1>4, <1>5, <1>9, EmptyHand
<1>12. PostsCovered /\ PrunedBehind /\ RaisedPosted
  BY DEF IInv, NothingPassedOver
<1>13. PostsCovered' /\ RaisedPosted'
  BY <1>3, <1>12 DEF PostsCovered, RaisedPosted, Watched, Quiet, mastodon
<1>14. SignUpsCovered'
  <2>1. CASE poll[p].fresh # <<>>
    <3>1. Todo(p) = {}
      BY <1>2 DEF Todo
    <3>2. \A i \in bootstrapped + 1 .. poll[p].newest :
              NewKey(signups[i]) \in raised \/ signups[i] \in overlooked \cup gone
      BY <1>1, <2>1, <3>1 DEF Local, Announced
    <3> QED
      BY <1>3, <1>7, <1>8, <2>1, <3>2 DEF SignUpsCovered, Quiet, mastodon
  <2>2. CASE poll[p].fresh = <<>>
    <3>1. bootstrapped' + 1 .. settings'.cursor = {}
      <4>1. \A b, c \in Nat : c <= b => b + 1 .. c = {}
        OBVIOUS
      <4> QED
        BY <1>1, <1>7, <1>8, <2>2, <4>1
    <3> QED
      BY <3>1 DEF SignUpsCovered
  <2> QED
    BY <2>1, <2>2
<1>15. PrunedBehind'
  <2>1. Pruned' = Pruned /\ Watched' = Watched /\ watch' = watch /\ signups' = signups
    BY <1>3 DEF Pruned, Watched, Quiet, mastodon
  <2>2. \A k \in Pruned : k[1] = "new_account" => \E i \in 1..poll[p].newest : signups[i] = k[2]
    BY <1>1, <1>2 DEF Local, Unpruned
  <2> QED
    BY <1>7, <1>12, <2>1, <2>2 DEF PrunedBehind
<1>16. Hushed
  BY <1>1, <1>3, <1>4, <1>5 DEF Hushed
<1>17. \A q \in Pollers : Untold(q)'
  BY <1>16, UntoldKept
<1>18. Welcomes'
  BY <1>1, <1>3, <1>5, WelcomesKept
<1>19. AlertsOnce'
  BY <1>3 DEF IInv, AlertsOnce
<1> QED
  BY <1>5, <1>9, <1>10, <1>11, <1>13, <1>14, <1>15, <1>17, <1>18, <1>19, Moved

\* The places of a set of sign-ups, in turn.
LEMMA TurnOrder ==
    ASSUME NEW last \in Nat, NEW places \in SUBSET (1..last), NEW s \in InTurn(places)
    PROVE  /\ Cardinality(places) \in Nat /\ DOMAIN s = 1..Cardinality(places)
           /\ s \in Seq(places) /\ Len(s) = Cardinality(places)
           /\ s \in [1..Cardinality(places) -> places]
           /\ \A x \in places : \E i \in 1..Cardinality(places) : s[i] = x
           /\ places # {} => /\ Len(s) # 0 /\ s # <<>> /\ s[Len(s)] \in places
                             /\ \A i \in places : i <= s[Len(s)]
<1>1. IsFiniteSet(places)
  <2>1. IsFiniteSet(1..last)
    BY FS_Interval
  <2> QED
    BY <2>1, FS_Subset
<1>2. Cardinality(places) \in Nat /\ (Cardinality(places) = 0 <=> places = {})
  BY <1>1, FS_CardinalityType, FS_EmptySet
<1> DEFINE n == Cardinality(places)
<1>3. /\ s \in [1..n -> places] /\ \A i, j \in 1..n : i < j => s[i] < s[j]
      /\ places = {s[i] : i \in 1..n}
  BY DEF InTurn
<1> HIDE DEF n
<1>4. n \in Nat
  BY <1>2 DEF n
<1>5. s \in Seq(places) /\ Len(s) = n /\ DOMAIN s = 1..n
  BY <1>3, <1>4
<1>6. ASSUME places # {}
      PROVE  n # 0 /\ s # <<>> /\ s[n] \in places /\ \A i \in places : i <= s[n]
  <2>1. n # 0 /\ n \in 1..n
    <3>1. n # 0
      BY <1>2, <1>6 DEF n
    <3> QED
      BY <1>4, <3>1
  <2>2. s # <<>> /\ s[n] \in places
    BY <2>1, <1>3, <1>4, <1>5
  <2>3. ASSUME NEW i \in places
        PROVE  i <= s[n]
    <3>1. PICK j \in 1..n : i = s[j]
      BY <1>3
    <3>2. i \in Nat /\ s[n] \in Nat
      <4>1. places \subseteq Nat
        OBVIOUS
      <4> QED
        BY <4>1, <2>2
    <3>3. j < n \/ j = n
      BY <1>4
    <3>4. j < n => s[j] < s[n]
      BY <1>3, <2>1
    <3> QED
      BY <3>1, <3>2, <3>3, <3>4
  <2> QED
    BY <2>1, <2>2, <2>3
<1>7. \A x \in places : \E i \in 1..n : s[i] = x
  BY <1>3
<1> QED
  BY <1>2, <1>3, <1>5, <1>6, <1>7 DEF n

\* Any function on an interval is a list.
LEMMA ListOf ==
    ASSUME NEW m \in Nat, NEW S, NEW f \in [1..m -> S]
    PROVE  f \in Seq(S) /\ Len(f) = m /\ (m # 0 => f # <<>>)
<1>1. f \in Seq(S) /\ Len(f) = m
  OBVIOUS
<1> QED
  BY <1>1

\* Where a list of sign-ups is cut: at the pages asked for, but not before the cursor.
LEMMA PagesOf ==
    \A last, pages \in Nat : \A cursor \in 0..last :
        LET oldest == IF last - pages > cursor THEN last - pages ELSE cursor
        IN  oldest \in cursor..last
  OBVIOUS

\* The next step, with nothing in the poll's hands.
LEMMA GoesOnKeeps ==
    ASSUME IInv, NEW p \in Pollers, poll[p].pc \in {"discover", "silent"}, faults' \in Nat,
           NEW next \in {"silent", "finish"}, OnlyPoll(p, [poll[p] EXCEPT !.pc = next])
    PROVE  IInv'
<1>1. poll[p] \in Polls /\ Staged(p)
  BY PollFacts
<1>2. poll[p].todo = <<>> /\ poll[p].newest = 0 /\ poll[p].batch = <<>> /\ poll[p].fresh = <<>>
  BY <1>1 DEF Staged
<1> DEFINE rec == [poll[p] EXCEPT !.pc = next]
<1>3. rec \in Polls
  BY <1>1 DEF Polls, Steps
<1>4. /\ rec.pc = next /\ rec.todo = <<>> /\ rec.newest = 0 /\ rec.batch = <<>> /\ rec.fresh = <<>>
      /\ rec.found = poll[p].found
  BY <1>1, <1>2 DEF Polls
<1>5. OnlyPoll(p, rec)
  OBVIOUS
<1> HIDE DEF rec
<1>6. poll'[p] = rec
  BY <1>3, <1>5, TurnTypes
<1>7. Staged(p)'
  <2>1. Todo(p)' = {}
    BY <1>4, <1>6 DEF Todo
  <2> QED
    BY <1>4, <1>6, <2>1 DEF Staged
<1> QED
  BY <1>3, <1>4, <1>5, <1>7, TurnedEmpty

LEMMA DiscoverKeeps ==
    ASSUME IInv, NEW p \in Pollers, Discover(p)
    PROVE  IInv'
<1>1. /\ TypeOK /\ poll[p] \in Polls /\ Staged(p) /\ poll[p].pc = "discover" /\ faults \in Nat
  BY PollFacts DEF Discover
<1>2. poll[p].todo = <<>> /\ poll[p].newest = 0 /\ poll[p].batch = <<>> /\ poll[p].fresh = <<>>
  BY <1>1 DEF Staged
<1> DEFINE cursor == settings.cursor
           last == Len(signups)
           oldest == IF last - AccountPages > cursor THEN last - AccountPages ELSE cursor
           found == {i \in oldest + 1 .. last : signups[i] \notin gone}
<1>3. /\ cursor \in 0..last /\ last \in Nat /\ DOMAIN signups = 1..last
      /\ \A i \in 1..last : signups[i] \in Accounts
      /\ \A i, j \in 1..last : signups[i] = signups[j] => i = j
  BY <1>1 DEF TypeOK
<1>4. oldest \in cursor..last
  BY <1>3, PagesOf, ModerationAssumption
<1>5. PostsCovered /\ SignUpsCovered /\ PrunedBehind
  BY DEF IInv, NothingPassedOver
<1>6. CASE Defer(p) \/ Limited(p)
  BY <1>1, <1>6, GivesUpKeeps
<1>7. CASE Fails(p, "silent")
  <2>1. faults' \in Nat /\ OnlyPoll(p, [poll[p] EXCEPT !.pc = "silent"])
    BY <1>1, <1>7 DEF Fails, Fault
  <2> QED
    BY <1>1, <2>1, GoesOnKeeps
<1>8. CASE UNCHANGED faults /\ OnlyPoll(p, [poll[p] EXCEPT !.pc = "silent"])
  BY <1>1, <1>8, GoesOnKeeps
<1>9. CASE /\ UNCHANGED faults /\ cursor = 0 /\ last > 0
           /\ OnlyPoll(p, [poll[p] EXCEPT !.pc = "advance", !.newest = last])
  <2> DEFINE rec == [poll[p] EXCEPT !.pc = "advance", !.newest = last]
  <2>1. rec \in Polls
    BY <1>1, <1>3 DEF Polls, Steps
  <2>2. /\ rec.pc = "advance" /\ rec.todo = <<>> /\ rec.newest = last /\ rec.batch = <<>>
        /\ rec.fresh = <<>> /\ rec.found = poll[p].found
    BY <1>1, <1>2 DEF Polls
  <2>3. OnlyPoll(p, rec) /\ faults' \in Nat
    BY <1>1, <1>9
  <2> HIDE DEF rec, oldest, found
  <2>4. poll'[p] = rec
    BY <2>1, <2>3, TurnTypes
  <2>5. Todo(p)' = {}
    BY <2>2, <2>4 DEF Todo
  <2>6. Staged(p)'
    <3>1. last # 0
      BY <1>3, <1>9
    <3> QED
      BY <2>2, <2>4, <2>5, <3>1 DEF Staged
  <2>7. signups' = signups /\ Pruned' = Pruned
    BY <2>3 DEF OnlyPoll, Quiet, mastodon, history, Pruned
  <2>8. Sighted(p)'
    BY <1>3, <2>2, <2>4, <2>7 DEF Sighted
  <2>9. Announced(p)'
    BY <2>2, <2>4 DEF Announced
  <2>10. Unpruned(p)'
    <3>1. \A k \in Pruned : k[1] # "new_account"
      <4>1. \A k \in Pruned : k[1] = "new_account" => \E i \in 1..cursor : signups[i] = k[2]
        BY <1>5 DEF PrunedBehind
      <4>2. 1..cursor = {}
        BY <1>9
      <4> QED
        BY <4>1, <4>2
    <3> QED
      BY <2>2, <2>4, <2>5, <2>7, <3>1 DEF Unpruned
  <2>11. Local(p)'
    BY <2>6, <2>8, <2>9, <2>10 DEF Local
  <2> QED
    BY <1>1, <2>1, <2>2, <2>3, <2>11, Turned
<1>10. ASSUME UNCHANGED faults, cursor # 0, found # {}, NEW s \in InTurn(found),
              poll' = [poll EXCEPT ![p] = [@ EXCEPT
                  !.pc = "check", !.newest = s[Len(s)],
                  !.fresh = [i \in DOMAIN s |-> signups[s[i]]],
                  !.todo = [i \in DOMAIN s |-> NewKey(signups[s[i]])]]],
              overlooked' = overlooked \cup {signups[i] : i \in cursor + 1 .. oldest},
              UNCHANGED <<bot, watch, alerts, settings, raised, told, twice, bootstrapped>>, Quiet
       PROVE  IInv'
  <2> DEFINE n == Cardinality(found)
             newest == s[Len(s)]
             fresh == [i \in DOMAIN s |-> signups[s[i]]]
             todo == [i \in DOMAIN s |-> NewKey(signups[s[i]])]
             rec == [poll[p] EXCEPT !.pc = "check", !.newest = newest, !.fresh = fresh, !.todo = todo]
  <2>1. poll' = [poll EXCEPT ![p] = rec]
    BY <1>1, <1>10 DEF TypeOK
  <2>2. found \in SUBSET (1..last) /\ \A i \in found : cursor < i /\ oldest < i
    BY <1>3, <1>4
  <2> HIDE DEF found
  <2>3. /\ n \in Nat /\ DOMAIN s = 1..n /\ Len(s) = n /\ s \in [1..n -> found]
        /\ \A x \in found : \E i \in 1..n : s[i] = x
        /\ newest \in found /\ \A i \in found : i <= newest
        /\ n # 0
    <3>1. found # {} /\ last \in Nat
      BY <1>3, <1>10
    <3> HIDE DEF last
    <3> QED
      BY <2>2, <3>1, TurnOrder, SMTT(30)
  <2>4. fresh \in [1..n -> Accounts] /\ todo \in [1..n -> AlertKeys]
    <3>1. \A i \in 1..n : s[i] \in 1..last
      BY <2>2, <2>3
    <3>2. \A i \in 1..n : signups[s[i]] \in Accounts /\ NewKey(signups[s[i]]) \in AlertKeys
      BY <1>3, <3>1, KeyParts
    <3> QED
      BY <2>3, <3>2
  <2>5. /\ fresh \in Seq(Accounts) /\ todo \in Seq(AlertKeys) /\ fresh # <<>> /\ todo # <<>>
    <3> HIDE DEF n, fresh, todo
    <3> QED
      BY <2>3, <2>4, ListOf
  <2>6. {todo[i] : i \in DOMAIN todo} = {NewKey(signups[i]) : i \in found}
    <3>1. DOMAIN todo = 1..n /\ \A i \in 1..n : todo[i] = NewKey(signups[s[i]]) /\ s[i] \in found
      BY <2>3
    <3> HIDE DEF todo, n
    <3> QED
      BY <2>3, <3>1
  <2>7. newest \in Nat /\ newest <= last /\ cursor < newest /\ newest # 0
    <3> HIDE DEF newest, last
    <3>1. newest \in 1..last /\ cursor < newest
      BY <2>2, <2>3
    <3> QED
      BY <1>3, <3>1
  <2> HIDE DEF fresh, todo, newest
  <2>8. rec \in Polls
    BY <1>1, <2>5, <2>7 DEF Polls, Steps
  <2>9. /\ rec.pc = "check" /\ rec.todo = todo /\ rec.newest = newest /\ rec.batch = <<>>
         /\ rec.fresh = fresh /\ rec.found = poll[p].found
    BY <1>1, <1>2 DEF Polls
  <2> HIDE DEF rec
  <2>10. /\ poll' \in [Pollers -> Polls] /\ poll'[p] = rec
         /\ \A q \in Pollers \ {p} : poll'[q] = poll[q] /\ Same(q)
    BY <1>1, <2>1, <2>8, PollPut
  <2>11. \A i \in cursor + 1 .. oldest : i \in 1..last
    BY <1>3, <1>4
  <2> HIDE DEF oldest
  <2>12. overlooked' \subseteq Accounts
    BY <1>1, <1>3, <1>10, <2>11 DEF TypeOK
  <2>13. TypeOK'
    BY <1>1, <1>10, <2>10, <2>12 DEF TypeOK, Quiet, mastodon, bot
  <2>14. Grows /\ Rows
    <3>1. \A a \in Accounts : posts[a] <= posts'[a]
      BY <1>1, <1>10 DEF TypeOK, Quiet, mastodon
    <3>2. Len(signups) <= Len(signups') /\ bootstrapped <= bootstrapped'
      BY <1>1, <1>10 DEF TypeOK, Quiet, mastodon
    <3>3. Pruned' = Pruned /\ Watched' = Watched
      BY <1>10 DEF Pruned, Watched
    <3> QED
      BY <1>10, <3>1, <3>2, <3>3 DEF Grows, Rows, Quiet, mastodon
  <2>15. Todo(p)' = {NewKey(signups[i]) : i \in found}
    BY <2>6, <2>9, <2>10 DEF Todo
  <2>16. Staged(p)'
    <3>1. \A k \in Todo(p)' : k[1] = "new_account"
      <4>1. \A i \in found : NewKey(signups[i])[1] = "new_account"
        BY DEF NewKey
      <4> QED
        BY <4>1, <2>15
    <3> QED
      BY <2>5, <2>7, <2>9, <2>10, <3>1 DEF Staged
  <2>17. Sighted(p)'
    BY <1>10, <2>7, <2>9, <2>10 DEF Sighted, Quiet, mastodon
  <2>18. Announced(p)'
    <3>1. bootstrapped \in Nat /\ bootstrapped' = bootstrapped /\ signups' = signups /\ gone' = gone
          /\ raised' = raised
      BY <1>1, <1>10 DEF TypeOK, Quiet, mastodon
    <3> SUFFICES ASSUME NEW i \in bootstrapped + 1 .. newest
                 PROVE  \/ NewKey(signups[i]) \in raised \cup Todo(p)'
                        \/ signups[i] \in overlooked' \cup gone
      BY <2>9, <2>10, <3>1 DEF Announced
    <3>2. CASE i <= cursor
      <4>1. i \in bootstrapped + 1 .. cursor
        BY <1>3, <2>7, <3>1, <3>2
      <4> QED
        BY <4>1, <1>5, <1>10 DEF SignUpsCovered
    <3>3. CASE cursor < i /\ i <= oldest
      <4>1. i \in cursor + 1 .. oldest
        BY <1>3, <1>4, <2>7, <3>1, <3>3
      <4> QED
        BY <4>1, <1>10
    <3>4. CASE oldest < i
      <4>1. i \in oldest + 1 .. last
        BY <1>3, <1>4, <2>7, <3>1, <3>4
      <4>2. signups[i] \in gone \/ i \in found
        BY <4>1 DEF found
      <4> QED
        BY <4>2, <2>15
    <3> QED
      BY <1>3, <1>4, <2>7, <3>1, <3>2, <3>3, <3>4
  <2>19. Unpruned(p)'
    <3>1. Pruned' = Pruned /\ signups' = signups
      BY <1>10 DEF Pruned, Quiet, mastodon
    <3>2. ASSUME NEW k \in Pruned, k[1] = "new_account"
          PROVE  \E i \in 1..cursor : signups[i] = k[2]
      BY <1>5, <3>2 DEF PrunedBehind
    <3>3. ASSUME NEW k \in Pruned
          PROVE  k \notin Todo(p)'
      <4>1. SUFFICES ASSUME NEW i \in found, k = NewKey(signups[i])
                     PROVE  FALSE
        BY <2>15
      <4>2. k[1] = "new_account" /\ k[2] = signups[i]
        BY <4>1 DEF NewKey
      <4>3. PICK j \in 1..cursor : signups[j] = signups[i]
        BY <3>2, <4>2
      <4>4. i \in 1..last /\ j \in 1..last /\ j # i
        BY <1>3, <2>2
      <4> QED
        BY <1>3, <4>3, <4>4
    <3>4. ASSUME NEW k \in Pruned, k[1] = "new_account"
          PROVE  \E i \in 1..newest : signups[i] = k[2]
      <4>1. PICK i \in 1..cursor : signups[i] = k[2]
        BY <3>2, <3>4
      <4>2. i \in 1..newest
        BY <1>3, <2>7
      <4> QED
        BY <4>1, <4>2
    <3> QED
      BY <2>9, <2>10, <3>1, <3>3, <3>4 DEF Unpruned
  <2>20. Local(p)'
    BY <2>16, <2>17, <2>18, <2>19 DEF Local
  <2> QED
    BY <1>1, <1>10, <2>9, <2>10, <2>13, <2>14, <2>20, Shifted
<1> QED
  BY <1>6, <1>7, <1>8, <1>9, <1>10 DEF Discover

LEMMA SilentKeeps ==
    ASSUME IInv, NEW p \in Pollers, Silent(p)
    PROVE  IInv'
<1>1. /\ TypeOK /\ poll[p] \in Polls /\ Staged(p) /\ poll[p].pc = "silent" /\ faults \in Nat
  BY PollFacts DEF Silent
<1>2. poll[p].todo = <<>> /\ poll[p].newest = 0 /\ poll[p].batch = <<>> /\ poll[p].fresh = <<>>
  BY <1>1 DEF Staged
<1> DEFINE last == Len(signups)
           quiet == {i \in DOMAIN signups : signups[i] \notin gone /\ posts[signups[i]] = 0}
<1>3. /\ last \in Nat /\ DOMAIN signups = 1..last /\ \A i \in 1..last : signups[i] \in Accounts
  BY <1>1 DEF TypeOK
<1>4. CASE UNCHANGED faults /\ OnlyPoll(p, [poll[p] EXCEPT !.pc = "finish"])
  BY <1>1, <1>4, GoesOnKeeps
<1>5. CASE Defer(p) \/ Limited(p) \/ Fails(p, "finish")
  BY <1>1, <1>5, GivesUpKeeps
<1>6. ASSUME UNCHANGED faults, NEW s \in {<<>>} \cup InTurn(quiet),
             OnlyPoll(p, [poll[p] EXCEPT
                 !.pc = IF s = <<>> THEN "summary" ELSE "check", !.found = {},
                 !.todo = [i \in DOMAIN s |-> SilentKey(signups[s[i]])]])
      PROVE  IInv'
  <2> DEFINE todo == [i \in DOMAIN s |-> SilentKey(signups[s[i]])]
             pc == IF s = <<>> THEN "summary" ELSE "check"
             rec == [poll[p] EXCEPT !.pc = pc, !.found = {}, !.todo = todo]
  <2>1. OnlyPoll(p, rec) /\ faults' \in Nat
    BY <1>1, <1>6
  <2>2. /\ todo \in Seq(AlertKeys) /\ (s = <<>> => todo = <<>>) /\ (s # <<>> => todo # <<>>)
        /\ \A i \in DOMAIN todo : todo[i][1] = "silent_login"
    <3>1. CASE s = <<>>
      <4>1. todo = <<>>
        BY <3>1
      <4> HIDE DEF todo
      <4> QED
        BY <3>1, <4>1
    <3>2. CASE s # <<>>
      <4>1. quiet \in SUBSET (1..last) /\ s \in InTurn(quiet)
        BY <1>3, <3>2
      <4> DEFINE n == Cardinality(quiet)
      <4> HIDE DEF last, quiet
      <4>2. n \in Nat /\ s \in [1..n -> quiet]
        BY <1>3, <4>1, TurnOrder
      <4>3. s = <<>> \/ n # 0
        BY <4>2
      <4>4. \A i \in 1..n : SilentKey(signups[s[i]]) \in AlertKeys /\ SilentKey(signups[s[i]])[1] = "silent_login"
        BY <1>3, <4>1, <4>2, KeyParts
      <4>5. todo \in [1..n -> AlertKeys] /\ \A i \in 1..n : todo[i][1] = "silent_login"
        BY <4>2, <4>4
      <4> HIDE DEF todo, n
      <4> QED
        BY <3>2, <4>2, <4>3, <4>5, ListOf
    <3> QED
      BY <3>1, <3>2
  <2> HIDE DEF todo
  <2>3. rec \in Polls
    <3>1. {} \in SUBSET AlertKeys /\ pc \in Steps
      BY DEF Steps
    <3> HIDE DEF pc
    <3> QED
      BY <1>1, <2>2, <3>1 DEF Polls
  <2>4. /\ rec.pc = pc /\ rec.todo = todo /\ rec.newest = 0 /\ rec.batch = <<>>
        /\ rec.fresh = <<>> /\ rec.found = {}
    BY <1>1, <1>2 DEF Polls
  <2> HIDE DEF rec
  <2>5. poll'[p] = rec /\ TypeOK'
    BY <2>1, <2>3, TurnTypes
  <2>6. \A k \in Todo(p)' : k[1] = "silent_login"
    BY <2>2, <2>4, <2>5 DEF Todo
  <2>7. Staged(p)'
    <3>1. rec.pc \in {"check", "summary"} /\ (rec.pc = "check" <=> rec.todo # <<>>)
      BY <2>2, <2>4
    <3> QED
      BY <2>4, <2>5, <2>6, <3>1 DEF Staged
  <2>8. Sighted(p)'
    <3>1. Len(signups') \in Nat
      BY <2>5 DEF TypeOK
    <3> QED
      BY <2>4, <2>5, <3>1 DEF Sighted
  <2>9. Announced(p)'
    BY <2>4, <2>5 DEF Announced
  <2>10. Unpruned(p)'
    <3>1. Pruned' = Pruned
      BY <2>1 DEF OnlyPoll, Pruned, history
    <3>2. \A k \in Pruned : k[1] # "silent_login"
      BY DEF IInv, PrunedBehind
    <3> QED
      BY <2>4, <2>5, <2>6, <3>1, <3>2 DEF Unpruned
  <2>11. Local(p)'
    BY <2>7, <2>8, <2>9, <2>10 DEF Local
  <2> QED
    BY <1>1, <2>1, <2>3, <2>4, <2>11, Turned
<1> QED
  BY <1>4, <1>5, <1>6 DEF Silent

\* A poll that ends leaves nothing in its hands.
LEMMA IdleFacts ==
    /\ Idle.todo = <<>> /\ Idle.newest = 0 /\ Idle.batch = <<>> /\ Idle.pc = "idle"
    /\ Idle.found = {} /\ Idle.seen = 0 /\ Idle.fresh = <<>> /\ Idle.now = 0 /\ Idle.sent = 0
  BY DEF Idle

LEMMA FinishKeeps ==
    ASSUME IInv, NEW p \in Pollers, Finish(p)
    PROVE  IInv'
<1>1. /\ TypeOK /\ poll[p] \in Polls /\ Idle \in Polls /\ poll[p].pc = "finish"
  BY PollFacts DEF Finish
<1>2. /\ poll' = [poll EXCEPT ![p] = Idle]
      /\ UNCHANGED <<mastodon, bot, watch, alerts, history, faults, clicks>>
  BY DEF Finish
<1>3. /\ poll' \in [Pollers -> Polls] /\ poll'[p] = Idle
      /\ \A q \in Pollers \ {p} : poll'[q] = poll[q] /\ Same(q)
  BY <1>1, <1>2, PollPut
<1>4. /\ settings' \in [cursor : Nat, backoff : {None, "active", "over"}, silentDue : BOOLEAN]
      /\ settings'.cursor = settings.cursor
  <2>1. settings \in [cursor : Nat, backoff : {None, "active", "over"}, silentDue : BOOLEAN]
    BY <1>1 DEF TypeOK
  <2>2. \/ settings' = settings
        \/ settings' = [settings EXCEPT !.backoff = "active"]
        \/ settings' = [settings EXCEPT !.backoff = None]
    BY DEF Finish
  <2> QED
    BY <2>1, <2>2
<1>5. pace' \in [short : 0..2, factor : {1, 2, 4, 6}, interval : {1, 2, 4, 6}]
  <2>1. pace \in [short : 0..2, factor : {1, 2, 4, 6}, interval : {1, 2, 4, 6}]
    BY <1>1 DEF TypeOK
  <2>2. ASSUME NEW short \in BOOLEAN
        PROVE  Paced(short) \in [short : 0..2, factor : {1, 2, 4, 6}, interval : {1, 2, 4, 6}]
    <3>1. pace.factor \in {1, 2, 4, 6} /\ pace.interval \in {1, 2, 4, 6}
      BY <2>1
    <3>2. Stretched(pace.factor) \in {1, 2, 4, 6}
      BY <3>1 DEF Stretched
    <3> QED
      BY <3>1, <3>2 DEF Paced
  <2>3. poll[p].short \in BOOLEAN /\ poll[p].limited \in BOOLEAN
    BY <1>1 DEF Polls
  <2>4. (poll[p].short \/ poll[p].limited) \in BOOLEAN
    BY <2>3
  <2> QED
    BY <2>1, <2>2, <2>4 DEF Finish
<1>6. TypeOK'
  BY <1>1, <1>2, <1>3, <1>4, <1>5 DEF TypeOK, mastodon, bot, history
<1>7. Grows /\ Rows
  BY <1>1, <1>2, Unmoved DEF mastodon, history
<1>8. Local(p)'
  <2>1. Todo(p)' = {}
    BY <1>3, IdleFacts DEF Todo
  <2>2. Staged(p)'
    BY <1>3, <2>1, IdleFacts DEF Staged
  <2> QED
    BY <1>3, <1>6, <2>2, IdleFacts, EmptyHand
<1> QED
  BY <1>1, <1>2, <1>3, <1>4, <1>6, <1>7, <1>8, IdleFacts, Shifted DEF history

\* The welcomes: the message is sent before it is recorded, and stays in hand
\* between the two.
LEMMA WelcomeKeeps ==
    ASSUME IInv, NEW p \in Pollers, Welcome(p)
    PROVE  IInv'
<1>1. /\ TypeOK /\ poll[p] \in Polls /\ Staged(p) /\ poll[p].pc = "welcome" /\ faults \in Nat
      /\ poll[p].fresh \in Seq(Accounts)
  BY PollFacts DEF Welcome
<1>2. poll[p].todo = <<>> /\ poll[p].newest = 0 /\ poll[p].batch = <<>>
  BY <1>1 DEF Staged
<1> DEFINE a == Head(poll[p].fresh)
<1>3. ASSUME NEW rec \in Polls, OnlyPoll(p, rec), faults' \in Nat, rec.todo = <<>>, rec.newest = 0,
             rec.batch = <<>>, rec.found = poll[p].found,
             rec.pc = "welcome" \/ (rec.pc = "silent" /\ rec.fresh = <<>>)
      PROVE  IInv'
  <2>1. poll'[p] = rec
    BY <1>3, TurnTypes
  <2>2. Staged(p)'
    <3>1. Todo(p)' = {}
      BY <1>3, <2>1 DEF Todo
    <3> QED
      BY <1>3, <2>1, <3>1 DEF Staged
  <2> QED
    BY <1>1, <1>3, <2>2, TurnedEmpty
<1>4. CASE /\ faults' \in Nat
           /\ \/ OnlyPoll(p, [poll[p] EXCEPT !.pc = "silent", !.fresh = <<>>])
              \/ OnlyPoll(p, [poll[p] EXCEPT !.pc = "silent", !.fresh = <<>>, !.short = TRUE])
  <2>1. <<>> \in Seq(Accounts) /\ "silent" \in Steps /\ TRUE \in BOOLEAN
    BY DEF Steps
  <2>2. CASE OnlyPoll(p, [poll[p] EXCEPT !.pc = "silent", !.fresh = <<>>])
    <3> DEFINE rec == [poll[p] EXCEPT !.pc = "silent", !.fresh = <<>>]
    <3>1. rec \in Polls
      BY <1>1, <2>1 DEF Polls
    <3>2. /\ rec.todo = <<>> /\ rec.newest = 0 /\ rec.batch = <<>> /\ rec.found = poll[p].found
          /\ rec.pc = "silent" /\ rec.fresh = <<>>
      BY <1>1, <1>2 DEF Polls
    <3> QED
      BY <1>3, <1>4, <2>2, <3>1, <3>2
  <2>3. CASE OnlyPoll(p, [poll[p] EXCEPT !.pc = "silent", !.fresh = <<>>, !.short = TRUE])
    <3> DEFINE rec == [poll[p] EXCEPT !.pc = "silent", !.fresh = <<>>, !.short = TRUE]
    <3>1. rec \in Polls
      BY <1>1, <2>1 DEF Polls
    <3>2. /\ rec.todo = <<>> /\ rec.newest = 0 /\ rec.batch = <<>> /\ rec.found = poll[p].found
          /\ rec.pc = "silent" /\ rec.fresh = <<>>
      BY <1>1, <1>2 DEF Polls
    <3> QED
      BY <1>3, <1>4, <2>3, <3>1, <3>2
  <2> QED
    BY <1>4, <2>2, <2>3
<1>5. CASE faults' \in Nat /\ poll[p].fresh # <<>> /\ OnlyPoll(p, NextWelcome(poll[p]))
  <2> DEFINE rec == NextWelcome(poll[p])
  <2>1. Tail(poll[p].fresh) \in Seq(Accounts) /\ "welcome" \in Steps
    BY <1>1, <1>5, HeadAndTail DEF Steps
  <2>2. rec \in Polls
    BY <1>1, <2>1 DEF Polls, NextWelcome
  <2>3. /\ rec.todo = <<>> /\ rec.newest = 0 /\ rec.batch = <<>> /\ rec.found = poll[p].found
        /\ rec.pc = "welcome"
    BY <1>1, <1>2 DEF Polls, NextWelcome
  <2> QED
    BY <1>3, <1>5, <2>2, <2>3
<1>6. CASE /\ poll[p].fresh # <<>> /\ poll[p].sent < MaxWelcomes
           /\ a \notin welcomed /\ DirectMessage(a)
           /\ poll' = [poll EXCEPT ![p].pc = "record"]
           /\ UNCHANGED <<welcomed, sender, again, watch, alerts, settings, history, faults>> /\ Quiet
  <2>1. PICK b \in Accounts : b = Head(poll[p].fresh)
    BY <1>1, <1>6, HeadAndTail
  <2> DEFINE rec == [poll[p] EXCEPT !.pc = "record"]
  <2>2. rec \in Polls
    BY <1>1 DEF Polls, Steps
  <2>3. /\ rec.todo = <<>> /\ rec.newest = 0 /\ rec.batch = <<>> /\ rec.found = poll[p].found
        /\ rec.pc = "record" /\ rec.fresh = poll[p].fresh /\ rec.sent = poll[p].sent
    BY <1>1, <1>2 DEF Polls
  <2>4. poll' = [poll EXCEPT ![p] = rec]
    BY <1>6
  <2> HIDE DEF rec
  <2>5. /\ poll' \in [Pollers -> Polls] /\ poll'[p] = rec
        /\ \A q \in Pollers \ {p} : poll'[q] = poll[q] /\ Same(q)
    BY <1>1, <2>2, <2>4, PollPut
  <2>6. dms' \in [Accounts -> Nat] /\ keys' \subseteq Accounts
    <3>1. DirectMessage(b)
      BY <1>6, <2>1
    <3> QED
      BY <1>1, <3>1 DEF TypeOK, DirectMessage
  <2>7. TypeOK'
    BY <1>1, <1>6, <2>5, <2>6 DEF TypeOK, Quiet, mastodon, history
  <2>8. Grows /\ Rows
    BY <1>1, <1>6, Unmoved DEF Quiet, mastodon, history
  <2>9. Local(p)'
    <3>1. Todo(p)' = {}
      BY <2>3, <2>5 DEF Todo
    <3>2. Staged(p)'
      BY <1>6, <2>3, <2>5, <3>1 DEF Staged
    <3> QED
      BY <2>3, <2>5, <2>7, <3>2, EmptyHand
  <2>10. PostsCovered' /\ SignUpsCovered' /\ PrunedBehind' /\ RaisedPosted'
    BY <1>6, <2>7, <2>8, CursorsKept DEF RaisesPosted, history
  <2>11. Hushed
    BY <1>1, <1>6, <2>3, <2>5 DEF Hushed, history
  <2>12. \A q \in Pollers : Untold(q)'
    BY <2>11, UntoldKept
  <2>13. Welcomes'
    <3>1. InHand(b)'
      BY <2>1, <2>3, <2>5 DEF InHand
    <3>2. \A c \in Accounts : InHand(c) => InHand(c)'
      BY <1>1, <1>6, <2>5 DEF InHand
    <3>3. DirectMessage(b) /\ UNCHANGED welcomed /\ again' = again /\ b \notin welcomed
      BY <1>6, <2>1
    <3> QED
      BY <3>1, <3>2, <3>3, MessageSent
  <2>14. AlertsOnce'
    BY <1>6 DEF IInv, AlertsOnce, history
  <2> QED
    BY <2>5, <2>7, <2>8, <2>9, <2>10, <2>12, <2>13, <2>14, Moved
<1>7. faults' = faults \/ Fault => faults' \in Nat
  BY <1>1 DEF Fault
<1>8. CASE /\ poll[p].fresh # <<>> /\ a \notin welcomed /\ Fault /\ Unrecorded(a)
           /\ poll' = [poll EXCEPT ![p] = NextWelcome(@)]
           /\ UNCHANGED <<sender, watch, alerts, settings, history>> /\ Quiet
  <2>1. PICK b \in Accounts : b = Head(poll[p].fresh)
    BY <1>1, <1>8, HeadAndTail
  <2> DEFINE rec == NextWelcome(poll[p])
  <2>2. Tail(poll[p].fresh) \in Seq(Accounts) /\ "welcome" \in Steps
    BY <1>1, <1>8, HeadAndTail DEF Steps
  <2>3. rec \in Polls
    BY <1>1, <2>2 DEF Polls, NextWelcome
  <2>4. /\ rec.todo = <<>> /\ rec.newest = 0 /\ rec.batch = <<>> /\ rec.found = poll[p].found
        /\ rec.pc = "welcome"
    BY <1>1, <1>2 DEF Polls, NextWelcome
  <2>5. poll' = [poll EXCEPT ![p] = rec]
    BY <1>8
  <2> HIDE DEF rec
  <2>6. /\ poll' \in [Pollers -> Polls] /\ poll'[p] = rec
        /\ \A q \in Pollers \ {p} : poll'[q] = poll[q] /\ Same(q)
    BY <1>1, <2>3, <2>5, PollPut
  <2>7. DirectMessage(b) /\ again' = again \cup {b} /\ UNCHANGED welcomed
    BY <1>8, <2>1 DEF Unrecorded
  <2>8. TypeOK'
    <3>1. dms' \in [Accounts -> Nat] /\ keys' \subseteq Accounts /\ again' \subseteq Accounts
      BY <1>1, <2>7 DEF TypeOK, DirectMessage
    <3> QED
      BY <1>1, <1>7, <1>8, <2>6, <2>7, <3>1 DEF TypeOK, Quiet, mastodon, history
  <2>9. Grows /\ Rows
    BY <1>1, <1>8, Unmoved DEF Quiet, mastodon, history
  <2>10. Local(p)'
    <3>1. Todo(p)' = {}
      BY <2>4, <2>6 DEF Todo
    <3>2. Staged(p)'
      BY <2>4, <2>6, <3>1 DEF Staged
    <3> QED
      BY <2>4, <2>6, <2>8, <3>2, EmptyHand
  <2>11. PostsCovered' /\ SignUpsCovered' /\ PrunedBehind' /\ RaisedPosted'
    BY <1>8, <2>8, <2>9, CursorsKept DEF RaisesPosted, history
  <2>12. Hushed
    BY <1>1, <1>8, <2>4, <2>6 DEF Hushed, history
  <2>13. \A q \in Pollers : Untold(q)'
    BY <2>12, UntoldKept
  <2>14. Welcomes'
    <3>1. \A c \in Accounts : InHand(c) => InHand(c)'
      BY <1>1, <1>8, <2>6 DEF InHand
    <3> QED
      BY <2>7, <3>1, MessageSent
  <2>15. AlertsOnce'
    BY <1>8 DEF IInv, AlertsOnce, history
  <2> QED
    BY <2>6, <2>8, <2>9, <2>10, <2>11, <2>13, <2>14, <2>15, Moved
<1> QED
  BY <1>4, <1>5, <1>6, <1>7, <1>8 DEF Welcome

LEMMA RecordKeeps ==
    ASSUME IInv, NEW p \in Pollers, Record(p)
    PROVE  IInv'
<1>1. /\ TypeOK /\ poll[p] \in Polls /\ Staged(p) /\ poll[p].pc = "record" /\ Idle \in Polls
      /\ poll[p].fresh \in Seq(Accounts)
  BY PollFacts DEF Record
<1>2. /\ poll[p].todo = <<>> /\ poll[p].newest = 0 /\ poll[p].batch = <<>>
      /\ poll[p].fresh # <<>> /\ poll[p].sent < MaxWelcomes
  BY <1>1 DEF Staged
<1> DEFINE a == Head(poll[p].fresh)
<1>3. a \in Accounts
  BY <1>1, <1>2, HeadAndTail
<1>4. /\ \/ welcomed' = welcomed \cup {a} /\ again' = again
         \/ welcomed' = welcomed /\ again' = again \cup {a}
      /\ faults' \in Nat
      /\ UNCHANGED <<dms, keys, sender, watch, alerts, settings, history>> /\ Quiet
  BY <1>1 DEF Record, Dies, OnlyPoll, bot, Fault, TypeOK
<1>5. PICK rec \in Polls :
          /\ poll' = [poll EXCEPT ![p] = rec] /\ rec.todo = <<>> /\ rec.newest = 0 /\ rec.batch = <<>>
          /\ rec.found \in {{}, poll[p].found}
          /\ rec.pc = "welcome" \/ (rec.pc = "idle" /\ rec.fresh = <<>> /\ rec.seen = 0)
  <2>1. CASE poll' = [poll EXCEPT ![p] = Idle]
    BY <1>1, <2>1, IdleFacts
  <2>2. CASE poll' # [poll EXCEPT ![p] = Idle]
    <3> DEFINE rec == [NextWelcome(poll[p]) EXCEPT !.sent = poll[p].sent + 1]
    <3>1. poll' = [poll EXCEPT ![p] = rec]
      BY <2>2 DEF Record, Dies, OnlyPoll
    <3>2. Tail(poll[p].fresh) \in Seq(Accounts) /\ "welcome" \in Steps
      BY <1>1, <1>2, HeadAndTail DEF Steps
    <3>3. poll[p].sent \in 0..MaxWelcomes
      BY <1>1 DEF Polls
    <3>4. poll[p].sent + 1 \in 0..MaxWelcomes
      BY <1>2, <3>3, ModerationAssumption
    <3>5. NextWelcome(poll[p]) \in Polls /\ NextWelcome(poll[p]).sent = poll[p].sent
      BY <1>1, <3>2 DEF Polls, NextWelcome
    <3>6. rec \in Polls
      BY <3>4, <3>5 DEF Polls
    <3>7. /\ rec.todo = <<>> /\ rec.newest = 0 /\ rec.batch = <<>> /\ rec.found = poll[p].found
          /\ rec.pc = "welcome"
      BY <1>1, <1>2 DEF Polls, NextWelcome
    <3> QED
      BY <3>1, <3>6, <3>7
  <2> QED
    BY <2>1, <2>2
<1> HIDE DEF a
<1>6. /\ poll' \in [Pollers -> Polls] /\ poll'[p] = rec
      /\ \A q \in Pollers \ {p} : poll'[q] = poll[q] /\ Same(q)
  BY <1>1, <1>5, PollPut
<1>7. TypeOK'
  BY <1>1, <1>3, <1>4, <1>6 DEF TypeOK, Quiet, mastodon, history
<1>8. Grows /\ Rows
  BY <1>1, <1>4, Unmoved DEF Quiet, mastodon, history
<1>9. Local(p)'
  <2>1. Todo(p)' = {}
    BY <1>5, <1>6 DEF Todo
  <2>2. Staged(p)'
    BY <1>5, <1>6, <2>1 DEF Staged
  <2> QED
    BY <1>5, <1>6, <1>7, <2>2, EmptyHand
<1>10. PostsCovered' /\ SignUpsCovered' /\ PrunedBehind' /\ RaisedPosted'
  BY <1>4, <1>7, <1>8, CursorsKept DEF RaisesPosted, history
<1>11. Hushed
  BY <1>1, <1>4, <1>5, <1>6 DEF Hushed, history
<1>12. \A q \in Pollers : Untold(q)'
  BY <1>11, UntoldKept
<1>13. Welcomes'
  <2>1. \A b \in Accounts : InHand(b) => b = a \/ InHand(b)'
    BY <1>4, <1>6 DEF InHand, a
  <2>2. Welcomes
    BY DEF IInv
  <2> QED
    BY <1>4, <2>1, <2>2 DEF Welcomes
<1>14. AlertsOnce'
  BY <1>4 DEF IInv, AlertsOnce, history
<1> QED
  BY <1>6, <1>7, <1>8, <1>9, <1>10, <1>12, <1>13, <1>14, Moved

----------------------------------------------------------------------------
\* The beginning of a poll: the checks are ranked anew.
LEMMA RankTypes ==
    ASSUME TypeOK
    PROVE  LET times == ({watch[a].checked : a \in Accounts} \cup {poll[q].now : q \in Pollers}) \ {0}
           IN  /\ Cardinality(times) \in Nat
               /\ \A t : Cardinality({u \in times : u <= t}) \in Nat
<1> DEFINE checks == {watch[a].checked : a \in Accounts}
           nows == {poll[q].now : q \in Pollers}
           times == (checks \cup nows) \ {0}
<1>1. IsFiniteSet(checks)
  <2> DEFINE f == [a \in Accounts |-> watch[a].checked]
  <2>1. f \in Surjection(Accounts, checks)
    BY DEF Surjection
  <2> HIDE DEF f, checks
  <2> QED
    BY <2>1, FS_Surjection, ModerationAssumption
<1>2. IsFiniteSet(nows)
  <2>1. nows = {poll["cron"].now} \cup {poll["now"].now}
    BY DEF Pollers
  <2>2. IsFiniteSet({poll["cron"].now}) /\ IsFiniteSet({poll["now"].now})
    BY FS_Singleton
  <2> HIDE DEF nows
  <2> QED
    BY <2>1, <2>2, FS_Union
<1> HIDE DEF checks, nows
<1>3. IsFiniteSet(checks \cup nows)
  BY <1>1, <1>2, FS_Union
<1>4. IsFiniteSet(times)
  BY <1>3, FS_Subset
<1> HIDE DEF times
<1>5. \A t : IsFiniteSet({u \in times : u <= t})
  BY <1>4, FS_Subset
<1>6. Cardinality(times) \in Nat /\ \A t : Cardinality({u \in times : u <= t}) \in Nat
  BY <1>4, <1>5, FS_CardinalityType
<1> QED
  BY <1>6 DEF times, checks, nows

LEMMA StartKeeps ==
    ASSUME IInv, NEW p \in Pollers, Start(p)
    PROVE  IInv'
<1>1. /\ TypeOK /\ poll[p] \in Polls /\ Idle \in Polls /\ poll[p].pc = "idle"
  BY PollFacts DEF Start
<1> DEFINE times == ({watch[a].checked : a \in Accounts} \cup {poll[q].now : q \in Pollers}) \ {0}
           Rank(t) == Cardinality({u \in times : u <= t})
           rec == [Idle EXCEPT !.pc = "prune", !.now = Cardinality(times) + 1]
<1>2. Cardinality(times) + 1 \in Nat /\ \A t : Rank(t) \in Nat
  <2>1. Cardinality(times) \in Nat /\ \A t : Rank(t) \in Nat
    BY <1>1, RankTypes
  <2> HIDE DEF times, Rank
  <2> QED
    BY <2>1
<1>3. /\ watch' = [a \in Accounts |-> [watch[a] EXCEPT !.checked = Rank(watch[a].checked)]]
      /\ poll' = [q \in Pollers |-> IF q = p THEN rec ELSE [poll[q] EXCEPT !.now = Rank(poll[q].now)]]
      /\ UNCHANGED <<bot, alerts, settings, history, faults>> /\ Quiet
  BY DEF Start
<1> HIDE DEF times, Rank
<1>4. /\ rec \in Polls /\ rec.pc = "prune" /\ rec.found = {} /\ rec.todo = <<>> /\ rec.newest = 0
      /\ rec.batch = <<>> /\ rec.seen = 0 /\ rec.fresh = <<>>
  <2>1. rec \in Polls
    BY <1>1, <1>2 DEF Polls, Steps
  <2> QED
    BY <2>1, IdleFacts DEF Idle
<1> HIDE DEF rec
<1>5. ASSUME NEW q \in Pollers \ {p}
      PROVE  poll'[q] \in Polls /\ Same(q)
  <2>1. poll[q] \in Polls /\ Rank(poll[q].now) \in Nat
    BY <1>1, <1>2 DEF TypeOK
  <2>2. poll'[q] = [poll[q] EXCEPT !.now = Rank(poll[q].now)]
    BY <1>3
  <2>3. poll'[q] \in Polls
    BY <2>1, <2>2 DEF Polls
  <2>4. Same(q)
    BY <2>1, <2>2 DEF Same, SameHand, Polls
  <2> QED
    BY <2>3, <2>4
<1>6. poll'[p] = rec
  BY <1>3
<1>7. poll' \in [Pollers -> Polls]
  <2>1. poll' = [q \in Pollers |-> poll'[q]]
    BY <1>3
  <2>2. \A q \in Pollers : poll'[q] \in Polls
    BY <1>4, <1>5, <1>6
  <2> QED
    BY <2>1, <2>2
<1>8. ASSUME NEW a \in Accounts
      PROVE  /\ watch'[a] \in WatchRows /\ watch'[a].cursor = watch[a].cursor
             /\ watch'[a].since = watch[a].since /\ watch'[a].missed = watch[a].missed
             /\ watch'[a].expires = watch[a].expires
  <2>1. watch[a] \in WatchRows /\ Rank(watch[a].checked) \in Nat
    BY <1>1, <1>2 DEF TypeOK
  <2>2. watch'[a] = [watch[a] EXCEPT !.checked = Rank(watch[a].checked)]
    BY <1>3
  <2> QED
    BY <2>1, <2>2 DEF WatchRows
<1>9. watch' \in [Accounts -> WatchRows]
  <2>1. watch' = [a \in Accounts |-> watch'[a]]
    BY <1>3
  <2> QED
    BY <2>1, <1>8
<1>10. TypeOK'
  <2>1. \A a \in Accounts : watch'[a].cursor <= posts[a]
    BY <1>1, <1>8 DEF TypeOK
  <2> QED
    BY <1>1, <1>3, <1>7, <1>9, <2>1 DEF TypeOK, Quiet, mastodon, bot, history
<1>11. Rows
  BY <1>8 DEF Rows, Watched
<1>12. Grows
  BY <1>1, <1>3, <1>11, RowsMoved DEF Quiet, mastodon, history
<1>13. Local(p)'
  <2>1. Todo(p)' = {}
    BY <1>4, <1>6 DEF Todo
  <2>2. Staged(p)'
    BY <1>4, <1>6, <2>1 DEF Staged
  <2> QED
    BY <1>4, <1>6, <1>10, <2>2, EmptyHand
<1> QED
  BY <1>1, <1>3, <1>4, <1>5, <1>6, <1>10, <1>11, <1>12, <1>13, Shifted DEF history

\* Watches that are over end, and alerts that are settled may be deleted: posts
\* and sign-ups when no other poll is under way, so that nobody holds a cursor
\* that is behind one, silent logins when no poll is about to tell of them.
LEMMA PruneKeeps ==
    ASSUME IInv, NEW p \in Pollers, Prune(p)
    PROVE  IInv'
<1>1. /\ TypeOK /\ poll[p] \in Polls /\ Staged(p) /\ poll[p].pc = "prune"
  BY PollFacts DEF Prune
<1>2. /\ poll[p].todo = <<>> /\ poll[p].newest = 0 /\ poll[p].batch = <<>> /\ poll[p].seen = 0
      /\ poll[p].fresh = <<>>
  BY <1>1 DEF Staged
<1>3. /\ watch' = [a \in Accounts |-> IF watch[a].expires = "over" THEN Absent ELSE watch[a]]
      /\ poll' = [poll EXCEPT ![p].pc = "query"]
      /\ UNCHANGED <<bot, settings, twice, bootstrapped, overlooked, faults>> /\ Quiet
  BY DEF Prune
<1>15. PICK old \in SUBSET {k \in alerts : Settled(p, k)} :
          /\ alerts' = alerts \ old
          /\ raised' = raised \ Logins(old) /\ told' = told \ Logins(old)
  BY DEF Prune
<1> DEFINE rec == [poll[p] EXCEPT !.pc = "query"]
<1>4. rec \in Polls
  BY <1>1 DEF Polls, Steps
<1>5. /\ rec.pc = "query" /\ rec.todo = <<>> /\ rec.newest = 0 /\ rec.batch = <<>> /\ rec.seen = 0
      /\ rec.fresh = <<>> /\ rec.found = poll[p].found
  BY <1>1, <1>2 DEF Polls
<1>6. poll' = [poll EXCEPT ![p] = rec]
  BY <1>3
<1> HIDE DEF rec
<1>7. /\ poll' \in [Pollers -> Polls] /\ poll'[p] = rec
      /\ \A q \in Pollers \ {p} : poll'[q] = poll[q] /\ Same(q)
  BY <1>1, <1>4, <1>6, PollPut
<1>8. ASSUME NEW a \in Accounts
      PROVE  /\ watch'[a] \in WatchRows /\ watch'[a].cursor <= posts[a]
             /\ watch'[a] = watch[a] \/ watch'[a].expires = "absent"
  <2>1. watch[a] \in WatchRows /\ watch[a].cursor <= posts[a] /\ posts[a] \in Nat
    BY <1>1 DEF TypeOK
  <2>2. watch'[a] = watch[a] \/ watch'[a] = Absent
    BY <1>3
  <2> QED
    BY <2>1, <2>2, AbsentRow
<1>9. watch' \in [Accounts -> WatchRows]
  <2>1. watch' = [a \in Accounts |-> watch'[a]]
    BY <1>3
  <2> QED
    BY <2>1, <1>8
<1>10. \A a \in Watched' : a \in Watched /\ watch'[a] = watch[a]
  BY <1>8 DEF Watched
<1>11. TypeOK'
  <2>1. alerts' \subseteq raised' /\ raised' \subseteq AlertKeys
    BY <1>1, <1>15 DEF TypeOK, Logins
  <2> QED
    BY <1>1, <1>3, <1>7, <1>8, <1>9, <2>1 DEF TypeOK, Quiet, mastodon, bot
<1>12. Staged(p)' /\ Local(p)'
  <2>1. Todo(p)' = {}
    BY <1>5, <1>7 DEF Todo
  <2>2. Staged(p)'
    BY <1>5, <1>7, <2>1 DEF Staged
  <2> QED
    BY <1>5, <1>7, <1>11, <2>2, EmptyHand
<1>13. Rows
  BY <1>10 DEF Rows
<1>14. \A k \in old : k \in AlertKeys /\ k \in raised /\ Settled(p, k)
  BY <1>1, <1>15 DEF TypeOK
<1>16. \A k \in raised : k \in raised' \/ k[1] = "silent_login"
  BY <1>15 DEF Logins
<1>17. Welcomes'
  BY <1>1, <1>3, <1>7, WelcomesKept
<1>18. AlertsOnce'
  BY <1>3, <1>15 DEF IInv, AlertsOnce
<1>19. ASSUME NEW q \in Pollers
       PROVE  Untold(q)'
  <2>1. /\ \A r \in Pollers : Untold(r) /\ Staged(r) /\ poll'[r].found = poll[r].found
        /\ \A r \in Pollers : poll'[r].pc = "notify" => poll[r].pc = "notify" /\ Key(r)' = Key(r)
        /\ \A r \in Pollers : poll'[r].pc # "finish" => poll[r].pc # "finish"
    BY <1>1, <1>5, <1>7 DEF IInv, Same, SameHand, Key
  <2>2. poll[q].found \cap Logins(old) = {}
    BY <1>14 DEF Logins, Settled
  <2>3. ASSUME poll[q].pc = "notify"
        PROVE  Key(q) \notin Logins(old)
    <3>1. poll[q].todo \in Seq(AlertKeys) /\ poll[q].todo # <<>>
      BY <2>1, <2>3, PollFacts DEF Staged
    <3>2. Key(q) \in Todo(q)
      BY <3>1 DEF Key, Todo
    <3> QED
      BY <2>1, <2>3, <3>2 DEF Staged, Logins
  <2>4. poll'[q].pc = "notify" => Key(q)' \in raised' \ told'
    BY <1>15, <2>1, <2>3 DEF Untold
  <2>5. poll'[q].found \subseteq raised' /\ \A k \in poll'[q].found : k[1] = "silent_login"
    BY <1>15, <2>1, <2>2 DEF Untold
  <2>6. poll'[q].pc # "finish" => poll'[q].found \cap told' = {}
    BY <1>15, <2>1 DEF Untold
  <2>7. ASSUME NEW r \in Pollers \ {q}
        PROVE  /\ poll'[q].found \cap poll'[r].found = {}
               /\ poll'[q].pc = "notify" /\ poll'[r].pc = "notify" => Key(q)' # Key(r)'
    BY <2>1 DEF Untold
  <2> QED
    BY <2>4, <2>5, <2>6, <2>7 DEF Untold
<1>20. CASE \A k \in old : k[1] = "silent_login"
  <2>1. \A k \in Pruned' : k \in Pruned
    BY <1>15, <1>20 DEF Pruned, Logins
  <2>2. Grows
    <3>1. /\ \A a \in Accounts : posts[a] <= posts'[a]
          /\ DOMAIN signups \subseteq DOMAIN signups' /\ Len(signups) <= Len(signups')
          /\ \A i \in DOMAIN signups : signups'[i] = signups[i]
          /\ gone \subseteq gone' /\ overlooked \subseteq overlooked' /\ bootstrapped <= bootstrapped'
      BY <1>1, <1>3 DEF TypeOK, Quiet, mastodon
    <3> QED
      BY <1>10, <1>16, <2>1, <3>1 DEF Grows
  <2>3. PostsCovered' /\ SignUpsCovered' /\ PrunedBehind' /\ RaisedPosted'
    BY <1>3, <1>11, <1>13, <1>15, <2>2, CursorsKept DEF RaisesPosted
  <2> QED
    BY <1>7, <1>11, <1>12, <1>17, <1>18, <1>19, <2>2, <2>3, Moved
<1>21. CASE \A q \in Pollers \ {p} : poll[q].pc = "idle"
  <2>1. ASSUME NEW q \in Pollers \ {p}
        PROVE  Local(q)'
    <3>1. Staged(q) /\ poll[q].pc = "idle" /\ poll'[q] = poll[q]
      BY <1>7, <1>21, PollFacts
    <3>2. poll'[q].todo = <<>> /\ poll'[q].newest = 0 /\ poll'[q].batch = <<>>
      BY <3>1 DEF Staged
    <3>3. Staged(q)'
      <4>1. At(q)' = At(q) /\ Todo(q)' = Todo(q) /\ posts' = posts
        BY <3>1, <1>3 DEF At, Todo, Quiet, mastodon
      <4> QED
        BY <3>1, <4>1 DEF Staged
    <3> QED
      BY <3>2, <3>3, <1>11, EmptyHand
  <2>2. PostsCovered /\ SignUpsCovered /\ PrunedBehind /\ RaisedPosted
    BY DEF IInv, NothingPassedOver
  <2>3. PostsCovered'
    BY <1>10, <1>16, <2>2, KeyKinds DEF PostsCovered
  <2>4. SignUpsCovered' /\ RaisedPosted'
    BY <1>3, <1>15, <1>16, <2>2, KeyKinds DEF SignUpsCovered, RaisedPosted, Quiet, mastodon
  <2>5. PrunedBehind'
    <3> SUFFICES ASSUME NEW k \in Pruned'
                 PROVE  /\ k[1] # "silent_login"
                        /\ k[1] = "watched_post" /\ k[2] \in Watched' =>
                              watch'[k[2]].cursor = 0 \/ k[3] <= watch'[k[2]].cursor
                        /\ k[1] = "new_account" => \E i \in 1..settings.cursor : signups[i] = k[2]
      BY <1>3 DEF PrunedBehind, Quiet, mastodon
    <3>1. k \in Pruned \/ (k \in AlertKeys /\ k[1] # "silent_login" /\ Settled(p, k))
      BY <1>14, <1>15 DEF Pruned, Logins
    <3>2. CASE k \in Pruned
      BY <1>10, <2>2, <3>2 DEF PrunedBehind
    <3>3. CASE k \in AlertKeys /\ k[1] # "silent_login" /\ Settled(p, k)
      <4>1. ASSUME k[1] = "watched_post", k[2] \in Watched'
            PROVE  k[3] <= watch'[k[2]].cursor
        <5>1. k[2] \in Watched /\ watch'[k[2]] = watch[k[2]]
          BY <1>10, <4>1
        <5>2. watch[k[2]].cursor >= k[3]
          BY <3>3, <4>1, <5>1 DEF Settled
        <5>3. k[3] \in Nat /\ watch[k[2]].cursor \in Nat
          <6>1. k[3] \in 1..MaxPosts /\ k[2] \in Accounts
            BY <3>3, <4>1, KeyParts
          <6>2. watch[k[2]].cursor \in 0..MaxPosts
            BY <1>1, <6>1 DEF TypeOK, WatchRows
          <6> QED
            BY <6>1, <6>2
        <5> QED
          BY <5>1, <5>2, <5>3
      <4> QED
        BY <3>3, <4>1 DEF Settled
    <3> QED
      BY <3>1, <3>2, <3>3
  <2> QED
    BY <1>11, <1>12, <1>17, <1>18, <1>19, <2>1, <2>3, <2>4, <2>5 DEF IInv, NothingPassedOver, Local
<1> QED
  BY <1>14, <1>20, <1>21 DEF Settled

\* The process ends: whoever was just welcomed may be welcomed again.
LEMMA RestartKeeps ==
    ASSUME IInv, Restart
    PROVE  IInv'
<1>1. TypeOK /\ Welcomes /\ \A q \in Pollers : Staged(q)
  BY DEF IInv, NothingPassedOver
<1>2. /\ again' = again \cup {Head(poll[q].fresh) : q \in {r \in Pollers : poll[r].pc = "record"}}
                        \cup ({sender} \ {None})
      /\ poll' = [q \in Pollers |-> Idle] /\ sender' = None
      /\ pace' = [short |-> 0, factor |-> 1, interval |-> 1]
      /\ UNCHANGED <<mastodon, dms, keys, welcomed, watch, alerts, settings, history, clicks>>
      /\ faults' = faults + 1
  BY DEF Restart, Fault
<1>3. Idle \in Polls /\ poll' \in [Pollers -> Polls] /\ \A q \in Pollers : poll'[q] = Idle
  BY <1>2, ModerationAssumption DEF Idle, Polls, Steps
<1>4. again' \subseteq Accounts
  <2>1. ASSUME NEW q \in Pollers, poll[q].pc = "record"
        PROVE  Head(poll[q].fresh) \in Accounts
    <3>1. poll[q].fresh # <<>> /\ poll[q].fresh \in Seq(Accounts)
      BY <1>1, <2>1, PollFacts DEF Staged
    <3> QED
      BY <3>1, HeadAndTail
  <2>2. again \subseteq Accounts /\ sender \in Accounts \cup {None}
    BY <1>1 DEF TypeOK
  <2> QED
    BY <1>2, <2>1, <2>2
<1>5. TypeOK'
  BY <1>1, <1>2, <1>3, <1>4 DEF TypeOK, mastodon, history
<1>6. Grows /\ Rows
  BY <1>1, <1>2, Unmoved DEF mastodon, history
<1>7. PostsCovered' /\ SignUpsCovered' /\ PrunedBehind' /\ RaisedPosted'
  BY <1>2, <1>5, <1>6, CursorsKept DEF RaisesPosted, history
<1>8. ASSUME NEW q \in Pollers
      PROVE  Local(q)'
  <2>1. Todo(q)' = {}
    BY <1>3, IdleFacts DEF Todo
  <2>2. Staged(q)'
    BY <1>3, <2>1, IdleFacts DEF Staged
  <2> QED
    BY <1>3, <1>5, <2>2, IdleFacts, EmptyHand
<1>9. Hushed
  BY <1>2, <1>3, IdleFacts DEF Hushed, history
<1>10. \A q \in Pollers : Untold(q)'
  BY <1>9, UntoldKept
<1>11. Welcomes'
  <2>1. \A a \in Accounts : InHand(a) => a \in again'
    BY <1>2, ModerationAssumption DEF InHand, None
  <2> QED
    BY <1>1, <1>2, <2>1 DEF Welcomes
<1>12. AlertsOnce'
  BY <1>2 DEF IInv, AlertsOnce, history
<1> QED
  BY <1>5, <1>7, <1>8, <1>10, <1>11, <1>12 DEF IInv, NothingPassedOver, Local

----------------------------------------------------------------------------
LEMMA InitHolds == Init => IInv
<1> SUFFICES ASSUME Init PROVE IInv
  OBVIOUS
<1> DEFINE old == Accounts \ Newcomers
           n == Cardinality(old)
<1>1. n \in Nat
  <2>1. IsFiniteSet(old)
    BY ModerationAssumption, FS_Subset
  <2> QED
    BY <2>1, FS_CardinalityType
<1>2. /\ signups \in Seq(Accounts) /\ Len(signups) \in Nat
      /\ \A i, j \in DOMAIN signups : signups[i] = signups[j] => i = j
  <2>1. /\ signups \in [1..n -> old]
        /\ \A i, j \in DOMAIN signups : signups[i] = signups[j] => i = j
    BY DEF Init
  <2> HIDE DEF n
  <2>2. signups \in [1..n -> Accounts]
    BY <2>1
  <2> QED
    BY <1>1, <2>1, <2>2, ListOf
<1>3. posts \in [Accounts -> 0..MaxPosts]
  BY ModerationAssumption DEF Init
<1>4. ASSUME NEW a \in Accounts
      PROVE  /\ watch[a] \in WatchRows /\ watch[a].cursor <= posts[a]
             /\ watch[a].expires # "absent" => watch[a].since = watch[a].cursor
             /\ watch[a].cursor \in Nat
  <2>1. posts[a] \in 0..MaxPosts
    BY <1>3
  <2>2. CASE a \in Followed
    <3>1. watch[a] = Row(posts[a], None, posts[a])
      BY <2>2 DEF Init
    <3>2. Row(posts[a], None, posts[a]) \in WatchRows
      BY <2>1 DEF Row, WatchRows
    <3> QED
      BY <2>1, <3>1, <3>2 DEF Row
  <2>3. CASE a \notin Followed
    <3>1. watch[a] = Absent
      BY <2>3 DEF Init
    <3> QED
      BY <2>1, <3>1, AbsentRow
  <2> QED
    BY <2>2, <2>3
<1>5. watch \in [Accounts -> WatchRows]
  <2>1. watch = [a \in Accounts |-> watch[a]]
    BY DEF Init
  <2> QED
    BY <1>4, <2>1
<1>6. Idle \in Polls /\ poll = [q \in Pollers |-> Idle] /\ poll \in [Pollers -> Polls]
  BY ModerationAssumption DEF Init, Idle, Polls, Steps
<1>7. /\ settings \in [cursor : Nat, backoff : {None, "active", "over"}, silentDue : BOOLEAN]
      /\ settings.cursor <= Len(signups) /\ bootstrapped = settings.cursor /\ bootstrapped \in Nat
  <2>1. settings = [cursor |-> IF PolledBefore THEN Len(signups) ELSE 0,
                    backoff |-> None, silentDue |-> ~PolledBefore] /\ bootstrapped = settings.cursor
    BY DEF Init
  <2>2. (IF PolledBefore THEN Len(signups) ELSE 0) \in Nat
    BY <1>2
  <2>3. (~PolledBefore) \in BOOLEAN
    BY ModerationAssumption
  <2>4. settings.cursor <= Len(signups)
    BY <1>2, <2>1
  <2> QED
    BY <2>1, <2>2, <2>3, <2>4
<1>8. TypeOK
  <2>1. pace \in [short : 0..2, factor : {1, 2, 4, 6}, interval : {1, 2, 4, 6}]
    BY DEF Init
  <2>2. dms \in [Accounts -> Nat]
    BY DEF Init
  <2> QED
    BY <1>2, <1>3, <1>4, <1>5, <1>6, <1>7, <2>1, <2>2 DEF TypeOK, Init
<1>9. PostsCovered
  <2>1. \A a \in Watched : watch[a].since + 1 .. watch[a].cursor = {}
    BY <1>4 DEF Watched
  <2> QED
    BY <2>1 DEF PostsCovered
<1>10. SignUpsCovered
  <2>1. bootstrapped + 1 .. settings.cursor = {}
    BY <1>7
  <2> QED
    BY <2>1 DEF SignUpsCovered
<1>11. AlertsOnce /\ Welcomes /\ PrunedBehind /\ RaisedPosted /\ Pruned = {}
  BY DEF Init, AlertsOnce, Welcomes, PrunedBehind, RaisedPosted, Pruned
<1>12. ASSUME NEW q \in Pollers
       PROVE  Staged(q) /\ Sighted(q) /\ Announced(q) /\ Unpruned(q) /\ Untold(q)
  <2>1. poll[q] = Idle /\ Todo(q) = {}
    BY <1>6, IdleFacts DEF Todo
  <2>2. Staged(q)
    BY <2>1, IdleFacts DEF Staged
  <2>3. Sighted(q)
    BY <1>2, <2>1, IdleFacts DEF Sighted
  <2>4. Announced(q) /\ Unpruned(q)
    BY <1>11, <2>1, IdleFacts DEF Announced, Unpruned
  <2>5. Untold(q)
    BY <1>6, <2>1, IdleFacts DEF Untold
  <2> QED
    BY <2>2, <2>3, <2>4, <2>5
<1> QED
  BY <1>8, <1>9, <1>10, <1>11, <1>12 DEF IInv, NothingPassedOver

LEMMA StepKeeps ==
    ASSUME IInv, NEW p \in Pollers, Step(p)
    PROVE  IInv'
BY PruneKeeps, QueryKeeps, LookKeeps, AskKeeps, CheckKeeps, InsertKeeps, NotifyKeeps, MarkKeeps,
   DiscoverKeeps, AdvanceKeeps, WelcomeKeeps, RecordKeeps, SilentKeeps, SummaryKeeps, FinishKeeps
   DEF Step

\* Nothing in the invariant is about anything but the variables.
LEMMA StutterKeeps ==
    ASSUME IInv, UNCHANGED vars
    PROVE  IInv'
<1>1. UNCHANGED <<posts, signups, gone, dms, keys, welcomed, sender, again, watch, alerts, settings,
                  pace, poll, raised, told, twice, bootstrapped, overlooked, faults, clicks>>
  BY DEF vars, mastodon, bot, history
<1>2. TypeOK
  BY DEF IInv, NothingPassedOver
<1>3. TypeOK' /\ Grows /\ Rows
  BY <1>1, <1>2, Unmoved DEF TypeOK
<1>4. Welcomes'
  BY <1>1, WelcomesKept DEF bot
<1> QED
  BY <1>1, <1>3, <1>4, Rested

\* The inductive invariant: what a poll holds in its hands - the cursors it
\* has read, the entries still to be alerted of, the place it is about to
\* write - always accounts for what it will pass, whatever the other poll, the
\* moderators and the instance do meanwhile (run_watch_poll).
THEOREM IInvHolds == Spec => []IInv
<1>1. Init => IInv
  BY InitHolds
<1>2. ASSUME IInv, [Next]_vars
      PROVE  IInv'
  <2>1. CASE UNCHANGED vars
    BY <1>2, <2>1, StutterKeeps
  <2>2. ASSUME NEW p \in Pollers, Start(p) \/ Step(p)
        PROVE  IInv'
    BY <1>2, <2>2, StartKeeps, StepKeeps
  <2>3. ASSUME NEW a \in Accounts,
               \/ Post(a) \/ SignUp(a) \/ Deleted(a) \/ ForgetKey(a) \/ Add(a) \/ Remove(a)
               \/ Expire(a) \/ \E force \in BOOLEAN : SendWelcome(a, force)
        PROVE  IInv'
    BY <1>2, <2>3, PostKeeps, SignUpKeeps, DeletedKeeps, ForgetKeyKeeps, AddKeeps, RemoveKeeps, ExpireKeeps,
       SendWelcomeKeeps
  <2>4. CASE RecordWelcome \/ SaveSettings \/ BackoffOver \/ DayPasses \/ Restart
    BY <1>2, <2>4, RecordWelcomeKeeps, ClockKeeps, RestartKeeps
  <2> QED
    BY <1>2, <2>1, <2>2, <2>3, <2>4 DEF Next
<1> QED
  BY <1>1, <1>2, PTL DEF Spec

\* Nobody is told twice of an alert that is kept, though record_alert's look and
\* insert may race, and of a post or a sign-up not when its row was deleted
\* either (_prune); and no account is welcomed twice, but when a moderator
\* insists or a delivered message was not recorded (send_welcome).
THEOREM MessagesOnceHolds == Spec => []MessagesOnce
<1>1. IInv => MessagesOnce
  BY DEF IInv, MessagesOnce, Welcomes, WelcomedOnce
<1> QED
  BY <1>1, IInvHolds, PTL

\* The cursors of _poll_watch and _discover_new_accounts pass nothing that was
\* not alerted of, but for what a first look, a page or a deletion excuses.
THEOREM NothingPassedOverHolds == Spec => []NothingPassedOver
<1>1. IInv => NothingPassedOver
  BY DEF IInv
<1> QED
  BY <1>1, IInvHolds, PTL
=============================================================================
