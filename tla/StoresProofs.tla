---------------------------- MODULE StoresProofs ----------------------------
(***************************************************************************)
(* That the stores keep what they promise, for any users, clients, guests, *)
(* packages, machines and limits: the one-off credentials, the sudo gate,  *)
(* the failed-login limiter, the package rows of a guest and the guests.   *)
(***************************************************************************)
EXTENDS MCStores, Sequences, FiniteSetTheorems, TLAPS

\* The modules of the stores mean one and the same Cardinality.
LEMMA SameSize ==
    \A S : /\ Credential!Cardinality(S) = Cardinality(S) /\ Gate!Cardinality(S) = Cardinality(S)
           /\ Login!Cardinality(S) = Cardinality(S) /\ Package!Cardinality(S) = Cardinality(S)
           /\ Cluster!Cardinality(S) = Cardinality(S)
  BY DEF Cardinality, Credential!Cardinality, Gate!Cardinality, Login!Cardinality,
         Package!Cardinality, Cluster!Cardinality

\* A finite set grows by one at most, and its subsets are no larger.
LEMMA OneMore ==
    ASSUME NEW S, NEW x, NEW n \in Nat, IsFiniteSet(S), Cardinality(S) <= n
    PROVE  IsFiniteSet(S \cup {x}) /\ Cardinality(S \cup {x}) <= n + 1
<1>1. Cardinality(S) \in Nat
  BY FS_CardinalityType
<1>2. /\ IsFiniteSet(S \cup {x})
      /\ Cardinality(S \cup {x}) = IF x \in S THEN Cardinality(S) ELSE Cardinality(S) + 1
  BY FS_AddElement
<1> QED
  BY <1>1, <1>2

LEMMA NoMore ==
    ASSUME NEW S, NEW n \in Nat, IsFiniteSet(S), Cardinality(S) <= n, NEW T \in SUBSET S
    PROVE  IsFiniteSet(T) /\ Cardinality(T) <= n
<1>1. /\ IsFiniteSet(T) /\ Cardinality(T) <= Cardinality(S)
      /\ Cardinality(T) \in Nat /\ Cardinality(S) \in Nat
  BY FS_Subset, FS_CardinalityType
<1> QED
  BY <1>1

----------------------------------------------------------------------------
(* One-off credentials. *)

\* Entries are tokens that were issued and not yet presented.
CredentialInv ==
    /\ now \in Nat /\ \A t \in DOMAIN issued : issued[t].at \in Nat
    /\ entries \subseteq DOMAIN issued /\ tried \subseteq DOMAIN issued
    /\ IsFiniteSet(entries) /\ entries \cap tried = {}
    /\ \A r \in used : r.token \in tried
    /\ Credential!GivenAsIssued /\ Cardinality(entries) <= MaxEntries + 1

\* What _prune_locked leaves is in the store already, and within the cap.
LEMMA PrunedFits ==
    ASSUME CredentialInv, NEW e \in Credential!Pruned
    PROVE  /\ e \subseteq entries /\ IsFiniteSet(e) /\ Cardinality(e) <= MaxEntries
           /\ \A t \in e : ~Credential!Expired(t)
<1> DEFINE fresh == {t \in entries : ~Credential!Expired(t)}
<1>1. e \subseteq fresh /\ Cardinality(e) = IF Cardinality(fresh) > MaxEntries THEN MaxEntries
                                            ELSE Cardinality(fresh)
  BY SameSize DEF Credential!Pruned
<1>2. IsFiniteSet(fresh) /\ IsFiniteSet(e)
  BY <1>1, FS_Subset DEF CredentialInv
<1>3. Cardinality(fresh) \in Nat
  BY <1>2, FS_CardinalityType
<1> QED
  BY <1>1, <1>2, <1>3, CredentialAssumption DEF CredentialInv

LEMMA StoreKeeps ==
    ASSUME CredentialInv, NEW u \in Users, NEW g \in Guests, NEW t \in Tokens,
           Credential!Store(u, g, t)
    PROVE  CredentialInv'
<1>1. PICK e \in Credential!Pruned : entries' = e \cup {t}
  BY DEF Credential!Store
<1>2. e \subseteq entries /\ IsFiniteSet(e) /\ Cardinality(e) <= MaxEntries
  BY PrunedFits
<1>3. IsFiniteSet(entries') /\ Cardinality(entries') <= MaxEntries + 1
  BY <1>1, <1>2, OneMore, CredentialAssumption, Zenon
<1>4. /\ DOMAIN issued' = DOMAIN issued \cup {t} /\ issued'[t] = [user |-> u, guest |-> g, at |-> now]
      /\ \A x \in DOMAIN issued : issued'[x] = issued[x]
      /\ t \notin DOMAIN issued /\ UNCHANGED <<now, tried, used>>
  BY DEF Credential!Store
<1>5. \A x \in DOMAIN issued' : issued'[x].at \in Nat
  BY <1>4 DEF CredentialInv
<1>6. Credential!GivenAsIssued'
  BY <1>4 DEF CredentialInv, Credential!GivenAsIssued
<1> QED
  BY <1>1, <1>2, <1>3, <1>4, <1>5, <1>6 DEF CredentialInv

LEMMA TakeKeeps ==
    ASSUME CredentialInv, NEW u \in Users, NEW g \in Guests, NEW t \in Tokens,
           Credential!Take(u, g, t)
    PROVE  CredentialInv' /\ \A r \in used' \ used : r.token \notin tried
<1>1. PICK e \in Credential!Pruned :
        /\ entries' = e \ {t}
        /\ used' = IF t \in e /\ ~Credential!Expired(t) /\ issued[t].user = u /\ issued[t].guest = g
                   THEN used \cup {[token |-> t, user |-> u, guest |-> g, at |-> now]}
                   ELSE used
  BY DEF Credential!Take
<1>2. e \subseteq entries /\ IsFiniteSet(e) /\ Cardinality(e) <= MaxEntries
  BY PrunedFits
<1>3. IsFiniteSet(entries') /\ Cardinality(entries') <= MaxEntries + 1
  <2>1. entries' \subseteq e
    BY <1>1
  <2> QED
    BY <1>2, <2>1, NoMore, FS_CardinalityType, CredentialAssumption
<1>4. tried' = tried \cup {t} /\ t \in DOMAIN issued /\ UNCHANGED <<now, issued>>
  BY DEF Credential!Take
<1>5. ASSUME NEW r \in used' \ used
      PROVE  /\ r.token = t /\ r.token \notin tried
             /\ issued[r.token].user = r.user /\ issued[r.token].guest = r.guest
             /\ r.at < issued[r.token].at + TTL
  <2>1. /\ r = [token |-> t, user |-> u, guest |-> g, at |-> now]
        /\ t \in e /\ ~Credential!Expired(t) /\ issued[t].user = u /\ issued[t].guest = g
    BY <1>1, <1>5
  <2>2. t \notin tried /\ t \in DOMAIN issued
    BY <1>2, <2>1 DEF CredentialInv
  <2>3. now < issued[t].at + TTL
    BY <2>1, <2>2, CredentialAssumption DEF Credential!Expired, CredentialInv
  <2> QED
    BY <2>1, <2>2, <2>3
<1>6. Credential!GivenAsIssued'
  BY <1>4, <1>5 DEF CredentialInv, Credential!GivenAsIssued
<1>7. \A r \in used' : r.token \in tried'
  BY <1>4, <1>5 DEF CredentialInv
<1> QED
  BY <1>1, <1>2, <1>3, <1>4, <1>5, <1>6, <1>7 DEF CredentialInv

\* A step keeps the store, and gives out no credentials for a token that was
\* presented before.
LEMMA CredentialStep ==
    ASSUME CredentialInv, [Credential!Next]_Credential!vars
    PROVE  CredentialInv' /\ \A r \in used' \ used : r.token \notin tried
<1>1. CASE Credential!Tick \/ UNCHANGED Credential!vars
  BY <1>1 DEF Credential!Tick, Credential!vars, CredentialInv, Credential!GivenAsIssued
<1>2. CASE Credential!Restart
  BY <1>2, FS_EmptySet, CredentialAssumption DEF Credential!Restart, CredentialInv,
              Credential!GivenAsIssued
<1>3. ASSUME NEW u \in Users, NEW g \in Guests, NEW t \in Tokens, Credential!Store(u, g, t)
      PROVE  CredentialInv' /\ used' = used
  BY <1>3, StoreKeeps DEF Credential!Store
<1>4. ASSUME NEW u \in Users, NEW g \in Guests, NEW t \in Tokens, Credential!Take(u, g, t)
      PROVE  CredentialInv' /\ \A r \in used' \ used : r.token \notin tried
  BY <1>4, TakeKeeps
<1> QED
  BY <1>1, <1>2, <1>3, <1>4 DEF Credential!Next

\* One-off credentials are given out once, as they were typed and in time, and
\* the store stays near its cap, for any users, guests, tokens and restarts.
THEOREM CredentialsKeptHolds == Credential!Spec => CredentialsKept
<1>1. Credential!Init => CredentialInv
  BY FS_EmptySet, CredentialAssumption DEF Credential!Init, CredentialInv,
     Credential!GivenAsIssued
<1>2. CredentialInv /\ [Credential!Next]_Credential!vars => CredentialInv'
  BY CredentialStep
<1>3. CredentialInv => Credential!GivenAsIssued /\ Credential!NearCap
  BY SameSize DEF CredentialInv, Credential!NearCap
<1>4. CredentialInv /\ [Credential!Next]_Credential!vars =>
         [\A r \in used' \ used : r.token \notin tried]_Credential!vars
  BY CredentialStep
<1> QED
  BY <1>1, <1>2, <1>3, <1>4, PTL DEF Credential!Spec, CredentialsKept, Credential!FirstUseOnly

----------------------------------------------------------------------------
(* The sudo gate. *)

\* the passwords sent in the window that ends at t
SentWithin(t) == {i \in 1..Len(sent) : sent[i] <= t /\ t - sent[i] < RateWindow}

\* The list holds whatever was sent within the window that ends now, and each
\* password sent took a prompt away.
GateInv ==
    /\ now \in Nat /\ prompts \in Nat /\ sent \in Seq(Nat)
    /\ \A i \in 1..Len(sent) : sent[i] <= now
    /\ injections \subseteq 1..Len(sent) /\ SentWithin(now) \subseteq injections
    /\ Len(sent) <= prompts /\ (lastPrompt # -1 => Len(sent) < prompts)
    /\ \A t \in 0..now : Cardinality(SentWithin(t)) <= RateLimit

LEMMA WithinFinite ==
    ASSUME GateInv, NEW S \in SUBSET (1..Len(sent))
    PROVE  IsFiniteSet(S)
<1>1. Len(sent) \in Int
  BY DEF GateInv
<1>2. IsFiniteSet(1..Len(sent))
  BY <1>1, FS_Interval
<1> QED
  BY <1>2, FS_Subset, Zenon

LEMMA GateInit == Gate!Init => GateInv
<1> SUFFICES ASSUME Gate!Init PROVE GateInv
  OBVIOUS
<1>1. /\ now = 0 /\ lastPrompt = -1 /\ injections = {} /\ sent = <<>> /\ prompts = 0
      /\ sent \in Seq(Nat) /\ Len(sent) = 0
  BY DEF Gate!Init
<1>2. \A t : SentWithin(t) = {}
  BY <1>1 DEF SentWithin
<1>3. \A t : Cardinality(SentWithin(t)) <= RateLimit
  <2>1. Cardinality({}) = 0
    BY FS_EmptySet
  <2> QED
    BY <1>2, <2>1, GateAssumption
<1>4. 1..Len(sent) = {}
  BY <1>1
<1> QED
  BY <1>1, <1>2, <1>3, <1>4 DEF GateInv

LEMMA TickKeeps ==
    ASSUME GateInv, Gate!Tick
    PROVE  GateInv'
<1>1. now \in Nat /\ now' = now + 1 /\ UNCHANGED <<lastPrompt, injections, sent, prompts>>
  BY DEF Gate!Tick, GateInv
<1>2. SentWithin(now') \subseteq SentWithin(now)
  BY <1>1, GateAssumption DEF SentWithin, GateInv
<1>3. IsFiniteSet(SentWithin(now))
  BY WithinFinite DEF SentWithin
<1>4. Cardinality(SentWithin(now)) <= RateLimit
  BY <1>1 DEF GateInv
<1>5. Cardinality(SentWithin(now')) <= RateLimit
  BY <1>2, <1>3, <1>4, NoMore, GateAssumption
<1>6. \A t \in 0..now' : Cardinality(SentWithin(t)) <= RateLimit
  BY <1>1, <1>5 DEF GateInv
<1>7. SentWithin(now') \subseteq injections
  BY <1>2 DEF GateInv
<1>8. \A i \in 1..Len(sent) : sent[i] <= now'
  BY <1>1 DEF GateInv
<1> HIDE DEF SentWithin
<1> QED
  BY <1>1, <1>6, <1>7, <1>8 DEF GateInv, SentWithin

LEMMA AllowKeeps ==
    ASSUME GateInv, Gate!Allow
    PROVE  GateInv'
<1> DEFINE counted == {i \in injections : Gate!Recent(sent[i])}
<1> DEFINE granted == Len(sent) + 1
<1>1. /\ lastPrompt # -1 /\ UNCHANGED <<now, prompts>> /\ now \in Nat
      /\ \/ Cardinality(counted) >= RateLimit /\ injections' = counted /\ UNCHANGED <<lastPrompt, sent>>
         \/ /\ ~(Cardinality(counted) >= RateLimit) /\ injections' = counted \cup {granted}
            /\ sent' = Append(sent, now) /\ lastPrompt' = -1
  <2>1. Gate!Cardinality(counted) = Cardinality(counted)
    BY SameSize
  <2> QED
    BY <2>1 DEF Gate!Allow, GateInv
<1>2. SentWithin(now) \subseteq counted /\ counted \subseteq 1..Len(sent)
  BY DEF GateInv, SentWithin, Gate!Recent
<1>3. IsFiniteSet(counted) /\ Cardinality(counted) \in Nat
  BY <1>2, WithinFinite, FS_CardinalityType
<1>4. CASE UNCHANGED <<lastPrompt, sent>> /\ injections' = counted
  BY <1>1, <1>2, <1>4 DEF GateInv, SentWithin
<1>5. CASE /\ ~(Cardinality(counted) >= RateLimit) /\ injections' = counted \cup {granted}
           /\ sent' = Append(sent, now) /\ lastPrompt' = -1
  <2>1. /\ sent' \in Seq(Nat) /\ Len(sent') = granted /\ sent'[granted] = now
        /\ \A i \in 1..Len(sent) : sent'[i] = sent[i]
    BY <1>1, <1>5 DEF GateInv
  <2>2. SentWithin(now)' \subseteq counted \cup {granted}
    BY <1>1, <1>2, <2>1 DEF SentWithin
  <2>3. Cardinality(SentWithin(now)') <= RateLimit
    <3>1. Cardinality(counted) <= RateLimit - 1 /\ RateLimit - 1 \in Nat
      BY <1>3, <1>5, GateAssumption
    <3>2. IsFiniteSet(counted \cup {granted}) /\ Cardinality(counted \cup {granted}) <= (RateLimit - 1) + 1
      BY <1>3, <3>1, OneMore
    <3> HIDE DEF counted, granted
    <3>3. RateLimit \in Nat /\ Cardinality(counted \cup {granted}) <= RateLimit
      BY <3>2, GateAssumption
    <3> QED
      BY <2>2, <3>2, <3>3, NoMore, Zenon
  <2>4. ASSUME NEW t \in 0..now
        PROVE  Cardinality(SentWithin(t)') <= RateLimit
    <3>1. CASE t = now
      BY <1>1, <2>3, <3>1 DEF SentWithin
    <3>2. CASE t # now
      <4>1. SentWithin(t)' = SentWithin(t)
        BY <1>1, <2>1, <3>2 DEF SentWithin, GateInv
      <4> QED
        BY <4>1 DEF GateInv
    <3> QED
      BY <3>1, <3>2
  <2>5. \A i \in 1..Len(sent') : sent'[i] <= now
    BY <1>1, <2>1 DEF GateInv
  <2>6. injections' \subseteq 1..Len(sent')
    BY <1>2, <1>5, <2>1 DEF GateInv
  <2>7. Len(sent') <= prompts
    BY <1>1, <2>1 DEF GateInv
  <2> QED
    BY <1>1, <1>5, <2>1, <2>2, <2>4, <2>5, <2>6, <2>7 DEF GateInv
<1> QED
  BY <1>1, <1>4, <1>5

LEMMA GateStep ==
    ASSUME GateInv, Gate!Next
    PROVE  GateInv'
<1>1. CASE Gate!NotePrompt
  BY <1>1 DEF Gate!NotePrompt, GateInv, SentWithin
<1> QED
  BY <1>1, TickKeeps, AllowKeeps DEF Gate!Next

----------------------------------------------------------------------------
(* The failed-login limiter. *)

\* Whose bucket was not evicted has every refused password of the window in it
\* and no other recent stamp; the stamps of an evicted client that are recent
\* are no newer than its last refused password.
LoginInv ==
    /\ now \in Nat
    /\ \A c \in Clients : /\ \A s \in attempts[c] : s[1] \in 0..now
                          /\ \A s \in failures[c] : s[1] \in 0..now
                          /\ IsFiniteSet(failures[c])
    /\ DOMAIN attempts = Clients /\ DOMAIN failures = Clients
    /\ \A c \in Clients \ evicted : /\ failures[c] = Login!Recent(attempts[c])
                                    /\ Cardinality(failures[c]) <= Limit
    /\ \A c \in Clients \cap evicted : \A s \in Login!Recent(attempts[c]) :
          \E f \in failures[c] : s[1] <= f[1]
    /\ Cardinality(Login!Keys(attempts)) <= MaxKeys

LEMMA LoginInit == Login!Init => LoginInv
<1> SUFFICES ASSUME Login!Init PROVE LoginInv
  OBVIOUS
<1>1. /\ now = 0 /\ attempts = [c \in Clients |-> {}] /\ failures = [c \in Clients |-> {}]
      /\ evicted = {}
  BY DEF Login!Init
<1>2. IsFiniteSet({}) /\ Cardinality({}) = 0
  BY FS_EmptySet
<1>3. Login!Keys(attempts) = {}
  BY <1>1 DEF Login!Keys
<1>4. Cardinality(Login!Keys(attempts)) <= MaxKeys
  BY <1>2, <1>3, LimitsAssumption
<1>5. \A c \in Clients : Login!Recent(attempts[c]) = {}
  BY <1>1 DEF Login!Recent
<1>6. \A c \in Clients : failures[c] = {} /\ attempts[c] = {}
  BY <1>1
<1>7. \A c \in Clients : Cardinality(failures[c]) <= Limit /\ IsFiniteSet(failures[c])
  BY <1>2, <1>6, LimitsAssumption
<1> QED
  BY <1>1, <1>4, <1>5, <1>6, <1>7 DEF LoginInv

LEMMA LoginTick ==
    ASSUME LoginInv, Login!Tick
    PROVE  LoginInv'
<1>1. /\ now \in Nat /\ now' = now + 1 /\ attempts' = attempts
      /\ DOMAIN failures' = Clients
      /\ \A c \in Clients : failures'[c] = {s \in failures[c] : s[1] > now' - Window}
      /\ evicted' = {c \in evicted : failures'[c] # {}}
  BY DEF Login!Tick, LoginInv
<1> DEFINE NewRecent(b) == {s \in b : s[1] > now' - Window}
<1>2. \A c : Login!Recent(attempts[c])' = NewRecent(attempts[c])
  BY <1>1 DEF Login!Recent
<1>3. ASSUME NEW c \in Clients
      PROVE  /\ failures'[c] \subseteq failures[c] /\ IsFiniteSet(failures'[c])
             /\ \A s \in failures'[c] : s[1] \in 0..now'
             /\ \A s \in attempts'[c] : s[1] \in 0..now'
             /\ NewRecent(attempts[c]) \subseteq Login!Recent(attempts[c])
  <2>1. failures'[c] \subseteq failures[c]
    BY <1>1
  <2>2. IsFiniteSet(failures'[c])
    BY <2>1, FS_Subset DEF LoginInv
  <2>3. NewRecent(attempts[c]) \subseteq Login!Recent(attempts[c])
    BY <1>1, LimitsAssumption DEF Login!Recent, LoginInv
  <2> QED
    BY <1>1, <2>1, <2>2, <2>3 DEF LoginInv
<1>4. ASSUME NEW c \in Clients \ evicted
      PROVE  failures'[c] = NewRecent(attempts[c]) /\ Cardinality(failures'[c]) <= Limit
  <2>1. failures[c] = Login!Recent(attempts[c]) /\ Cardinality(failures[c]) <= Limit
    BY <1>4 DEF LoginInv
  <2>2. failures'[c] = NewRecent(attempts[c])
    <3>1. failures'[c] = {s \in Login!Recent(attempts[c]) : s[1] > now' - Window}
      BY <1>1, <2>1
    <3> QED
      BY <1>3, <3>1 DEF Login!Recent
  <2> QED
    BY <1>3, <2>1, <2>2, NoMore, LimitsAssumption DEF LoginInv
<1>5. ASSUME NEW c \in Clients \cap evicted, NEW s \in NewRecent(attempts[c])
      PROVE  \E f \in failures'[c] : s[1] <= f[1]
  <2>1. s \in Login!Recent(attempts[c]) /\ s \in attempts[c]
    BY <1>3
  <2>2. PICK f \in failures[c] : s[1] <= f[1]
    BY <2>1 DEF LoginInv
  <2>3. s[1] \in Nat /\ f[1] \in Nat
    BY <2>1, <2>2 DEF LoginInv
  <2>4. s[1] > now' - Window
    OBVIOUS
  <2> QED
    BY <1>1, <2>2, <2>3, <2>4, LimitsAssumption
<1>6. ASSUME NEW c \in Clients \ evicted'
      PROVE  failures'[c] = NewRecent(attempts[c]) /\ Cardinality(failures'[c]) <= Limit
  <2>1. CASE c \in evicted
    <3>1. failures'[c] = {}
      BY <1>1, <1>6, <2>1
    <3>2. NewRecent(attempts[c]) = {}
      BY <1>5, <2>1, <3>1, Zenon
    <3> QED
      BY <3>1, <3>2, FS_EmptySet, LimitsAssumption
  <2> QED
    BY <1>4, <2>1
<1>7. \A c \in Clients \cap evicted' : \A s \in NewRecent(attempts[c]) :
        \E f \in failures'[c] : s[1] <= f[1]
  BY <1>1, <1>5
<1>8. Login!Keys(attempts)' = Login!Keys(attempts)
  BY <1>1 DEF Login!Keys
<1> HIDE DEF NewRecent
<1>9. \A c \in Clients \ evicted' : /\ failures'[c] = Login!Recent(attempts[c])'
                                    /\ Cardinality(failures[c])' <= Limit
  BY <1>2, <1>6
<1>10. \A c \in Clients \cap evicted' : \A s \in Login!Recent(attempts[c])' :
         \E f \in failures'[c] : s[1] <= f[1]
  BY <1>2, <1>7
<1>11. Cardinality(Login!Keys(attempts))' <= MaxKeys
  BY <1>8 DEF LoginInv
<1> QED
  BY <1>1, <1>3, <1>9, <1>10, <1>11 DEF LoginInv

\* Deleting the buckets that are not recent, and trimming the one looked at,
\* loses no recent stamp.
LEMMA CheckedKeepsRecent ==
    ASSUME LoginInv, NEW c \in Clients
    PROVE  /\ \A d \in Clients : /\ Login!Checked(c)[d] \subseteq attempts[d]
                                 /\ Login!Recent(Login!Checked(c)[d]) = Login!Recent(attempts[d])
           /\ Login!Checked(c)[c] = Login!Recent(attempts[c])
           /\ DOMAIN Login!Checked(c) = Clients
<1>1. Login!Checked(c) = [d \in Clients |->
         IF d = c THEN Login!Recent(attempts[c])
         ELSE IF Login!Recent(attempts[d]) # {} THEN attempts[d] ELSE {}]
  BY DEF Login!Checked, Login!Aged
<1>2. \A b : Login!Recent(Login!Recent(b)) = Login!Recent(b) /\ Login!Recent(b) \subseteq b
  BY DEF Login!Recent
<1>3. Login!Recent({}) = {}
  BY DEF Login!Recent
<1> QED
  BY <1>1, <1>2, <1>3

LEMMA NoFailureKeeps ==
    ASSUME LoginInv, NEW c \in Clients, Login!LoginNoFailure(c)
    PROVE  LoginInv'
<1>1. /\ UNCHANGED <<now, failures, evicted>> /\ DOMAIN attempts' = Clients
      /\ \A d \in Clients : /\ attempts'[d] \subseteq attempts[d]
                            /\ Login!Recent(attempts'[d]) = Login!Recent(attempts[d])
  BY CheckedKeepsRecent DEF Login!LoginNoFailure
<1>3. Login!Keys(attempts') \subseteq Login!Keys(attempts) /\ Login!Keys(attempts) \subseteq Clients
  BY <1>1 DEF Login!Keys
<1>4. Cardinality(Login!Keys(attempts')) <= MaxKeys
  <2>1. IsFiniteSet(Login!Keys(attempts))
    BY <1>3, FS_Subset, LimitsAssumption
  <2> QED
    BY <1>3, <2>1, NoMore, LimitsAssumption DEF LoginInv
<1> QED
  BY <1>1, <1>4 DEF LoginInv, Login!Recent, Login!Keys

\* The cap leaves at most MaxKeys buckets.
LEMMA EvictionFits ==
    ASSUME NEW b, NEW E \in Login!Evictions(b)
    PROVE  Cardinality(Login!Keys(Login!Without(b, E))) <= MaxKeys
<1> DEFINE keys == Login!Keys(b)
<1>1. /\ E \subseteq keys
      /\ Cardinality(E) = IF Cardinality(keys) > MaxKeys THEN Cardinality(keys) - MaxKeys ELSE 0
  BY SameSize DEF Login!Evictions
<1>2. IsFiniteSet(keys)
  <2>1. keys \subseteq Clients
    BY DEF Login!Keys
  <2> QED
    BY <2>1, FS_Subset, LimitsAssumption
<1>3. Login!Keys(Login!Without(b, E)) = keys \ E
  BY DEF Login!Keys, Login!Without
<1>4. keys \cap E = E
  BY <1>1
<1>5. Cardinality(keys \ E) = Cardinality(keys) - Cardinality(E) /\ Cardinality(keys) \in Nat
  BY <1>2, <1>4, FS_Difference, FS_CardinalityType
<1> HIDE DEF keys
<1> QED
  BY <1>1, <1>3, <1>5, LimitsAssumption

LEMMA FailsKeeps ==
    ASSUME LoginInv, NEW c \in Clients, Login!LoginFails(c)
    PROVE  LoginInv'
<1> DEFINE recent == Login!Recent(attempts[c])
           stamp == Login!Stamped(recent)
           noted == [Login!Checked(c) EXCEPT ![c] = @ \cup {stamp}]
           recorded == Login!Aged(noted)
<1>1. PICK E \in Login!Evictions(recorded) :
        attempts' = Login!Without(recorded, E) /\ evicted' = evicted \cup E
  BY DEF Login!LoginFails
<1>2. /\ UNCHANGED now /\ now \in Nat /\ ~Login!Locked(c)
      /\ failures' = [failures EXCEPT ![c] = IF c \in evicted' THEN {stamp} ELSE @ \cup {stamp}]
  BY DEF Login!LoginFails, LoginInv
<1>3. stamp[1] = now /\ Login!Recent({stamp}) = {stamp}
  BY <1>2, LimitsAssumption DEF Login!Stamped, Login!Recent
<1>4. /\ DOMAIN noted = Clients /\ noted[c] = recent \cup {stamp}
      /\ \A d \in Clients \ {c} : /\ noted[d] \subseteq attempts[d]
                                  /\ Login!Recent(noted[d]) = Login!Recent(attempts[d])
  BY CheckedKeepsRecent
<1>5. Login!Recent(noted[c]) = recent \cup {stamp} /\ recent \subseteq attempts[c]
  BY <1>3, <1>4 DEF Login!Recent
<1> HIDE DEF stamp, noted, recent
<1>6. /\ DOMAIN recorded = Clients
      /\ \A d \in Clients : recorded[d] \subseteq noted[d] /\ Login!Recent(recorded[d]) = Login!Recent(noted[d])
  BY DEF Login!Aged, Login!Recent
<1> HIDE DEF recorded
<1>7. /\ DOMAIN attempts' = Clients
      /\ \A d \in Clients \cap E : attempts'[d] = {}
      /\ \A d \in Clients \ E : attempts'[d] = recorded[d]
  BY <1>1 DEF Login!Without
<1>8. \A d \in Clients : Login!Recent(attempts[d])' = Login!Recent(attempts'[d])
  BY <1>2 DEF Login!Recent
<1>9. Login!Recent({}) = {}
  BY DEF Login!Recent
<1>10. ASSUME NEW d \in Clients
       PROVE  /\ \A s \in attempts'[d] : s[1] \in 0..now'
              /\ \A s \in failures'[d] : s[1] \in 0..now'
              /\ IsFiniteSet(failures'[d])
  <2>1. \A s \in noted[d] : s[1] \in 0..now
    BY <1>2, <1>3, <1>4, <1>5 DEF LoginInv
  <2>2. \A s \in attempts'[d] : s[1] \in 0..now'
    BY <1>2, <1>6, <1>7, <2>1
  <2>3. failures'[d] \subseteq failures[d] \cup {stamp}
    BY <1>2 DEF LoginInv
  <2>4. IsFiniteSet(failures[d]) /\ \A s \in failures[d] : s[1] \in 0..now
    BY DEF LoginInv
  <2>5. IsFiniteSet(failures'[d])
    BY <2>3, <2>4, FS_AddElement, FS_Subset, Zenon
  <2>6. \A s \in failures'[d] : s[1] \in 0..now'
    BY <1>2, <1>3, <2>3, <2>4
  <2> QED
    BY <2>2, <2>5, <2>6
<1>11. ASSUME NEW d \in Clients \ evicted'
       PROVE  failures'[d] = Login!Recent(attempts'[d]) /\ Cardinality(failures'[d]) <= Limit
  <2>1. d \notin evicted /\ d \notin E
    BY <1>1, <1>11
  <2>2. failures[d] = Login!Recent(attempts[d]) /\ Cardinality(failures[d]) <= Limit
    BY <2>1 DEF LoginInv
  <2>3. Login!Recent(attempts'[d]) = Login!Recent(noted[d])
    BY <1>6, <1>7, <2>1
  <2>4. CASE d = c
    <3>1. failures'[c] = recent \cup {stamp}
      BY <1>2, <1>11, <2>2, <2>4 DEF LoginInv, recent
    <3>2. IsFiniteSet(recent)
      BY <2>2, <2>4 DEF LoginInv, recent
    <3>3. Cardinality(recent) \in Nat
      BY <3>2, FS_CardinalityType
    <3>4. Limit - 1 \in Nat /\ Cardinality(recent) <= Limit - 1
      BY <1>2, <3>3, SameSize, LimitsAssumption DEF Login!Locked, recent
    <3>5. Cardinality(recent \cup {stamp}) <= (Limit - 1) + 1
      BY <3>2, <3>4, OneMore
    <3>6. (Limit - 1) + 1 = Limit
      BY LimitsAssumption
    <3>7. Cardinality(failures'[c]) <= Limit
      BY <3>1, <3>5, <3>6
    <3> QED
      BY <1>5, <2>3, <2>4, <3>1, <3>7
  <2>5. CASE d # c
    <3>1. failures'[d] = failures[d]
      BY <1>2, <2>5 DEF LoginInv
    <3> QED
      BY <1>4, <2>2, <2>3, <2>5, <3>1
  <2> QED
    BY <2>4, <2>5
<1>12. ASSUME NEW d \in Clients \cap evicted', NEW s \in Login!Recent(attempts'[d])
       PROVE  \E f \in failures'[d] : s[1] <= f[1]
  <2>1. d \notin E
    BY <1>7, <1>9
  <2>2. s \in Login!Recent(noted[d]) /\ d \in evicted
    BY <1>1, <1>6, <1>7, <2>1
  <2>3. CASE d = c
    <3>1. failures'[c] = {stamp}
      BY <1>2, <2>3 DEF LoginInv
    <3>2. s[1] \in 0..now
      BY <1>2, <1>3, <1>5, <2>2, <2>3 DEF LoginInv
    <3> QED
      BY <1>2, <1>3, <2>3, <3>1, <3>2
  <2>4. CASE d # c
    <3>1. failures'[d] = failures[d] /\ s \in Login!Recent(attempts[d])
      BY <1>2, <1>4, <2>2, <2>4 DEF LoginInv
    <3> QED
      BY <2>2, <3>1 DEF LoginInv
  <2> QED
    BY <2>3, <2>4
<1>13. Cardinality(Login!Keys(attempts')) <= MaxKeys
  BY <1>1, EvictionFits
<1>14. Login!Keys(attempts)' = Login!Keys(attempts')
  BY DEF Login!Keys
<1>15. DOMAIN failures' = Clients
  BY <1>2 DEF LoginInv
<1>16. \A d \in Clients \ evicted' : /\ failures'[d] = Login!Recent(attempts[d])'
                                     /\ Cardinality(failures[d])' <= Limit
  BY <1>8, <1>11
<1>17. \A d \in Clients \cap evicted' : \A s \in Login!Recent(attempts[d])' :
         \E f \in failures'[d] : s[1] <= f[1]
  BY <1>8, <1>12, Zenon
<1>18. Cardinality(Login!Keys(attempts))' <= MaxKeys
  BY <1>13, <1>14
<1>19. now' \in Nat
  BY <1>2
<1> QED
  BY <1>7, <1>10, <1>15, <1>16, <1>17, <1>18, <1>19 DEF LoginInv

LEMMA LoginStep ==
    ASSUME LoginInv, Login!Next
    PROVE  LoginInv'
  BY LoginTick, NoFailureKeeps, FailsKeeps DEF Login!Next

\* The gate and the limiter as chosen, and at rest otherwise.
LimitsInv ==
    /\ store = "gate" => GateInv
    /\ store # "gate" => sent = <<>> /\ prompts = 0
    /\ store = "logins" => LoginInv
    /\ store # "logins" => attempts = [c \in Clients |-> {}] /\ failures = [c \in Clients |-> {}]

LEMMA LimitsStep ==
    ASSUME LimitsInv, [MCNext]_MCVars
    PROVE  LimitsInv'
<1>1. CASE UNCHANGED MCVars
  <2>1. UNCHANGED <<store, now>> /\ UNCHANGED gate /\ UNCHANGED logins
    BY <1>1 DEF MCVars
  <2>2. GateInv => GateInv'
    BY <2>1 DEF gate, GateInv, SentWithin
  <2>3. LoginInv => LoginInv'
    BY <2>1 DEF logins, LoginInv, Login!Keys, Login!Recent
  <2> QED
    BY <2>1, <2>2, <2>3 DEF LimitsInv, gate, logins
<1>2. CASE store = "gate" /\ Gate!Next /\ UNCHANGED <<store, logins>>
  BY <1>2, GateStep DEF LimitsInv, logins
<1>3. CASE store = "logins" /\ Login!Next /\ UNCHANGED <<store, gate>>
  BY <1>3, LoginStep DEF LimitsInv, gate
<1>4. CASE store \notin {"gate", "logins"} /\ UNCHANGED <<store, gate, logins>>
  BY <1>4 DEF LimitsInv, gate, logins
<1>5. CASE MCNext
  <2>1. UNCHANGED store
    BY <1>5 DEF MCNext
  <2>2. CASE PackageNext /\ UNCHANGED <<now, gate, credentials, logins, guests>>
    BY <1>4, <2>1, <2>2 DEF PackageNext, PackageModes
  <2>3. CASE GuestNext /\ UNCHANGED <<now, gate, credentials, logins, packages>>
    BY <1>4, <2>1, <2>3 DEF GuestNext
  <2> QED
    BY <1>2, <1>3, <1>4, <1>5, <2>1, <2>2, <2>3 DEF MCNext
<1> QED
  BY <1>1, <1>5

LEMMA LimitsImplied == LimitsInv => LimitsKept
<1> SUFFICES ASSUME LimitsInv PROVE LimitsKept
  OBVIOUS
<1>1. Gate!RateKept /\ Gate!OnePerPrompt
  <2>1. CASE store = "gate"
    <3>1. \A t : Gate!Cardinality(SentWithin(t)) = Cardinality(SentWithin(t))
      BY SameSize
    <3> QED
      BY <2>1, <3>1 DEF LimitsInv, GateInv, SentWithin, Gate!RateKept, Gate!OnePerPrompt
  <2>2. CASE store # "gate"
    <3>1. sent = <<>> /\ Len(sent) = 0 /\ prompts = 0
      BY <2>2 DEF LimitsInv
    <3>2. \A t : {i \in 1..Len(sent) : sent[i] <= t /\ t - sent[i] < RateWindow} = {}
      BY <3>1
    <3>3. Gate!Cardinality({}) = 0
      BY SameSize, FS_EmptySet
    <3> QED
      BY <3>1, <3>2, <3>3, GateAssumption DEF Gate!RateKept, Gate!OnePerPrompt
  <2> QED
    BY <2>1, <2>2
<1>2. Login!FailuresBounded /\ Login!CapKept
  <2>1. CASE store = "logins"
    <3>1. ASSUME NEW c \in Clients \ evicted, failures[c] # {}
          PROVE  c \in Login!Keys(attempts)
      <4>1. failures[c] = Login!Recent(attempts[c])
        BY <2>1, <3>1 DEF LimitsInv, LoginInv
      <4> QED
        BY <3>1, <4>1 DEF Login!Recent, Login!Keys
    <3> QED
      BY <2>1, <3>1, SameSize DEF LimitsInv, LoginInv, Login!FailuresBounded, Login!CapKept
  <2>2. CASE store # "logins"
    <3>1. /\ \A c \in Clients : failures[c] = {}
          /\ Login!Keys(attempts) = {}
      BY <2>2 DEF LimitsInv, Login!Keys
    <3>2. Login!Cardinality({}) = 0
      BY SameSize, FS_EmptySet
    <3> QED
      BY <3>1, <3>2, LimitsAssumption DEF Login!FailuresBounded, Login!CapKept
  <2> QED
    BY <2>1, <2>2
<1> QED
  BY <1>1, <1>2 DEF LimitsKept

\* Whatever prompts come, the stored sudo password goes out at most RateLimit
\* times in any window and once per prompt; and the limiter, however it trims,
\* prunes and evicts, lets no client it did not evict try more than Limit wrong
\* passwords in a window and keeps at most MaxKeys buckets.
THEOREM LimitsKeptHolds == MCSpec => []LimitsKept
<1>1. MCInit => LimitsInv
  BY GateInit, LoginInit DEF MCInit, LimitsInv, Gate!Init, Login!Init
<1> QED
  BY <1>1, LimitsStep, LimitsImplied, PTL DEF MCSpec

----------------------------------------------------------------------------
(* Discovery. *)

GuestRows ==
    [type: {"vm", "ct", Cluster!None}, mac: Machines \cup {Cluster!None},
     seen: Machines \cup {Cluster!None}, data: Machines \cup {Cluster!None},
     blind: BOOLEAN, raced: BOOLEAN]

\* A row is of the type of its machine, and its results are of that machine or
\* of one that was replaced unnoticed.
RowFits(row) ==
    \/ row = Cluster!NoRow
    \/ /\ row.seen \in Machines /\ row.type = Type[row.seen]
       /\ row.data \in {Cluster!None, row.seen} \/ (row.blind /\ Type[row.data] = Type[row.seen])

\* At most one of the rows of a VMID was added without another being there.
OneUnraced(column) ==
    \A n, o \in Nodes : n # o /\ column[n] # Cluster!NoRow /\ column[o] # Cluster!NoRow =>
        column[n].raced \/ column[o].raced

\* A listing under way is of a host's, and one without a failed call has every
\* machine that stayed, or will meet it on a node that is still to be asked.
PassFits(p) ==
    \/ p = Cluster!NoPass
    \/ /\ p.host \in Nodes
       /\ p.complete => \A m \in p.there : m \in p.list \/ at[m] \in p.todo

GuestInv ==
    /\ Cluster!TypeOK
    /\ \A n \in Nodes, v \in Cluster!Vmids : RowFits(rows[n][v])
    /\ \A v \in Cluster!Vmids : OneUnraced([n \in Nodes |-> rows[n][v]])
    /\ \A w \in Cluster!Workers : PassFits(pass[w])

LEMMA NoRowFits == Cluster!NoRow \in GuestRows /\ RowFits(Cluster!NoRow)
  BY DEF Cluster!NoRow, Cluster!None, GuestRows, RowFits

\* What a pass writes into a row: a takeover by another machine drops the
\* results, or is of the same type and marked as unnoticed.
LEMMA WrittenFits ==
    ASSUME NEW old \in GuestRows, RowFits(old), NEW m \in Machines,
           NEW mac \in {m, Cluster!None}, NEW cm \in BOOLEAN
    PROVE  LET new == Cluster!Written(old, m, mac, cm)
           IN  /\ new \in GuestRows /\ RowFits(new) /\ new # Cluster!NoRow
               /\ new.raced = old.raced
<1> DEFINE new == Cluster!Written(old, m, mac, cm)
           reused == Cluster!Reused(old, m, mac, cm)
<1>1. /\ new.type = Type[m] /\ new.seen = m /\ new.raced = old.raced
      /\ new.mac = (IF mac # Cluster!None THEN mac ELSE old.mac)
      /\ new.data = (IF reused THEN Cluster!None ELSE old.data)
      /\ new.blind = (old.blind \/ (/\ old # Cluster!NoRow
                                    /\ old.seen # m
                                    /\ ~cm \/ mac = Cluster!None \/ old.mac # old.seen))
      /\ new = [type |-> new.type, mac |-> new.mac, seen |-> new.seen, data |-> new.data,
                raced |-> new.raced, blind |-> new.blind]
  BY DEF Cluster!Written
<1>2. Type[m] \in {"vm", "ct"} /\ Cluster!None = "none" /\ Cluster!None \notin Machines
  BY MachinesAssumption DEF Cluster!None
<1>3. /\ old.mac \in Machines \cup {Cluster!None} /\ old.data \in Machines \cup {Cluster!None}
      /\ old.blind \in BOOLEAN /\ old.raced \in BOOLEAN
  BY DEF GuestRows
<1> HIDE DEF new
<1>4. new \in GuestRows
  BY <1>1, <1>2, <1>3 DEF GuestRows
<1>5. new # Cluster!NoRow
  BY <1>1, <1>2 DEF Cluster!NoRow
<1>6. new.data \in {Cluster!None, m} \/ (new.blind /\ Type[new.data] = Type[m])
  <2>1. CASE reused
    BY <1>1, <2>1
  <2>2. CASE ~reused /\ old = Cluster!NoRow
    BY <1>1, <2>2 DEF Cluster!NoRow, Cluster!None
  <2>3. CASE ~reused /\ old # Cluster!NoRow
    <3>1. /\ old.seen \in Machines /\ old.type = Type[old.seen]
          /\ old.data \in {Cluster!None, old.seen} \/ (old.blind /\ Type[old.data] = Type[old.seen])
      BY <2>3 DEF RowFits
    <3>2. /\ old.type = Type[m]
          /\ ~(cm /\ mac # Cluster!None /\ old.mac # Cluster!None /\ mac # old.mac)
      BY <2>3 DEF Cluster!Reused
    <3>3. new.data = old.data
      BY <1>1, <2>3
    <3>4. CASE old.data = old.seen /\ old.seen # m
      <4>1. ~cm \/ mac = Cluster!None \/ old.mac # old.seen
        BY <1>2, <3>1, <3>2, <3>4
      <4> QED
        BY <1>1, <2>3, <3>1, <3>2, <3>3, <3>4, <4>1
    <3> QED
      BY <1>1, <3>1, <3>2, <3>3, <3>4
  <2> QED
    BY <2>1, <2>2, <2>3
<1>7. RowFits(new)
  BY <1>1, <1>6 DEF RowFits
<1> QED
  BY <1>1, <1>4, <1>5, <1>7 DEF new

\* the rows of one VMID
Column(v) == [h \in Nodes |-> rows[h][v]]
ColumnFits(column) ==
    column \in [Nodes -> GuestRows] /\ (\A h \in Nodes : RowFits(column[h])) /\ OneUnraced(column)

LEMMA ColumnsFit ==
    ASSUME GuestInv, NEW v \in Cluster!Vmids
    PROVE  ColumnFits(Column(v))
<1>1. \A h \in Nodes : rows[h][v] \in GuestRows
  BY DEF GuestInv, Cluster!TypeOK, GuestRows
<1> QED
  BY <1>1 DEF GuestInv, ColumnFits, Column

\* A host's row is replaced or deleted.
LEMMA ReplacedFits ==
    ASSUME NEW column, ColumnFits(column), NEW h \in Nodes, NEW row \in GuestRows, RowFits(row),
           \/ row = Cluster!NoRow
           \/ column[h] # Cluster!NoRow /\ row.raced = column[h].raced
           \/ row.raced
           \/ \A o \in Nodes \ {h} : column[o] = Cluster!NoRow
    PROVE  ColumnFits([column EXCEPT ![h] = row])
<1> DEFINE new == [column EXCEPT ![h] = row]
<1>1. new \in [Nodes -> GuestRows] /\ new[h] = row /\ \A o \in Nodes \ {h} : new[o] = column[o]
  BY DEF ColumnFits
<1> HIDE DEF new
<1>2. \A o \in Nodes : RowFits(new[o])
  BY <1>1 DEF ColumnFits
<1>3. OneUnraced(new)
  BY <1>1 DEF ColumnFits, OneUnraced
<1> QED
  BY <1>1, <1>2, <1>3 DEF ColumnFits, new

\* The row of another host is taken over by a host that has none.
LEMMA MovedFits ==
    ASSUME NEW column, ColumnFits(column), NEW h \in Nodes, NEW o \in Nodes \ {h},
           column[h] = Cluster!NoRow, column[o] # Cluster!NoRow,
           NEW row \in GuestRows, RowFits(row), row.raced = column[o].raced
    PROVE  ColumnFits([column EXCEPT ![h] = row, ![o] = Cluster!NoRow])
<1> DEFINE new == [column EXCEPT ![h] = row, ![o] = Cluster!NoRow]
<1>1. /\ new \in [Nodes -> GuestRows] /\ new[h] = row /\ new[o] = Cluster!NoRow
      /\ \A x \in Nodes \ {h, o} : new[x] = column[x]
  BY NoRowFits DEF ColumnFits
<1> HIDE DEF new
<1>2. \A x \in Nodes : RowFits(new[x])
  BY <1>1, NoRowFits DEF ColumnFits
<1>3. OneUnraced(new)
  BY <1>1 DEF ColumnFits, OneUnraced
<1> QED
  BY <1>1, <1>2, <1>3 DEF ColumnFits, new

\* What a pass makes of the rows of a VMID; all of them are gone only when the
\* host's own was and the listing, a complete one, lacks the VMID.
LEMMA PlacedFits ==
    ASSUME GuestInv, NEW p, p.host \in Nodes, p.list \subseteq Machines,
           NEW v \in Cluster!Vmids, NEW known, NEW cm \in BOOLEAN
    PROVE  LET new == Cluster!Placed(p, v, known, cm)
           IN  /\ ColumnFits(new)
               /\ \A n \in Nodes : rows[n][v] # Cluster!NoRow /\ (\A o \in Nodes : new[o] = Cluster!NoRow) =>
                     n = p.host /\ v \in Cluster!Stale(p)
<1> DEFINE here == {x \in p.list : Vmid[x] = v}
           m == CHOOSE x \in here : TRUE
           mac == IF m \in known THEN m ELSE Cluster!None
           others == Cluster!OtherHosts(p.host, v)
           o == CHOOSE x \in others : TRUE
           new == Cluster!Placed(p, v, known, cm)
           fresh == Cluster!Written(Cluster!NoRow, m, mac, cm)
           added == [fresh EXCEPT !.raced = others # {}]
           Gone == \A n \in Nodes : rows[n][v] # Cluster!NoRow /\ (\A x \in Nodes : new[x] = Cluster!NoRow) =>
                      n = p.host /\ v \in Cluster!Stale(p)
<1>1. new = IF here = {}
            THEN [Column(v) EXCEPT ![p.host] = IF v \in Cluster!Stale(p) /\ p.fresh = {} THEN Cluster!NoRow ELSE @]
            ELSE IF rows[p.host][v] # Cluster!NoRow
                 THEN [Column(v) EXCEPT ![p.host] = Cluster!Written(@, m, mac, cm)]
            ELSE IF others = {} \/ v \in p.fresh THEN [Column(v) EXCEPT ![p.host] = added]
            ELSE IF m \in p.running
                 THEN [Column(v) EXCEPT ![p.host] = Cluster!Written(Column(v)[o], m, mac, cm), ![o] = Cluster!NoRow]
            ELSE Column(v)
  BY DEF Cluster!Placed, Column
<1>2. /\ ColumnFits(Column(v)) /\ DOMAIN Column(v) = Nodes
      /\ \A h \in Nodes : Column(v)[h] = rows[h][v] /\ Column(v)[h] \in GuestRows /\ RowFits(Column(v)[h])
  BY ColumnsFit DEF Column, ColumnFits
<1>3. here # {} => m \in Machines
  BY Zenon
<1>4. mac \in {m, Cluster!None}
  OBVIOUS
<1>5. others = {x \in Nodes \ {p.host} : Column(v)[x] # Cluster!NoRow}
  BY <1>2 DEF Cluster!OtherHosts
<1>6. others # {} => o \in others
  BY Zenon
<1> HIDE DEF here, m, mac, others, o, new, fresh
<1>7. CASE here = {}
  <2> DEFINE row == IF v \in Cluster!Stale(p) /\ p.fresh = {} THEN Cluster!NoRow ELSE Column(v)[p.host]
  <2>1. new = [Column(v) EXCEPT ![p.host] = row]
    BY <1>1, <1>2, <1>7
  <2>2. row \in GuestRows /\ RowFits(row)
    BY <1>2, NoRowFits
  <2>3. ColumnFits(new)
    BY <1>2, <2>1, <2>2, ReplacedFits
  <2>4. Gone
    BY <1>2, <2>1
  <2> QED
    BY <2>3, <2>4 DEF new
<1>8. CASE here # {} /\ rows[p.host][v] # Cluster!NoRow
  <2> DEFINE row == Cluster!Written(Column(v)[p.host], m, mac, cm)
  <2>1. new = [Column(v) EXCEPT ![p.host] = row]
    BY <1>1, <1>2, <1>8
  <2>2. row \in GuestRows /\ RowFits(row) /\ row # Cluster!NoRow /\ row.raced = Column(v)[p.host].raced
    BY <1>2, <1>3, <1>4, <1>8, WrittenFits
  <2> HIDE DEF row
  <2>3. ColumnFits(new)
    BY <1>2, <1>8, <2>1, <2>2, ReplacedFits
  <2>4. new[p.host] # Cluster!NoRow
    BY <1>2, <2>1, <2>2
  <2> QED
    BY <2>3, <2>4 DEF new
<1>9. CASE here # {} /\ rows[p.host][v] = Cluster!NoRow /\ (others = {} \/ v \in p.fresh)
  <2>1. new = [Column(v) EXCEPT ![p.host] = added]
    BY <1>1, <1>9
  <2>2. fresh \in GuestRows /\ RowFits(fresh) /\ fresh # Cluster!NoRow /\ fresh.type \in {"vm", "ct"}
    <3>1. fresh \in GuestRows /\ RowFits(fresh) /\ fresh # Cluster!NoRow
      BY <1>3, <1>4, <1>9, NoRowFits, WrittenFits DEF fresh
    <3> QED
      BY <3>1, MachinesAssumption DEF RowFits
  <2>3. /\ added \in GuestRows /\ added.raced = (others # {}) /\ added.type = fresh.type
        /\ added.seen = fresh.seen /\ added.data = fresh.data /\ added.blind = fresh.blind
    BY <2>2 DEF GuestRows
  <2> HIDE DEF added
  <2>4. RowFits(added) /\ added # Cluster!NoRow
    BY <2>2, <2>3 DEF RowFits, Cluster!NoRow, Cluster!None
  <2>5. added.raced \/ \A x \in Nodes \ {p.host} : Column(v)[x] = Cluster!NoRow
    BY <1>5, <2>3
  <2>6. ColumnFits(new)
    BY <1>2, <2>1, <2>3, <2>4, <2>5, ReplacedFits
  <2>7. new[p.host] # Cluster!NoRow
    BY <1>2, <2>1, <2>4
  <2> QED
    BY <2>6, <2>7 DEF new
<1>10. CASE /\ here # {} /\ rows[p.host][v] = Cluster!NoRow /\ others # {} /\ v \notin p.fresh
            /\ m \in p.running
  <2> DEFINE row == Cluster!Written(Column(v)[o], m, mac, cm)
  <2>1. new = [Column(v) EXCEPT ![p.host] = row, ![o] = Cluster!NoRow]
    BY <1>1, <1>10
  <2>2. o \in Nodes \ {p.host} /\ Column(v)[o] # Cluster!NoRow
    BY <1>5, <1>6, <1>10
  <2>3. row \in GuestRows /\ RowFits(row) /\ row # Cluster!NoRow /\ row.raced = Column(v)[o].raced
    BY <1>2, <1>3, <1>4, <1>10, <2>2, WrittenFits
  <2> HIDE DEF row
  <2>4. ColumnFits(new)
    BY <1>2, <1>10, <2>1, <2>2, <2>3, MovedFits
  <2>5. new[p.host] # Cluster!NoRow
    BY <1>2, <2>1, <2>2, <2>3
  <2> QED
    BY <2>4, <2>5 DEF new
<1>11. CASE /\ here # {} /\ rows[p.host][v] = Cluster!NoRow /\ others # {} /\ v \notin p.fresh
            /\ m \notin p.running
  BY <1>1, <1>2, <1>11 DEF new
<1> QED
  BY <1>7, <1>8, <1>9, <1>10, <1>11

\* A step that deletes the last row of a VMID ends a pass of the row's host
\* through which no machine with the VMID stayed where it was.
PruneFits ==
    \A n \in Nodes, v \in Cluster!Vmids :
        (rows[n][v] # Cluster!NoRow /\ \A o \in Nodes : rows'[o][v] = Cluster!NoRow) =>
            \E w \in Cluster!Workers :
                /\ pass[w].host = n /\ pass'[w] = Cluster!NoPass
                /\ \A m \in pass[w].there : Vmid[m] # v

GuestPasses ==
    [by: Cluster!Passes \cup {Cluster!None}, host: Nodes \cup {Cluster!None}, todo: SUBSET Nodes,
     list: SUBSET Machines, running: SUBSET Machines, complete: BOOLEAN,
     fresh: SUBSET Cluster!Vmids, there: SUBSET Machines]

\* A machine is created; outside a cluster its VMID may be in use elsewhere.
Built(m, n) ==
    /\ Cluster!Change /\ UNCHANGED pass /\ at[m] = Cluster!None
    /\ at' = [at EXCEPT ![m] = n] /\ up' \in {up, up \cup {m}}

\* The nodes change and the rows do not; a listing under way no longer counts on
\* a machine that leaves its node.
LEMMA ChangeKeeps ==
    ASSUME GuestInv, Cluster!Change, at' \in [Machines -> Nodes \cup {Cluster!None}],
           up' \subseteq {m \in Machines : at'[m] # Cluster!None}, NEW m \in Machines,
           \A x \in Machines \ {m} : at'[x] = at[x],
           \/ Cluster!Leaves(m)
           \/ UNCHANGED pass /\ (at'[m] = at[m] \/ at[m] = Cluster!None)
    PROVE  GuestInv' /\ PruneFits
<1>1. UNCHANGED rows /\ changes' \in 0..MaxChanges
  BY TablesAssumption DEF Cluster!Change, GuestInv, Cluster!TypeOK
<1>2. pass \in [Cluster!Workers -> GuestPasses]
  BY DEF GuestInv, Cluster!TypeOK, GuestPasses
<1>3. /\ pass' \in [Cluster!Workers -> GuestPasses]
      /\ \A w \in Cluster!Workers :
            /\ pass'[w].host = pass[w].host /\ pass'[w].complete = pass[w].complete
            /\ pass'[w].list = pass[w].list /\ pass'[w].todo = pass[w].todo
            /\ \/ pass'[w] = pass[w] /\ (pass[w].todo = {} \/ at'[m] = at[m] \/ at[m] = Cluster!None)
               \/ pass[w].todo # {} /\ pass'[w].there = pass[w].there \ {m}
  BY <1>2 DEF Cluster!Leaves, GuestPasses
<1>4. Cluster!None \notin Nodes
  BY MachinesAssumption DEF Cluster!None
<1>5. ASSUME NEW w \in Cluster!Workers PROVE PassFits(pass[w])'
  <2>1. pass[w] \in GuestPasses /\ PassFits(pass[w])
    BY <1>2 DEF GuestInv
  <2>2. CASE pass'[w] = pass[w] /\ (pass[w].todo = {} \/ at'[m] = at[m] \/ at[m] = Cluster!None)
    BY <1>4, <2>1, <2>2 DEF PassFits, GuestPasses
  <2>3. CASE pass[w].todo # {} /\ pass'[w].there = pass[w].there \ {m}
    <3>1. pass[w] # Cluster!NoPass
      BY <2>3 DEF Cluster!NoPass
    <3> QED
      BY <1>3, <2>1, <2>3, <3>1 DEF PassFits, GuestPasses
  <2> QED
    BY <1>3, <2>2, <2>3
<1>6. Cluster!TypeOK'
  BY <1>1, <1>3 DEF GuestInv, Cluster!TypeOK, GuestPasses
<1> QED
  BY <1>1, <1>5, <1>6 DEF GuestInv, PruneFits, RowFits, OneUnraced

LEMMA MachinesKeep ==
    ASSUME GuestInv, NEW m \in Machines, NEW n \in Nodes,
           \/ Cluster!Destroy(m) \/ Cluster!Power(m) \/ Cluster!Migrate(m, n) \/ Built(m, n)
    PROVE  GuestInv' /\ PruneFits
<1>1. /\ at \in [Machines -> Nodes \cup {Cluster!None}] /\ up \subseteq {x \in Machines : at[x] # Cluster!None}
      /\ n # Cluster!None
  BY MachinesAssumption DEF GuestInv, Cluster!TypeOK, Cluster!None
<1>2. CASE Cluster!Destroy(m)
  BY <1>1, <1>2, ChangeKeeps DEF Cluster!Destroy
<1>3. CASE Cluster!Power(m)
  BY <1>1, <1>3, ChangeKeeps DEF Cluster!Power
<1>4. CASE Cluster!Migrate(m, n)
  BY <1>1, <1>4, ChangeKeeps DEF Cluster!Migrate
<1>5. CASE Built(m, n)
  BY <1>1, <1>5, ChangeKeeps DEF Built
<1> QED
  BY <1>2, <1>3, <1>4, <1>5

\* The passes change and the rows do not.
LEMMA PassChangeKeeps ==
    ASSUME GuestInv, NEW w \in Cluster!Workers, NEW p \in GuestPasses, PassFits(p),
           pass' = [pass EXCEPT ![w] = p], UNCHANGED <<at, up, rows, changes>>
    PROVE  GuestInv' /\ PruneFits
<1>1. pass \in [Cluster!Workers -> GuestPasses]
  BY DEF GuestInv, Cluster!TypeOK, GuestPasses
<1>2. pass' \in [Cluster!Workers -> GuestPasses]
  BY <1>1
<1>3. ASSUME NEW x \in Cluster!Workers PROVE PassFits(pass[x])'
  BY <1>1 DEF GuestInv, PassFits
<1>4. Cluster!TypeOK'
  BY <1>2 DEF GuestInv, Cluster!TypeOK, GuestPasses
<1> QED
  BY <1>3, <1>4 DEF GuestInv, PruneFits, RowFits, OneUnraced

LEMMA NoPassFits == Cluster!NoPass \in GuestPasses /\ PassFits(Cluster!NoPass)
  BY DEF Cluster!NoPass, Cluster!None, GuestPasses, PassFits

\* The answer of a node: what stayed on it is listed or a call failed.
LEMMA AskedFits ==
    ASSUME NEW p \in GuestPasses, p.host \in Nodes, PassFits(p), p # Cluster!NoPass,
           NEW n \in Nodes, NEW failed \in SUBSET {"vm", "ct"}
    PROVE  LET new == Cluster!Asked(p, n, failed) IN new \in GuestPasses /\ PassFits(new)
<1> DEFINE list == UNION {Cluster!Listed(n, type) : type \in {"vm", "ct"} \ failed}
           new == Cluster!Asked(p, n, failed)
<1>1. /\ new = [p EXCEPT !.todo = p.todo \ {n}, !.list = p.list \cup list,
                         !.running = p.running \cup (list \cap up),
                         !.complete = p.complete /\ failed = {}]
  BY DEF Cluster!Asked, GuestPasses
<1>2. list \subseteq Machines
  BY DEF Cluster!Listed, Cluster!On
<1>3. failed = {} => \A m \in Machines : at[m] = n => m \in list
  <2> SUFFICES ASSUME failed = {}, NEW m \in Machines, at[m] = n PROVE m \in list
    OBVIOUS
  <2>1. Type[m] \in {"vm", "ct"} \ failed /\ m \in Cluster!Listed(n, Type[m])
    BY MachinesAssumption DEF Cluster!Listed, Cluster!On
  <2> QED
    BY <2>1
<1> HIDE DEF list
<1>4. /\ new \in GuestPasses /\ new.host = p.host /\ new.there = p.there
      /\ new.todo = p.todo \ {n} /\ new.list = p.list \cup list
      /\ new.complete = (p.complete /\ failed = {})
  BY <1>1, <1>2 DEF GuestPasses
<1> HIDE DEF new
<1>5. ASSUME new.complete, NEW m \in new.there PROVE m \in new.list \/ at[m] \in new.todo
  <2>1. p.complete /\ failed = {} /\ m \in p.there /\ m \in Machines
    BY <1>4, <1>5 DEF GuestPasses
  <2>2. m \in p.list \/ at[m] \in p.todo
    BY <2>1 DEF PassFits
  <2> QED
    BY <1>3, <1>4, <2>1, <2>2
<1>6. PassFits(new)
  BY <1>4, <1>5 DEF PassFits
<1> QED
  BY <1>4, <1>6 DEF new

\* A pass that begins counts on the machines of the nodes it will ask.
LEMMA BegunFits ==
    ASSUME GuestInv, NEW n \in Nodes, NEW by \in Cluster!Passes, NEW todo \in SUBSET Nodes,
           NEW there \in SUBSET Machines, \A m \in there : at[m] \in todo
    PROVE  LET p == Cluster!Begun(n, by, todo, there) IN
           p \in GuestPasses /\ p.host \in Nodes /\ PassFits(p) /\ p # Cluster!NoPass
<1> DEFINE p == Cluster!Begun(n, by, todo, there)
<1>1. p = [by |-> by, host |-> n, todo |-> todo, list |-> {}, running |-> {}, complete |-> TRUE,
           fresh |-> {}, there |-> there]
  BY DEF Cluster!Begun
<1> HIDE DEF p
<1>2. p \in GuestPasses /\ p # Cluster!NoPass
  BY <1>1 DEF GuestPasses, Cluster!NoPass
<1>3. PassFits(p)
  BY <1>1 DEF PassFits
<1> QED
  BY <1>1, <1>2, <1>3 DEF p

\* A pass begins, and has asked its node or will ask every node.
LEMMA ListKeeps ==
    ASSUME GuestInv, NEW w \in Cluster!Workers, NEW n \in Nodes, NEW by \in Cluster!Passes,
           Cluster!List(w, n, by)
    PROVE  GuestInv' /\ PruneFits
<1>1. UNCHANGED <<at, up, rows, changes>>
  BY DEF Cluster!List
<1>2. CASE Cluster!GetNodeGuests(w, n, by)
  <2> DEFINE p == Cluster!Begun(n, by, {n}, Cluster!On(n))
  <2>1. PICK failed \in SUBSET {"vm", "ct"} : pass' = [pass EXCEPT ![w] = Cluster!Asked(p, n, failed)]
    BY <1>2 DEF Cluster!GetNodeGuests
  <2>2. p \in GuestPasses /\ p.host \in Nodes /\ PassFits(p) /\ p # Cluster!NoPass
    BY BegunFits DEF Cluster!On
  <2> HIDE DEF p
  <2> DEFINE new == Cluster!Asked(p, n, failed)
  <2>3. new \in GuestPasses /\ PassFits(new)
    BY <2>2, AskedFits
  <2>4. pass' = [pass EXCEPT ![w] = new]
    BY <2>1
  <2> HIDE DEF new
  <2> QED
    BY <1>1, <2>3, <2>4, PassChangeKeeps
<1>3. CASE Cluster!GetAllGuests(w, n, by)
  <2> DEFINE there == UNION {Cluster!On(o) : o \in Nodes}
             p == Cluster!Begun(n, by, Nodes, there)
  <2>1. there \subseteq Machines /\ \A m \in there : at[m] \in Nodes
    BY DEF Cluster!On
  <2>2. pass' = [pass EXCEPT ![w] = p]
    BY <1>3 DEF Cluster!GetAllGuests
  <2> HIDE DEF there
  <2>3. p \in GuestPasses /\ PassFits(p)
    BY <2>1, BegunFits
  <2> HIDE DEF p
  <2> QED
    BY <1>1, <2>2, <2>3, PassChangeKeeps
<1> QED
  BY <1>2, <1>3 DEF Cluster!List

\* A node of a longer listing answers.
LEMMA AskNodeKeeps ==
    ASSUME GuestInv, NEW w \in Cluster!Workers, NEW n \in Nodes, Cluster!AskNode(w, n)
    PROVE  GuestInv' /\ PruneFits
<1> DEFINE p == pass[w]
<1>1. p \in GuestPasses /\ PassFits(p)
  BY DEF GuestInv, Cluster!TypeOK, GuestPasses
<1>2. n \in p.todo /\ UNCHANGED <<at, up, rows, changes>>
  BY DEF Cluster!AskNode
<1>3. PICK failed \in SUBSET {"vm", "ct"} :
        LET new == Cluster!Asked(p, n, failed) IN
        pass' = [pass EXCEPT ![w] = IF new.todo = {} /\ ~Cluster!Usable(new) THEN Cluster!NoPass ELSE new]
  BY DEF Cluster!AskNode
<1> HIDE DEF p
<1>4. p # Cluster!NoPass /\ p.host \in Nodes
  BY <1>1, <1>2 DEF Cluster!NoPass, PassFits
<1> DEFINE new == Cluster!Asked(p, n, failed)
<1>5. new \in GuestPasses /\ PassFits(new)
  BY <1>1, <1>4, AskedFits
<1>6. pass' = [pass EXCEPT ![w] = Cluster!NoPass] \/ pass' = [pass EXCEPT ![w] = new]
  BY <1>3
<1> HIDE DEF new
<1> QED
  BY <1>2, <1>5, <1>6, NoPassFits, PassChangeKeeps

LEMMA LookUpKeeps ==
    ASSUME GuestInv, NEW w \in Cluster!Workers, NEW v \in Cluster!Vmids, Cluster!LookUp(w, v)
    PROVE  GuestInv' /\ PruneFits
<1> DEFINE old == pass[w]
           new == [old EXCEPT !.fresh = {v}]
<1>1. /\ v \in Cluster!ListedVmids(old) /\ UNCHANGED <<at, up, rows, changes>>
      /\ pass' = [pass EXCEPT ![w] = new]
  BY DEF Cluster!LookUp
<1>2. old \in GuestPasses /\ PassFits(old)
  BY DEF GuestInv, Cluster!TypeOK, GuestPasses
<1>3. old # Cluster!NoPass
  BY <1>1 DEF Cluster!ListedVmids, Cluster!NoPass
<1> HIDE DEF old
<1>4. /\ new \in GuestPasses /\ new.host = old.host /\ new.complete = old.complete
      /\ new.there = old.there /\ new.list = old.list /\ new.todo = old.todo
  BY <1>2 DEF GuestPasses
<1>5. PassFits(new)
  BY <1>2, <1>3, <1>4 DEF PassFits
<1> QED
  BY <1>1, <1>4, <1>5, PassChangeKeeps

\* The transaction of a pass.
LEMMA CommitKeeps ==
    ASSUME GuestInv, NEW w \in Cluster!Workers, NEW by \in Cluster!Passes, NEW cm \in BOOLEAN,
           Cluster!Commit(w, by, cm)
    PROVE  GuestInv' /\ PruneFits
<1> DEFINE p == pass[w]
<1>1. /\ pass' = [pass EXCEPT ![w] = Cluster!NoPass] /\ UNCHANGED <<at, up, changes>>
      /\ p.by = by /\ p.todo = {}
  BY DEF Cluster!Commit
<1>2. PICK known \in SUBSET p.list :
        rows' = [h \in Nodes |-> [v \in Cluster!Vmids |-> Cluster!Placed(p, v, known, cm)[h]]]
  BY DEF Cluster!Commit
<1>3. /\ p \in GuestPasses /\ PassFits(p)
      /\ p.host \in Nodes /\ p.list \subseteq Machines /\ (p.complete => p.there \subseteq p.list)
  <2>1. p \in GuestPasses /\ PassFits(p)
    BY DEF GuestInv, Cluster!TypeOK, GuestPasses
  <2>2. p # Cluster!NoPass
    BY <1>1 DEF Cluster!Passes, Cluster!NoPass, Cluster!None
  <2> QED
    BY <1>1, <2>1, <2>2 DEF PassFits, GuestPasses
<1> HIDE DEF p
<1> DEFINE New(v) == Cluster!Placed(p, v, known, cm)
<1>4. \A v \in Cluster!Vmids :
        /\ ColumnFits(New(v))
        /\ \A n \in Nodes : rows[n][v] # Cluster!NoRow /\ (\A o \in Nodes : New(v)[o] = Cluster!NoRow) =>
              n = p.host /\ v \in Cluster!Stale(p)
  BY <1>3, PlacedFits
<1>5. rows' = [h \in Nodes |-> [v \in Cluster!Vmids |-> New(v)[h]]]
  BY <1>2
<1> HIDE DEF New
<1>6. \A n \in Nodes, v \in Cluster!Vmids : /\ rows'[n][v] = New(v)[n] /\ rows'[n][v] \in GuestRows
                                            /\ RowFits(rows'[n][v])
  BY <1>4, <1>5 DEF ColumnFits
<1>7. \A v \in Cluster!Vmids : OneUnraced([n \in Nodes |-> rows'[n][v]])
  BY <1>4, <1>6 DEF ColumnFits, OneUnraced
<1>8. rows' \in [Nodes -> [Cluster!Vmids -> GuestRows]]
  BY <1>4, <1>5 DEF ColumnFits
<1>9. /\ pass' \in [Cluster!Workers -> GuestPasses]
      /\ (\A x \in Cluster!Workers : PassFits(pass[x]))'
  BY <1>1, NoPassFits DEF GuestInv, Cluster!TypeOK, GuestPasses, PassFits
<1>10. Cluster!TypeOK'
  BY <1>1, <1>8, <1>9 DEF GuestInv, Cluster!TypeOK, GuestPasses, GuestRows
<1>11. PruneFits
  <2> SUFFICES ASSUME NEW n \in Nodes, NEW v \in Cluster!Vmids, rows[n][v] # Cluster!NoRow,
                      \A o \in Nodes : rows'[o][v] = Cluster!NoRow
               PROVE  /\ pass[w].host = n /\ pass'[w] = Cluster!NoPass
                      /\ \A m \in pass[w].there : Vmid[m] # v
    BY DEF PruneFits
  <2>1. n = p.host /\ v \in Cluster!Stale(p)
    BY <1>4, <1>6
  <2>2. p.complete /\ v \notin Cluster!ListedVmids(p)
    BY <2>1 DEF Cluster!Stale
  <2>3. \A m \in p.there : Vmid[m] # v
    BY <1>3, <2>2 DEF Cluster!ListedVmids
  <2>4. pass'[w] = Cluster!NoPass
    BY <1>1 DEF GuestInv, Cluster!TypeOK
  <2> QED
    BY <2>1, <2>3, <2>4 DEF p
<1> QED
  BY <1>6, <1>7, <1>9, <1>10, <1>11 DEF GuestInv, RowFits, OneUnraced

LEMMA ScanKeeps ==
    ASSUME GuestInv, NEW n \in Nodes, NEW v \in Cluster!Vmids, Cluster!Scan(n, v)
    PROVE  GuestInv' /\ PruneFits
<1> DEFINE old == rows[n][v]
           new == [old EXCEPT !.data = old.seen, !.blind = FALSE]
<1>1. old.seen \in up /\ UNCHANGED <<at, up, pass, changes>>
  BY DEF Cluster!Scan
<1>2. rows \in [Nodes -> [Cluster!Vmids -> GuestRows]] /\ old \in GuestRows /\ RowFits(old)
  BY DEF GuestInv, Cluster!TypeOK, GuestRows
<1>3. rows' = [rows EXCEPT ![n] = [rows[n] EXCEPT ![v] = new]]
  <2>1. rows' = [rows EXCEPT ![n][v].data = old.seen, ![n][v].blind = FALSE]
    BY DEF Cluster!Scan
  <2> QED
    BY <1>2, <2>1 DEF GuestRows
<1>4. old.seen \in Machines /\ old # Cluster!NoRow
  BY <1>1, MachinesAssumption DEF GuestInv, Cluster!TypeOK, Cluster!NoRow, Cluster!None
<1> HIDE DEF old
<1>5. new \in GuestRows /\ RowFits(new) /\ new.raced = old.raced /\ new # Cluster!NoRow
  BY <1>2, <1>4, MachinesAssumption DEF GuestRows, RowFits, Cluster!NoRow, Cluster!None
<1> HIDE DEF new
<1>6. /\ rows' \in [Nodes -> [Cluster!Vmids -> GuestRows]] /\ rows'[n][v] = new
      /\ \A o \in Nodes, x \in Cluster!Vmids : o # n \/ x # v => rows'[o][x] = rows[o][x]
  BY <1>2, <1>3, <1>5
<1>7. \A o \in Nodes, x \in Cluster!Vmids : RowFits(rows'[o][x])
  BY <1>5, <1>6 DEF GuestInv
<1>8. \A x \in Cluster!Vmids : OneUnraced([o \in Nodes |-> rows'[o][x]])
  BY <1>4, <1>5, <1>6 DEF GuestInv, OneUnraced, old
<1>9. Cluster!TypeOK'
  BY <1>1, <1>6 DEF GuestInv, Cluster!TypeOK, GuestRows
<1>10. PruneFits
  BY <1>5, <1>6 DEF PruneFits
<1> QED
  BY <1>1, <1>7, <1>8, <1>9, <1>10 DEF GuestInv, PassFits, RowFits, OneUnraced

\* A step of the clustered nodes, or of nodes that are no cluster.
LEMMA GuestStep ==
    ASSUME GuestInv,
           [Cluster!Next \/ (\E m \in Machines, n \in Nodes : Built(m, n))]_Cluster!vars
    PROVE  GuestInv' /\ PruneFits
<1>1. CASE UNCHANGED Cluster!vars
  BY <1>1 DEF Cluster!vars, GuestInv, PruneFits, Cluster!TypeOK, PassFits, RowFits, OneUnraced
<1>2. ASSUME NEW m \in Machines, Cluster!Destroy(m) \/ Cluster!Power(m)
      PROVE  GuestInv' /\ PruneFits
  <2>1. PICK n \in Nodes : TRUE
    BY <1>2, MachinesAssumption DEF Cluster!Destroy, Cluster!Power, GuestInv, Cluster!TypeOK
  <2> QED
    BY <1>2, <2>1, MachinesKeep
<1>3. ASSUME NEW m \in Machines, NEW n \in Nodes,
             Cluster!Create(m, n) \/ Cluster!Migrate(m, n) \/ Built(m, n)
      PROVE  GuestInv' /\ PruneFits
  BY <1>3, MachinesKeep DEF Cluster!Create, Built
<1>4. ASSUME NEW w \in Cluster!Workers, NEW n \in Nodes, NEW by \in Cluster!Passes, Cluster!List(w, n, by)
      PROVE  GuestInv' /\ PruneFits
  BY <1>4, ListKeeps
<1>5. ASSUME NEW w \in Cluster!Workers, Cluster!Discover(w) \/ Cluster!DiscoverAll(w) \/ Cluster!RunDiscovery(w)
      PROVE  GuestInv' /\ PruneFits
  <2>1. PICK by \in Cluster!Passes, cm \in BOOLEAN : Cluster!Commit(w, by, cm)
    BY <1>5 DEF Cluster!Discover, Cluster!DiscoverAll, Cluster!RunDiscovery, Cluster!Passes
  <2> QED
    BY <2>1, CommitKeeps
<1>6. ASSUME NEW w \in Cluster!Workers, Cluster!Fails(w)
      PROVE  GuestInv' /\ PruneFits
  BY <1>6, NoPassFits, PassChangeKeeps DEF Cluster!Fails
<1>7. ASSUME NEW w \in Cluster!Workers, NEW v \in Cluster!Vmids, Cluster!LookUp(w, v)
      PROVE  GuestInv' /\ PruneFits
  BY <1>7, LookUpKeeps
<1>8. ASSUME NEW n \in Nodes, NEW v \in Cluster!Vmids, Cluster!Scan(n, v)
      PROVE  GuestInv' /\ PruneFits
  BY <1>8, ScanKeeps
<1>9. ASSUME NEW w \in Cluster!Workers, NEW n \in Nodes, Cluster!AskNode(w, n)
      PROVE  GuestInv' /\ PruneFits
  BY <1>9, AskNodeKeeps
<1> QED
  BY <1>1, <1>2, <1>3, <1>4, <1>5, <1>6, <1>7, <1>8, <1>9, Zenon DEF Cluster!Next, Cluster!Workers, Cluster!Passes

\* Nodes that are no cluster do nothing a cluster does not, except that a VMID
\* may be in use on several of them.
LEMMA SeparateStep ==
    ASSUME [Separate!Next]_Separate!vars
    PROVE  [Cluster!Next \/ (\E m \in Machines, n \in Nodes : Built(m, n))]_Cluster!vars
<1>1. Separate!vars = Cluster!vars /\ Separate!Workers = Cluster!Workers /\ Separate!Vmids = Cluster!Vmids
  BY DEF Separate!vars, Cluster!vars, Separate!Workers, Cluster!Workers, Separate!Vmids, Cluster!Vmids,
         Separate!Range, Cluster!Range
<1>2. Separate!NoRow = Cluster!NoRow /\ Separate!NoPass = Cluster!NoPass
  BY DEF Separate!NoRow, Cluster!NoRow, Separate!NoPass, Cluster!NoPass, Separate!None, Cluster!None
<1>3. \A m \in Machines : Separate!Destroy(m) \/ Separate!Power(m) => Cluster!Destroy(m) \/ Cluster!Power(m)
  BY DEF Separate!Destroy, Separate!Power, Cluster!Destroy, Cluster!Power, Separate!Change,
         Cluster!Change, Separate!Leaves, Cluster!Leaves, Separate!Workers, Cluster!Workers,
         Separate!None, Cluster!None
<1>4. \A m \in Machines, n \in Nodes : Separate!Create(m, n) \/ Separate!Migrate(m, n) => Built(m, n)
  BY DEF Separate!Create, Separate!Migrate, Separate!Change, Cluster!Change, Built, Separate!None,
         Cluster!None
<1>5. /\ \A n : Separate!On(n) = Cluster!On(n)
      /\ \A p, n, failed : Separate!Asked(p, n, failed) = Cluster!Asked(p, n, failed)
      /\ \A n, by, todo, there : Separate!Begun(n, by, todo, there) = Cluster!Begun(n, by, todo, there)
      /\ \A p : Separate!Usable(p) = Cluster!Usable(p)
  BY DEF Separate!Asked, Cluster!Asked, Separate!Begun, Cluster!Begun, Separate!Usable, Cluster!Usable,
     Separate!Listed, Cluster!Listed, Separate!On, Cluster!On
<1>13. \A w, n, by : Separate!List(w, n, by) => Cluster!List(w, n, by)
  BY <1>2, <1>5, Zenon DEF Separate!List, Cluster!List, Separate!GetNodeGuests, Cluster!GetNodeGuests
<1>6. \A p : Separate!Stale(p) = Cluster!Stale(p) /\ Separate!ListedVmids(p) = Cluster!ListedVmids(p)
  BY <1>1 DEF Separate!Stale, Cluster!Stale, Separate!ListedVmids, Cluster!ListedVmids
<1>8. ASSUME NEW w, NEW by, NEW cm, Separate!Commit(w, by, cm)
      PROVE  Cluster!Commit(w, by, cm)
  BY <1>8 DEF Separate!Commit, Cluster!Commit, Separate!Placed, Cluster!Placed, Separate!Written,
     Cluster!Written, Separate!Reused, Cluster!Reused, Separate!OtherHosts, Cluster!OtherHosts,
     Separate!Stale, Cluster!Stale, Separate!ListedVmids, Cluster!ListedVmids, Separate!NoRow,
     Cluster!NoRow, Separate!None, Cluster!None, Separate!NoPass, Cluster!NoPass, Separate!Vmids,
     Cluster!Vmids, Separate!Range, Cluster!Range
<1>9. \A w : Separate!Discover(w) \/ Separate!DiscoverAll(w) \/ Separate!RunDiscovery(w) \/ Separate!Fails(w) =>
         Cluster!Discover(w) \/ Cluster!DiscoverAll(w) \/ Cluster!RunDiscovery(w) \/ Cluster!Fails(w)
  BY <1>2, <1>8 DEF Separate!Discover, Separate!DiscoverAll, Separate!RunDiscovery, Separate!Fails,
     Cluster!Discover, Cluster!DiscoverAll, Cluster!RunDiscovery, Cluster!Fails
<1>10. \A w, v : Separate!LookUp(w, v) => Cluster!LookUp(w, v)
  BY <1>2, <1>6 DEF Separate!LookUp, Cluster!LookUp
<1>11. \A n, v : Separate!Scan(n, v) => Cluster!Scan(n, v)
  BY DEF Separate!Scan, Cluster!Scan
<1>7. \A w, n : Separate!AskNode(w, n) => Cluster!AskNode(w, n)
  BY <1>2, <1>5, Zenon DEF Separate!AskNode, Cluster!AskNode
<1>12. Separate!Next => Cluster!Next \/ (\E m \in Machines, n \in Nodes : Built(m, n))
  BY <1>1, <1>3, <1>4, <1>7, <1>9, <1>10, <1>11, <1>13, Zenon DEF Separate!Next, Cluster!Next
<1> QED
  BY <1>12 DEF Separate!vars, Cluster!vars

LEMMA GuestInit == Cluster!Init => GuestInv
<1> SUFFICES ASSUME Cluster!Init PROVE GuestInv
  OBVIOUS
<1>1. /\ at = [m \in Machines |-> Cluster!None] /\ up = {} /\ changes = 0
      /\ rows = [n \in Nodes |-> [v \in Cluster!Vmids |-> Cluster!NoRow]]
      /\ pass = [w \in Cluster!Workers |-> Cluster!NoPass]
  BY DEF Cluster!Init
<1>2. Cluster!TypeOK
  BY <1>1, NoRowFits, NoPassFits, TablesAssumption DEF Cluster!TypeOK, GuestRows, GuestPasses
<1>3. \A v \in Cluster!Vmids : OneUnraced([n \in Nodes |-> rows[n][v]])
  BY <1>1 DEF OneUnraced
<1> QED
  BY <1>1, <1>2, <1>3, NoRowFits, NoPassFits DEF GuestInv

LEMMA GuestImplied == GuestInv => GuestsSound
<1> SUFFICES ASSUME GuestInv PROVE GuestsSound
  OBVIOUS
<1>1. Cluster!OneRowPerVmid
  <2> SUFFICES ASSUME NEW v \in Cluster!Vmids, \A n \in Nodes : ~rows[n][v].raced
               PROVE  Cluster!Cardinality({n \in Nodes : rows[n][v] # Cluster!NoRow}) <= 1
    BY DEF Cluster!OneRowPerVmid
  <2> DEFINE has == {n \in Nodes : rows[n][v] # Cluster!NoRow}
  <2>1. \A n, o \in has : n = o
    BY DEF GuestInv, OneUnraced
  <2> HIDE DEF has
  <2>2. has = {} \/ \E n : has = {n}
    BY <2>1
  <2>3. Cardinality(has) <= 1
    <3>1. CASE has = {}
      BY <3>1, FS_EmptySet
    <3>2. ASSUME NEW n, has = {n} PROVE Cardinality(has) = 1
      BY <3>2, FS_Singleton, Zenon
    <3> QED
      BY <2>2, <3>1, <3>2
  <2> QED
    BY <2>3, SameSize DEF has
<1>2. Cluster!ResultsOwn
  BY DEF GuestInv, RowFits, Cluster!ResultsOwn, Cluster!NoRow
<1> QED
  BY <1>1, <1>2 DEF GuestsSound, GuestInv

\* Whatever machines come, go and move, and whatever passes overlap or fail, in
\* a cluster and without one: a VMID has one row unless two passes looked it up
\* at once, and a row's results are of its machine unless a takeover could not
\* be noticed (_run_discovery, discover, discover_all).
THEOREM GuestsSoundHolds == Cluster!Spec \/ Separate!Spec => []GuestsSound
<1>1. Cluster!Init => GuestInv
  BY GuestInit
<1>2. Separate!Init => Cluster!Init
  BY DEF Separate!Init, Cluster!Init, Separate!None, Cluster!None, Separate!NoRow, Cluster!NoRow,
         Separate!NoPass, Cluster!NoPass, Separate!Vmids, Cluster!Vmids, Separate!Range, Cluster!Range,
         Separate!Workers, Cluster!Workers
<1>3. GuestInv /\ [Cluster!Next]_Cluster!vars => GuestInv'
  BY GuestStep
<1>4. GuestInv /\ [Separate!Next]_Separate!vars => GuestInv'
  BY GuestStep, SeparateStep
<1> QED
  BY <1>1, <1>2, <1>3, <1>4, GuestImplied, PTL DEF Cluster!Spec, Separate!Spec

\* A guest's row is only deleted by a pass of its host, and only when no machine
\* with its VMID stayed where it was on the nodes the pass asked, whatever calls
\* fail and whatever moves between them (get_all_guests, 190-211).
THEOREM PrunedWasGoneHolds == Cluster!Spec \/ Separate!Spec => PrunedWasGone
<1>1. Cluster!Init => GuestInv
  BY GuestInit
<1>2. Separate!Init => Cluster!Init
  BY DEF Separate!Init, Cluster!Init, Separate!None, Cluster!None, Separate!NoRow, Cluster!NoRow,
         Separate!NoPass, Cluster!NoPass, Separate!Vmids, Cluster!Vmids, Separate!Range, Cluster!Range,
         Separate!Workers, Cluster!Workers
<1>3. GuestInv /\ [Cluster!Next]_Cluster!vars => GuestInv' /\ [PruneFits]_Cluster!vars
  BY GuestStep
<1>4. GuestInv /\ [Separate!Next]_Separate!vars => GuestInv' /\ [PruneFits]_Cluster!vars
  BY GuestStep, SeparateStep
<1> QED
  BY <1>1, <1>2, <1>3, <1>4, PTL DEF Cluster!Spec, Separate!Spec, PrunedWasGone,
     Cluster!PrunedWasGone, PruneFits

----------------------------------------------------------------------------
(* The package rows of a guest. *)

PackageStates == {Package!Free} \cup [pkg: Pkgs, state: {"pending", "applied"}]
AutoStates ==
    [pc: {"idle", "apt", "recheck", "reconcile"}, cache: SUBSET (Package!Ids \X Pkgs),
     status: Package!Statuses, seen: SUBSET Pkgs]

\* No package is pending twice in a table.
OnceIn(table) ==
    \A i, j \in Package!Ids :
        table[i].state = "pending" /\ table[j].state = "pending" /\ table[i].pkg = table[j].pkg => i = j

PackageInv ==
    /\ Package!TypeOK /\ Package!OneScan /\ OnceIn(packageRows)
    /\ auto \in AutoStates

LEMMA PackageStatesFit ==
    /\ Package!Free \in PackageStates /\ Package!Free.state = "free"
    /\ \A row \in PackageStates : row.state \in {"free", "pending", "applied"}
    /\ \A row \in PackageStates \ {Package!Free} :
          row.pkg \in Pkgs /\ row.state \in {"pending", "applied"}
             /\ [row EXCEPT !.state = "applied"] \in PackageStates
             /\ [row EXCEPT !.state = "applied"].state = "applied"
  BY DEF PackageStates, Package!Free

\* Inserting one row per package leaves each package pending once.
LEMMA PlacedOnce ==
    ASSUME NEW old \in [Package!Ids -> PackageStates], NEW seen \in SUBSET Pkgs,
           NEW new \in Package!Placed(old, seen)
    PROVE  new \in [Package!Ids -> PackageStates] /\ OnceIn(new)
<1> DEFINE n == Cardinality(seen)
<1>1. n \in Nat /\ Package!Cardinality(seen) = n
  BY TablesAssumption, FS_Subset, FS_CardinalityType, SameSize
<1> HIDE DEF n
<1>2. PICK b \in 0..(MaxId - n), f \in Package!Bijection(1..n, seen) :
        new = [i \in Package!Ids |->
                 IF i \in (b + 1)..(b + n) THEN [pkg |-> f[i - b], state |-> "pending"]
                 ELSE IF old[i].state = "applied" THEN old[i] ELSE Package!Free]
  BY <1>1 DEF Package!Placed
<1>3. /\ f \in [1..n -> seen]
      /\ \A i, j \in 1..n : f[i] = f[j] => i = j
  BY DEF Package!Bijection, Package!Injection, Package!IsInjective
<1>4. b \in Nat /\ MaxId \in Nat
  BY <1>1, TablesAssumption
<1>5. \A i \in (b + 1)..(b + n) : i - b \in 1..n /\ f[i - b] \in Pkgs
  BY <1>1, <1>3, <1>4
<1>6. ASSUME NEW i \in Package!Ids
      PROVE  new[i] \in PackageStates /\ (new[i].state = "pending" => i \in (b + 1)..(b + n) /\ new[i].pkg = f[i - b])
  <2>1. CASE i \in (b + 1)..(b + n)
    BY <1>2, <1>5, <2>1 DEF PackageStates
  <2>2. CASE i \notin (b + 1)..(b + n)
    BY <1>2, <2>2, PackageStatesFit
  <2> QED
    BY <2>1, <2>2
<1>7. OnceIn(new)
  <2> SUFFICES ASSUME NEW i \in Package!Ids, NEW j \in Package!Ids, new[i].state = "pending",
                      new[j].state = "pending", new[i].pkg = new[j].pkg
               PROVE  i = j
    BY DEF OnceIn
  <2>1. i - b = j - b
    BY <1>3, <1>5, <1>6
  <2> QED
    BY <1>4, <2>1 DEF Package!Ids
<1> QED
  BY <1>2, <1>6, <1>7

\* Marking rows as applied adds no pending row.
LEMMA RetiredOnce ==
    ASSUME NEW old \in [Package!Ids -> PackageStates], OnceIn(old), NEW S,
           \A i \in S \cap Package!Ids : old[i] # Package!Free,
           NEW new, new = [i \in Package!Ids |-> IF i \in S THEN [old[i] EXCEPT !.state = "applied"] ELSE old[i]]
    PROVE  new \in [Package!Ids -> PackageStates] /\ OnceIn(new)
<1>1. \A i \in Package!Ids : /\ new[i] \in PackageStates
                             /\ new[i].state = "pending" => new[i] = old[i]
  BY PackageStatesFit
<1> QED
  BY <1>1 DEF OnceIn

LEMMA PackageInvParts ==
    PackageInv <=>
        /\ outdated \subseteq Pkgs /\ packageRows \in [Package!Ids -> PackageStates]
        /\ status \in Package!Statuses /\ lock \in Scanners \cup {"none"}
        /\ scan \in [Scanners -> [pc: {"idle", "waiting", "reading", "writing"},
                                  status: Package!Statuses, seen: SUBSET Pkgs]]
        /\ auto \in AutoStates /\ job \in [pc: {"idle", "apt", "record"}, status: Package!Statuses]
        /\ Package!OneScan /\ OnceIn(packageRows)
  BY DEF PackageInv, Package!TypeOK, PackageStates, AutoStates

\* The guest changes on its own, or by an update under way.
LEMMA OutdatedKeeps ==
    ASSUME PackageInv, NEW p \in Pkgs,
           \/ Package!Publish(p) \/ Package!InstalledElsewhere(p)
           \/ Package!AutoInstall(p) \/ Package!JobInstall(p)
    PROVE  PackageInv' /\ UNCHANGED <<packageRows, scan, auto>>
<1>1. outdated' \subseteq Pkgs /\ UNCHANGED <<packageRows, status, lock, scan, auto, job>>
  BY DEF PackageInv, Package!TypeOK, Package!Publish, Package!InstalledElsewhere, Package!AutoInstall,
         Package!JobInstall
<1> QED
  BY <1>1 DEF PackageInv, Package!TypeOK, Package!OneScan, OnceIn

LEMMA AssignFits ==
    ASSUME status \in Package!Statuses, NEW loaded, NEW new \in Package!Statuses
    PROVE  Package!Assign(loaded, new) \in Package!Statuses
  BY DEF Package!Assign

\* A scan under way holds the lock, and writes each package once.
LEMMA ScannersKeep ==
    ASSUME PackageInv, NEW s \in Scanners,
           \/ Package!ScanBegin(s) \/ Package!ScanTake(s) \/ Package!ScanRead(s)
           \/ Package!ScanFails(s) \/ Package!ScanWrite(s)
    PROVE  PackageInv' /\ UNCHANGED auto
<1> DEFINE Scans == [pc: {"idle", "waiting", "reading", "writing"},
                     status: Package!Statuses, seen: SUBSET Pkgs]
<1>1. /\ outdated \subseteq Pkgs /\ packageRows \in [Package!Ids -> PackageStates]
      /\ status \in Package!Statuses /\ lock \in Scanners \cup {"none"}
      /\ scan \in [Scanners -> Scans] /\ Package!OneScan /\ OnceIn(packageRows)
      /\ "none" \notin Scanners
  BY PackageInvParts, TablesAssumption
<1>2. Package!NoScan \in Scans /\ {"unknown", "up-to-date", "updates-available", "error"} = Package!Statuses
  BY DEF Package!NoScan, Package!Statuses
<1>3. UNCHANGED <<outdated, auto, job>>
  BY DEF Package!ScanBegin, Package!ScanTake, Package!ScanRead, Package!ScanFails, Package!ScanWrite
<1>4. /\ scan' \in [Scanners -> Scans] /\ lock' \in Scanners \cup {"none"} /\ Package!OneScan'
  <2>1. CASE Package!ScanBegin(s)
    <3>1. /\ scan' = [scan EXCEPT ![s] = [pc |-> "waiting", status |-> status, seen |-> {}]]
          /\ UNCHANGED lock
      BY <2>1 DEF Package!ScanBegin
    <3>2. [pc |-> "waiting", status |-> status, seen |-> {}] \in Scans
      BY <1>1
    <3> QED
      BY <1>1, <3>1, <3>2 DEF Package!OneScan
  <2>2. CASE Package!ScanTake(s)
    BY <1>1, <2>2 DEF Package!ScanTake, Package!OneScan
  <2>3. CASE Package!ScanRead(s)
    BY <1>1, <2>3 DEF Package!ScanRead, Package!OneScan
  <2>4. CASE Package!ScanFails(s) \/ Package!ScanWrite(s)
    <3>1. /\ scan[s].pc \in {"reading", "writing"} /\ lock' = "none"
          /\ scan' = [scan EXCEPT ![s] = Package!NoScan]
      BY <2>4 DEF Package!ScanFails, Package!ScanWrite
    <3>2. \A x \in Scanners \ {s} : scan[x].pc \notin {"reading", "writing"}
      BY <1>1, <3>1 DEF Package!OneScan
    <3>3. Package!NoScan.pc = "idle"
      BY DEF Package!NoScan
    <3> QED
      BY <1>1, <1>2, <3>1, <3>2, <3>3 DEF Package!OneScan
  <2> QED
    BY <2>1, <2>2, <2>3, <2>4
<1>5. status' \in Package!Statuses
  BY <1>1, <1>2, AssignFits DEF Package!ScanBegin, Package!ScanTake, Package!ScanRead,
                                Package!ScanFails, Package!ScanWrite
<1>6. packageRows' \in [Package!Ids -> PackageStates] /\ OnceIn(packageRows')
  <2>1. CASE Package!ScanWrite(s)
    <3>1. scan[s].seen \in SUBSET Pkgs
      BY <1>1
    <3> QED
      BY <1>1, <2>1, <3>1, PlacedOnce DEF Package!ScanWrite, Package!Inserted
  <2> QED
    BY <1>1, <2>1 DEF Package!ScanBegin, Package!ScanTake, Package!ScanRead, Package!ScanFails
<1>7. OnceIn(packageRows)'
  BY <1>6 DEF OnceIn
<1> QED
  BY <1>3, <1>4, <1>5, <1>6, <1>7 DEF PackageInv, Package!TypeOK, PackageStates

\* A row of the table that is pending still has the package the scheduler's
\* session loaded it with: so while no scan runs beside the window.
CacheFits ==
    \A c \in auto.cache : packageRows[c[1]].state = "pending" => packageRows[c[1]].pkg = c[2]

\* What the window's update retires was no longer upgradable.
RetiresFits ==
    auto.pc = "reconcile" /\ auto' = Package!NoAuto =>
        \A i \in Package!Pending :
            packageRows'[i].state = "applied" => packageRows[i].pkg \notin auto.seen

LEMMA AutoKeeps ==
    ASSUME PackageInv,
           Package!AutoStart \/ Package!AutoExit \/ Package!AutoRecheck \/ Package!AutoReconcile
    PROVE  PackageInv' /\ UNCHANGED scan /\ (CacheFits => CacheFits' /\ RetiresFits)
<1>1. /\ outdated \subseteq Pkgs /\ packageRows \in [Package!Ids -> PackageStates]
      /\ status \in Package!Statuses /\ auto \in AutoStates /\ OnceIn(packageRows)
  BY PackageInvParts
<1>2. /\ Package!NoAuto \in AutoStates /\ Package!NoAuto.cache = {} /\ Package!NoAuto.pc = "idle"
      /\ {"unknown", "up-to-date", "updates-available", "error"} = Package!Statuses
  BY DEF Package!NoAuto, AutoStates, Package!Statuses
<1>3. UNCHANGED <<outdated, lock, scan, job>>
  BY DEF Package!AutoStart, Package!AutoExit, Package!AutoRecheck, Package!AutoReconcile
<1>4. CASE Package!AutoStart
  <2> DEFINE loaded == {<<i, packageRows[i].pkg>> : i \in Package!Pending}
  <2>1. /\ auto' = [pc |-> "apt", cache |-> loaded, status |-> status, seen |-> {}]
        /\ auto.pc = "idle" /\ UNCHANGED <<packageRows, status>>
    BY <1>4 DEF Package!AutoStart
  <2>2. loaded \subseteq Package!Ids \X Pkgs
    <3>1. \A i \in Package!Pending : i \in Package!Ids /\ packageRows[i].pkg \in Pkgs
      BY <1>1, PackageStatesFit DEF Package!Pending
    <3> QED
      BY <3>1
  <2>3. auto' \in AutoStates
    BY <1>1, <2>1, <2>2 DEF AutoStates
  <2>4. CacheFits'
    BY <2>1 DEF CacheFits
  <2>5. RetiresFits
    BY <2>1 DEF RetiresFits
  <2> QED
    BY <1>3, <2>1, <2>3, <2>4, <2>5 DEF PackageInv, Package!TypeOK, AutoStates, Package!OneScan, OnceIn
<1>5. CASE Package!AutoExit \/ Package!AutoRecheck
  <2>1. auto.pc \in {"apt", "recheck"} /\ UNCHANGED <<packageRows, status>>
    BY <1>5 DEF Package!AutoExit, Package!AutoRecheck
  <2>2. auto' \in AutoStates /\ auto'.cache \subseteq auto.cache
    BY <1>1, <1>2, <1>5 DEF Package!AutoExit, Package!AutoRecheck, AutoStates
  <2>3. CacheFits => CacheFits'
    BY <2>1, <2>2 DEF CacheFits
  <2>4. RetiresFits
    BY <2>1 DEF RetiresFits
  <2> QED
    BY <1>3, <2>1, <2>2, <2>3, <2>4 DEF PackageInv, Package!TypeOK, AutoStates, Package!OneScan, OnceIn
<1>6. CASE Package!AutoReconcile
  <2>1. auto' = Package!NoAuto /\ auto' \in AutoStates
    BY <1>2, <1>6 DEF Package!AutoReconcile
  <2>2. status' \in Package!Statuses
    BY <1>1, <1>2, <1>6, AssignFits DEF Package!AutoReconcile
  <2>3. \/ UNCHANGED packageRows
        \/ /\ \A i \in Package!Retired : packageRows[i] # Package!Free
           /\ packageRows' = [i \in Package!Ids |-> IF i \in Package!Retired
                                THEN [packageRows[i] EXCEPT !.state = "applied"] ELSE packageRows[i]]
    BY <1>6 DEF Package!AutoReconcile
  <2>4. packageRows' \in [Package!Ids -> PackageStates] /\ OnceIn(packageRows')
    BY <1>1, <2>3, RetiredOnce
  <2>5. CacheFits'
    BY <1>2, <2>1 DEF CacheFits
  <2>6. ASSUME CacheFits PROVE RetiresFits
    <3> SUFFICES ASSUME NEW i \in Package!Pending, packageRows'[i].state = "applied"
                 PROVE  packageRows[i].pkg \notin auto.seen
      BY DEF RetiresFits
    <3>1. i \in Package!Ids /\ packageRows[i].state = "pending"
      BY DEF Package!Pending
    <3>2. i \in Package!Retired
      BY <2>3, <3>1
    <3>3. PICK c \in auto.cache : c[1] = i /\ c[2] \notin auto.seen
      BY <3>2 DEF Package!Retired
    <3> QED
      BY <2>6, <3>1, <3>3 DEF CacheFits
  <2>7. OnceIn(packageRows)'
    BY <2>4 DEF OnceIn
  <2> QED
    BY <1>3, <2>1, <2>2, <2>4, <2>5, <2>6, <2>7 DEF PackageInv, Package!TypeOK, AutoStates,
       PackageStates, Package!OneScan
<1> QED
  BY <1>4, <1>5, <1>6

LEMMA UserKeeps ==
    ASSUME PackageInv, Package!JobStart \/ Package!JobExit \/ Package!JobRecord
    PROVE  PackageInv' /\ UNCHANGED <<scan, auto>> /\ (CacheFits => CacheFits')
<1> DEFINE Jobs == [pc: {"idle", "apt", "record"}, status: Package!Statuses]
<1>1. /\ packageRows \in [Package!Ids -> PackageStates] /\ OnceIn(packageRows)
      /\ status \in Package!Statuses /\ job \in Jobs
  BY PackageInvParts
<1>2. UNCHANGED <<outdated, lock, scan, auto>>
  BY DEF Package!JobStart, Package!JobExit, Package!JobRecord
<1>3. Package!NoJob \in Jobs /\ "up-to-date" \in Package!Statuses
  BY DEF Package!NoJob, Package!Statuses
<1>4. job' \in Jobs
  BY <1>1, <1>3 DEF Package!JobStart, Package!JobExit, Package!JobRecord
<1>5. status' \in Package!Statuses
  BY <1>1, <1>3, AssignFits DEF Package!JobStart, Package!JobExit, Package!JobRecord
<1>6. /\ packageRows' \in [Package!Ids -> PackageStates] /\ OnceIn(packageRows')
      /\ \A i \in Package!Ids : packageRows'[i].state = "pending" => packageRows'[i] = packageRows[i]
  <2>1. CASE Package!JobRecord
    <3>1. packageRows' = [i \in Package!Ids |-> IF i \in Package!Pending
                             THEN [packageRows[i] EXCEPT !.state = "applied"] ELSE packageRows[i]]
      BY <2>1 DEF Package!JobRecord
    <3>2. \A i \in Package!Pending : packageRows[i] # Package!Free
      BY PackageStatesFit DEF Package!Pending
    <3>3. packageRows' \in [Package!Ids -> PackageStates] /\ OnceIn(packageRows')
      BY <1>1, <3>1, <3>2, RetiredOnce
    <3>4. \A i \in Package!Ids : packageRows'[i].state = "pending" => packageRows'[i] = packageRows[i]
      BY <1>1, <3>1, <3>2, PackageStatesFit DEF Package!Pending
    <3> QED
      BY <3>3, <3>4
  <2> QED
    BY <1>1, <2>1 DEF Package!JobStart, Package!JobExit
<1>7. CacheFits => CacheFits'
  <2>1. \A c \in auto.cache : c[1] \in Package!Ids
    BY PackageInvParts DEF AutoStates
  <2> QED
    BY <1>2, <1>6, <2>1 DEF CacheFits
<1>8. OnceIn(packageRows)'
  BY <1>6 DEF OnceIn
<1> QED
  BY <1>2, <1>4, <1>5, <1>6, <1>7, <1>8 DEF PackageInv, Package!TypeOK, PackageStates, AutoStates,
     Package!OneScan

\* A step of any scan, update or of the guest itself; while no scan steps, the
\* window's update retires what it should.
LEMMA PackageStep ==
    ASSUME PackageInv, [Package!Next]_Package!vars
    PROVE  /\ PackageInv'
           /\ CacheFits /\ scan' = scan /\ (\A s \in Scanners : scan[s] = Package!NoScan) =>
                 CacheFits' /\ RetiresFits
<1>1. CASE UNCHANGED Package!vars
  BY <1>1 DEF Package!vars, PackageInv, Package!TypeOK, Package!OneScan, OnceIn, CacheFits, RetiresFits,
              Package!NoAuto, Package!Pending
<1>2. ASSUME UNCHANGED auto PROVE RetiresFits
  BY <1>2 DEF RetiresFits, Package!NoAuto
<1>3. ASSUME NEW p \in Pkgs, \/ Package!Publish(p) \/ Package!InstalledElsewhere(p)
                             \/ Package!AutoInstall(p) \/ Package!JobInstall(p)
      PROVE  PackageInv' /\ (CacheFits => CacheFits' /\ RetiresFits)
  BY <1>2, <1>3, OutdatedKeeps DEF CacheFits
<1>4. ASSUME NEW s \in Scanners,
             \/ Package!ScanBegin(s) \/ Package!ScanTake(s) \/ Package!ScanRead(s)
             \/ Package!ScanFails(s) \/ Package!ScanWrite(s)
      PROVE  PackageInv' /\ ~(scan' = scan /\ \A x \in Scanners : scan[x] = Package!NoScan)
  <2>1. PackageInv'
    BY <1>4, ScannersKeep
  <2>2. scan \in [Scanners -> [pc: {"idle", "waiting", "reading", "writing"},
                               status: Package!Statuses, seen: SUBSET Pkgs]]
    BY PackageInvParts
  <2>3. CASE Package!ScanBegin(s)
    <3>1. scan[s].pc = "idle" /\ scan'[s].pc = "waiting"
      BY <2>2, <2>3 DEF Package!ScanBegin
    <3> QED
      BY <2>1, <3>1
  <2> QED
    BY <1>4, <2>1, <2>3 DEF Package!ScanTake, Package!ScanRead, Package!ScanFails, Package!ScanWrite,
       Package!NoScan
<1>5. CASE Package!AutoStart \/ Package!AutoExit \/ Package!AutoRecheck \/ Package!AutoReconcile
  BY <1>5, AutoKeeps
<1>6. CASE Package!JobStart \/ Package!JobExit \/ Package!JobRecord
  BY <1>2, <1>6, UserKeeps
<1> QED
  BY <1>1, <1>3, <1>4, <1>5, <1>6 DEF Package!Next

LEMMA OnceImplied == PackageInv => Package!TypeOK /\ Package!OneScan /\ Package!OneRowPerPackage
  BY DEF PackageInv, OnceIn, Package!OneRowPerPackage, Package!Pending

LEMMA PackageInit == Package!Init => PackageInv
<1> SUFFICES ASSUME Package!Init PROVE PackageInv
  OBVIOUS
<1> DEFINE none == [i \in Package!Ids |-> Package!Free]
<1>1. none \in [Package!Ids -> PackageStates] /\ OnceIn(none)
  BY PackageStatesFit DEF OnceIn
<1>2. /\ outdated \subseteq Pkgs /\ lock = "none" /\ scan = [s \in Scanners |-> Package!NoScan]
      /\ auto = Package!NoAuto /\ job = Package!NoJob /\ status \in Package!Statuses
  BY DEF Package!Init, Package!Statuses
<1>3. packageRows \in [Package!Ids -> PackageStates] /\ OnceIn(packageRows)
  <2>1. CASE packageRows = none
    BY <1>1, <2>1
  <2>2. ASSUME NEW known \in SUBSET outdated, packageRows \in Package!Placed(none, known)
        PROVE  packageRows \in [Package!Ids -> PackageStates] /\ OnceIn(packageRows)
    <3>1. known \in SUBSET Pkgs
      BY <1>2
    <3> HIDE DEF none
    <3> QED
      BY <1>1, <2>2, <3>1, PlacedOnce
  <2> QED
    BY <2>1, <2>2 DEF Package!Init
<1> HIDE DEF none
<1> QED
  BY <1>2, <1>3 DEF PackageInv, Package!TypeOK, PackageStates, AutoStates, Package!OneScan,
     Package!NoScan, Package!NoAuto, Package!NoJob, Package!Statuses

\* The table at rest, of a mode that is about another store.
LEMMA PackageRest ==
    ASSUME outdated = {}, packageRows = [i \in 1..MaxId |-> Package!Free], status = "unknown",
           lock = "none", scan = [s \in Scanners |-> Package!NoScan],
           auto = Package!NoAuto, job = Package!NoJob
    PROVE  PackageInv
<1>1. packageRows \in [Package!Ids -> PackageStates] /\ OnceIn(packageRows)
  BY PackageStatesFit DEF OnceIn, Package!Ids
<1> QED
  BY <1>1 DEF PackageInv, Package!TypeOK, PackageStates, AutoStates, Package!OneScan,
     Package!NoScan, Package!NoAuto, Package!NoJob, Package!Statuses

\* However scans, maintenance windows and updates by users overlap, a guest is
\* scanned by one thread at a time and no package is pending twice.
THEOREM PackageRowsHold == Package!Spec => [](Package!TypeOK /\ Package!OneScan /\ Package!OneRowPerPackage)
<1>1. PackageInv /\ [Package!Next]_Package!vars => PackageInv'
  BY PackageStep
<1> QED
  BY <1>1, PackageInit, OnceImplied, PTL DEF Package!Spec

\* In every mode the rows are sound; and a maintenance window that runs beside
\* updates by users, and no scan, leaves pending what is still upgradable
\* (core/scanner.py, _reconcile_applied_updates).
THEOREM PackagesSoundHolds == MCSpec => PackagesSound
<1> DEFINE Quiet == store = "windows" => CacheFits /\ \A s \in Scanners : scan[s] = Package!NoScan
           Retires == store = "windows" => RetiresFits
<1>1. MCInit => PackageInv /\ Quiet
  <2> SUFFICES ASSUME MCInit PROVE PackageInv /\ Quiet
    OBVIOUS
  <2>1. PackageInv
    BY PackageInit, PackageRest DEF MCInit
  <2>2. auto = Package!NoAuto /\ scan = [s \in Scanners |-> Package!NoScan]
    BY DEF MCInit, Package!Init
  <2> QED
    BY <2>1, <2>2 DEF CacheFits, Package!NoAuto
<1>2. ASSUME PackageInv, Quiet, [MCNext]_MCVars
      PROVE  PackageInv' /\ Quiet' /\ [Retires]_MCVars
  <2>1. CASE UNCHANGED <<store, packages>>
    <3>1. UNCHANGED Package!vars
      BY <2>1 DEF packages, Package!vars
    <3>2. PackageInv' /\ UNCHANGED <<store, scan, auto, packageRows>>
      BY <1>2, <2>1, <3>1, PackageStep DEF packages
    <3> QED
      BY <1>2, <3>2 DEF CacheFits, RetiresFits, Package!NoAuto
  <2>2. CASE PackageNext /\ UNCHANGED store
    <3>1. PackageInv'
      BY <1>2, <2>2, PackageStep DEF PackageNext
    <3>2. ASSUME store = "windows"
          PROVE  CacheFits' /\ RetiresFits /\ \A s \in Scanners : scan'[s] = Package!NoScan
      <4>1. /\ scan \in [Scanners -> [pc: {"idle", "waiting", "reading", "writing"},
                                      status: Package!Statuses, seen: SUBSET Pkgs]]
            /\ DOMAIN scan' = Scanners
        BY <1>2, <3>1, PackageInvParts DEF PackageInv, Package!TypeOK
      <4>2. \A s \in Scanners : scan'[s] = Package!NoScan /\ scan[s] = Package!NoScan
        BY <1>2, <2>2, <3>2 DEF PackageNext
      <4>3. scan' = scan
        BY <3>1, <4>1, <4>2 DEF PackageInv, Package!TypeOK
      <4> QED
        BY <1>2, <2>2, <3>2, <4>2, <4>3, PackageStep DEF PackageNext
    <3> QED
      BY <2>2, <3>1, <3>2
  <2>3. CASE UNCHANGED MCVars
    BY <2>1, <2>3 DEF MCVars
  <2> QED
    BY <1>2, <2>1, <2>2, <2>3 DEF MCNext
<1>3. [](PackageInv /\ Quiet) /\ [][Retires]_MCVars => PackagesSound
  <2>1. Retires => (store = "windows" /\ auto.pc = "reconcile" /\ auto' = Package!NoAuto =>
             \A i \in Package!Pending :
                 packageRows'[i].state = "applied" => packageRows[i].pkg \notin auto.seen)
    BY DEF RetiresFits
  <2> HIDE DEF Retires, Quiet
  <2> QED
    BY <2>1, OnceImplied, PTL DEF PackagesSound
<1> HIDE DEF Retires, Quiet
<1>4. PackageInv /\ Quiet /\ [MCNext]_MCVars => PackageInv' /\ Quiet' /\ [Retires]_MCVars
  BY <1>2
<1> QED
  BY <1>1, <1>3, <1>4, PTL DEF MCSpec
=============================================================================
