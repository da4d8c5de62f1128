---------------------------- MODULE AccountProofs ----------------------------
(***************************************************************************)
(* What an account hands out dies with its password, for any number of     *)
(* tokens, life times, browsers, sessions and changes within a second:     *)
(* the bearer tokens of the mobile API, and the sessions and remember      *)
(* cookies of browsers.  Both see the same account.                        *)
(***************************************************************************)
EXTENDS MCAccount, TLAPS

----------------------------------------------------------------------------
(* The tokens of the mobile API. *)

\* The stamp set_password writes is later than every earlier one.
LEMMA StampAdvances ==
    ASSUME AccountTypeOK
    PROVE  Stamp(clock, epoch) \in Nat /\ Stamp(clock, epoch) > epoch
  BY DEF Stamp, AccountTypeOK

\* An issued pair is a pair.
LEMMA PairTyped ==
    ASSUME TypeOK, NEW t \in Issued
    PROVE  /\ pairs[t].pwd \in Nat /\ pairs[t].iat \in Nat
           /\ pairs[t].iat + RefreshLife \in Nat
  <1>1. pairs \in Seq(Pair) /\ t \in DOMAIN pairs
    BY DEF TypeOK, Issued
  <1>2. t \in 1..Len(pairs)
    BY <1>1
  <1>3. pairs[t] \in Pair
    BY <1>1, <1>2
  <1> QED BY <1>3, LivesAssumption DEF Pair

\* Minting a pair from a proof of the current password keeps the invariant.
LEMMA MintKeeps ==
    ASSUME IInv, Mint(pw), UNCHANGED account,
           revoked' \subseteq Issued, spent' \subseteq Issued,
           \A t \in spent' : t \in revoked' \/ ~Unexpired(t, RefreshLife)
    PROVE  IInv'
  <1>1. /\ pairs \in Seq(Pair) /\ pw \in Nat /\ epoch \in Nat /\ clock \in Nat
        /\ pairs' = Append(pairs, [pwd |-> epoch, iat |-> clock, proof |-> pw])
        /\ UNCHANGED <<pw, epoch, clock, active, forced>>
    BY DEF IInv, TypeOK, AccountTypeOK, Mint, account
  <1>2. pairs' \in Seq(Pair)
    BY <1>1 DEF Pair
  <1>3. /\ \A t \in Issued : t \in Issued' /\ pairs'[t] = pairs[t]
        /\ \A t \in Issued' : \/ t \in Issued
                              \/ pairs'[t] = [pwd |-> epoch, iat |-> clock, proof |-> pw]
    BY <1>1 DEF Issued
  <1>4. TypeOK'
    BY <1>1, <1>2, <1>3, Zenon DEF IInv, TypeOK, AccountTypeOK
  <1>5. TokensPast' /\ EpochsMatch'
    <2>1. ASSUME NEW t \in Issued'
          PROVE  pairs'[t].pwd <= epoch /\ (pairs'[t].pwd = epoch => pairs'[t].proof = pw)
      <3>1. CASE t \in Issued
        <4>1. pairs'[t] = pairs[t]
          BY <1>3, <3>1, Zenon
        <4> QED BY <3>1, <4>1 DEF IInv, TokensPast, EpochsMatch
      <3>2. CASE t \notin Issued
        <4>1. pairs'[t] = [pwd |-> epoch, iat |-> clock, proof |-> pw]
          BY <1>3, <2>1, <3>2, Zenon
        <4>2. epoch \in Nat
          BY <1>1
        <4>3. pairs'[t].pwd = epoch
          BY <4>1
        <4>4. pairs'[t].proof = pw
          BY <4>1
        <4> QED BY <4>2, <4>3, <4>4
      <3> QED BY <3>1, <3>2
    <2> QED BY <1>1, <2>1 DEF TokensPast, EpochsMatch
  <1>6. SpentOnRecord'
    BY <1>1, <1>3 DEF SpentOnRecord, Unexpired
  <1> QED BY <1>4, <1>5, <1>6 DEF IInv

\* A token that refresh would exchange is of the current epoch.
LEMMA ExchangeableCurrent ==
    ASSUME IInv, NEW t \in Issued, ~PredatesPasswordChange(t)
    PROVE  pairs[t].proof = pw
  <1>1. pairs[t].pwd \in Nat /\ epoch \in Nat
    BY PairTyped DEF IInv, TypeOK, AccountTypeOK
  <1>2. pairs[t].pwd = epoch
    BY <1>1 DEF IInv, TokensPast, PredatesPasswordChange
  <1> QED BY <1>2 DEF IInv, EpochsMatch

\* Every action keeps the inductive invariant.
LEMMA TokensStep ==
    ASSUME IInv, [Next]_vars
    PROVE  IInv'
  <1>1. CASE Login
    BY <1>1, MintKeeps DEF Login, IInv, TypeOK, SpentOnRecord
  <1>2. ASSUME NEW t \in Issued, Refresh(t) PROVE IInv'
    <2>1. pairs[t].proof = pw
      BY <1>2, ExchangeableCurrent DEF Refresh, Exchangeable
    <2> QED
      BY <1>2, <2>1, MintKeeps DEF Refresh, IInv, TypeOK, SpentOnRecord
  <1>3. ASSUME NEW t \in Issued, Logout(t) PROVE IInv'
    <2>1. /\ revoked' = revoked \cup {t} /\ spent' = spent \cup {t}
          /\ UNCHANGED <<pw, epoch, clock, active, forced, pairs>>
      BY <1>3 DEF Logout, account
    <2> QED BY <2>1 DEF IInv, TypeOK, AccountTypeOK, Issued, TokensPast,
                        EpochsMatch, SpentOnRecord, Unexpired
  <1>4. CASE PruneRevokedTokens
    <2>1. UNCHANGED <<pw, epoch, clock, active, forced, pairs, spent>>
      BY <1>4 DEF PruneRevokedTokens, account
    <2>2. /\ revoked' \subseteq revoked
          /\ \A t \in revoked : t \in revoked' \/ ~(pairs[t].iat + RefreshLife > clock)
      BY <1>4 DEF PruneRevokedTokens
    <2>3. \A t \in revoked : pairs[t].iat + RefreshLife \in Nat /\ clock \in Nat
      BY PairTyped DEF IInv, TypeOK, AccountTypeOK
    <2>4. SpentOnRecord'
      BY <2>1, <2>2, <2>3 DEF IInv, SpentOnRecord, Unexpired
    <2> QED BY <2>1, <2>2, <2>4 DEF IInv, TypeOK, AccountTypeOK, Issued,
                                    TokensPast, EpochsMatch
  <1>5. CASE AccountStep
    <2>0. UNCHANGED <<pairs, revoked, spent>>
      BY <1>5 DEF AccountStep
    <2>1. CASE SetPassword
      <3>1. /\ pw' = pw + 1 /\ epoch' = Stamp(clock, epoch)
            /\ UNCHANGED <<clock, active>>
        BY <2>1 DEF SetPassword
      <3>0. forced' \in BOOLEAN
        BY <2>1, Zenon DEF SetPassword
      <3>2. epoch' \in Nat /\ epoch' > epoch
        BY <3>1, StampAdvances DEF IInv, TypeOK
      <3>3. TypeOK'
        BY <2>0, <3>0, <3>1, <3>2 DEF IInv, TypeOK, AccountTypeOK, Issued
      <3>4. \A t \in Issued : pairs[t].pwd \in Nat /\ pairs[t].pwd < epoch'
        BY <3>2, PairTyped DEF IInv, TypeOK, AccountTypeOK, TokensPast
      <3>5. TokensPast' /\ EpochsMatch'
        BY <2>0, <3>2, <3>4 DEF TokensPast, EpochsMatch, Issued
      <3>6. SpentOnRecord'
        BY <2>0, <3>1 DEF IInv, SpentOnRecord, Unexpired
      <3> QED BY <3>3, <3>5, <3>6 DEF IInv
    <2>2. CASE SetActive
      <3>1. active' \in BOOLEAN
        BY <2>2, Zenon DEF SetActive
      <3>2. UNCHANGED <<pw, epoch, clock, forced>>
        BY <2>2 DEF SetActive
      <3> QED BY <2>0, <3>1, <3>2 DEF IInv, TypeOK, AccountTypeOK, Issued,
                 TokensPast, EpochsMatch, SpentOnRecord, Unexpired
    <2>3. CASE Tick
      <3>1. clock' = clock + 1 /\ UNCHANGED <<pw, epoch, active, forced>>
        BY <2>3 DEF Tick
      <3>2. TypeOK' /\ TokensPast' /\ EpochsMatch'
        BY <2>0, <3>1 DEF IInv, TypeOK, AccountTypeOK, Issued, TokensPast, EpochsMatch
      <3>3. \A t \in spent : pairs[t].iat + RefreshLife \in Nat /\ clock \in Nat
        BY PairTyped DEF IInv, TypeOK, AccountTypeOK
      <3>4. SpentOnRecord'
        BY <2>0, <3>1, <3>3 DEF IInv, SpentOnRecord, Unexpired
      <3> QED BY <3>2, <3>4 DEF IInv
    <2> QED BY <1>5, <2>1, <2>2, <2>3 DEF AccountStep
  <1>6. CASE UNCHANGED vars
    BY <1>6 DEF vars, account, IInv, TypeOK, AccountTypeOK, Issued, TokensPast,
                EpochsMatch, SpentOnRecord, Unexpired
  <1> QED BY <1>1, <1>2, <1>3, <1>4, <1>5, <1>6 DEF Next

\* The inductive invariant: types, no token from a future epoch, tokens of the
\* current epoch go back to the current password, spent tokens are on record
\* until they expire.
THEOREM TokensInvHolds == Spec => []IInv
  <1>1. Init => IInv
    <2> SUFFICES ASSUME Init PROVE IInv
      OBVIOUS
    <2>1. active \in BOOLEAN /\ forced \in BOOLEAN
      BY Zenon DEF Init, AccountInit
    <2>2. pw \in Nat /\ epoch \in Nat /\ clock \in Nat
      BY DEF Init, AccountInit
    <2> QED BY <2>1, <2>2 DEF Init, IInv, TypeOK, AccountTypeOK, Issued, TokensPast,
               EpochsMatch, SpentOnRecord
  <1>2. IInv /\ [Next]_vars => IInv'
    BY TokensStep
  <1> QED BY <1>1, <1>2, PTL DEF Spec

\* jwt_required and refresh accept only tokens that go back to the current
\* password.
THEOREM TokensDieWithPasswordHolds == Spec => []TokensDieWithPassword
  <1>1. IInv => TokensDieWithPassword
    BY ExchangeableCurrent DEF TokensDieWithPassword, Accepted, Exchangeable
  <1> QED BY <1>1, TokensInvHolds, PTL

\* A refresh token is exchanged at most once, and never after a logout,
\* whatever _prune_revoked_tokens has deleted.
THEOREM SpentStaysSpentHolds == Spec => []SpentStaysSpent
  <1>1. IInv => SpentStaysSpent
    BY DEF IInv, SpentOnRecord, SpentStaysSpent, Exchangeable
  <1> QED BY <1>1, TokensInvHolds, PTL

----------------------------------------------------------------------------
(* The sessions of browsers. *)

\* A new stamp is later than every earlier one: User.set_password forces the
\* epoch to advance, even for two changes within the same second.
LEMMA SessionStampAdvances ==
    ASSUME Web!AccountTypeOK
    PROVE  Web!Stamp(clock, epoch) \in Nat /\ Web!Stamp(clock, epoch) > epoch
  BY DEF Web!Stamp, Web!AccountTypeOK

\* What start_session leaves behind: the fresh id is held by b alone.
LEMMA StartSessionFresh ==
    ASSUME Web!TypeOK, Web!SessionsDistinct, NEW b \in Browsers, Web!StartSession(b)
    PROVE  /\ started' \in Nat /\ live' \subseteq 1..started'
           /\ sid' \in [Browsers -> 0..started']
           /\ Web!SessionsDistinct'
           /\ \A a \in Browsers : a # b /\ sid'[a] \in live' => sid[a] \in live
           /\ \A a \in Browsers : a # b => sid'[a] = sid[a]
  <1>1. /\ started \in Nat /\ started' = started + 1
        /\ live' = live \cup {started + 1} /\ live \subseteq 1..started
        /\ sid' = [sid EXCEPT ![b] = started + 1]
        /\ sid \in [Browsers -> 0..started]
    BY DEF Web!StartSession, Web!TypeOK
  <1>2. started' \in Nat /\ live' \subseteq 1..started'
    BY <1>1
  <1>3. sid' \in [Browsers -> 0..started']
    BY <1>1
  <1>4. Web!SessionsDistinct'
    BY <1>1 DEF Web!SessionsDistinct
  <1>5. \A a \in Browsers : a # b /\ sid'[a] \in live' => sid[a] \in live
    BY <1>1
  <1>6. \A a \in Browsers : a # b => sid'[a] = sid[a]
    BY <1>1
  <1> QED BY <1>2, <1>3, <1>4, <1>5, <1>6

\* A step that starts no session, changes no password and only takes things
\* away keeps the invariant.
LEMMA Forgetting ==
    ASSUME Web!IInv, Web!TypeOK',
           pw' = pw, epoch' = epoch, proof' = proof,
           live' \subseteq live, remember' \subseteq remember,
           \A b \in Browsers : \/ sid'[b] = 0
                               \/ sid'[b] = sid[b] /\ (b \in auto' <=> b \in auto),
           \A b \in Browsers : marker'[b] = marker[b] \/ marker'[b] = -1
    PROVE  Web!IInv'
  <1>1. Web!SessionsDistinct'
    BY DEF Web!IInv, Web!SessionsDistinct
  <1>2. Web!MarkersPast'
    BY DEF Web!IInv, Web!MarkersPast, Web!TypeOK, Web!AccountTypeOK
  <1>3. Web!Vouched'
    BY DEF Web!IInv, Web!Vouched, Web!TypeOK, Web!AccountTypeOK
  <1> QED BY <1>1, <1>2, <1>3 DEF Web!IInv

\* The inductive step for a password change: everything issued before it is
\* from an earlier epoch.
LEMMA SetPasswordPast ==
    ASSUME Web!IInv, Web!SetPassword
    PROVE  /\ Web!AccountTypeOK' /\ epoch' > epoch
           /\ \A b \in Browsers : marker[b] <= epoch' /\ marker[b] # epoch'
  <1>1. epoch' \in Nat /\ epoch' > epoch
    BY SessionStampAdvances DEF Web!SetPassword, Web!IInv, Web!TypeOK
  <1>0. forced' \in BOOLEAN
    BY Zenon DEF Web!SetPassword
  <1>2. Web!AccountTypeOK'
    BY <1>0, <1>1 DEF Web!SetPassword, Web!IInv, Web!TypeOK, Web!AccountTypeOK
  <1>3. \A b \in Browsers : marker[b] <= epoch' /\ marker[b] # epoch'
    BY <1>1 DEF Web!IInv, Web!TypeOK, Web!AccountTypeOK, Web!MarkersPast
  <1> QED BY <1>1, <1>2, <1>3

\* Every action keeps the inductive invariant.
LEMMA SessionsStep ==
    ASSUME Web!IInv, [Web!Next]_Web!vars
    PROVE  Web!IInv'
  <1> USE DEF Web!IInv
  <1>1. ASSUME NEW b \in Browsers, Web!DropBypass(b) PROVE Web!IInv'
    <2>0. /\ live' = live \ {sid[b]} /\ sid' = [sid EXCEPT ![b] = 0]
          /\ auto' = auto \ {b}
          /\ UNCHANGED <<pw, epoch, clock, active, forced, bypass, started, remember, marker,
                         proof, out>>
      BY <1>1 DEF Web!DropBypass, Web!account, Web!history
    <2>1. live' \subseteq live /\ live \subseteq 1..started /\ started' = started
      BY <2>0 DEF Web!TypeOK
    <2>2. live' \subseteq 1..started'
      BY <2>1, Zenon
    <2>3. Web!TypeOK'
      BY <2>0, <2>2 DEF Web!TypeOK, Web!AccountTypeOK
    <2> QED
      BY <1>1, <2>3, Forgetting DEF Web!DropBypass, Web!TypeOK, Web!account, Web!history
  <1>2. ASSUME NEW b \in Browsers, Web!RefuseRevoked(b) PROVE Web!IInv'
    <2>1. Web!TypeOK'
      BY <1>2 DEF Web!RefuseRevoked, Web!TypeOK, Web!AccountTypeOK, Web!account, Web!history
    <2> QED
      BY <1>2, <2>1, Forgetting DEF Web!RefuseRevoked, Web!TypeOK, Web!account, Web!history
  <1>3. ASSUME NEW b \in Browsers, Web!RefuseRemembered(b) PROVE Web!IInv'
    <2>1. Web!TypeOK'
      BY <1>3 DEF Web!RefuseRemembered, Web!TypeOK, Web!AccountTypeOK, Web!account, Web!history
    <2> QED
      BY <1>3, <2>1, Forgetting DEF Web!RefuseRemembered, Web!TypeOK, Web!account, Web!history
  <1>4. ASSUME NEW b \in Browsers, Web!BrowserRestart(b) PROVE Web!IInv'
    <2>1. Web!TypeOK'
      BY <1>4 DEF Web!BrowserRestart, Web!TypeOK, Web!AccountTypeOK, Web!account, Web!history
    <2> QED
      BY <1>4, <2>1, Forgetting DEF Web!BrowserRestart, Web!TypeOK, Web!account, Web!history
  <1>5. ASSUME NEW b \in Browsers, Web!Logout(b) PROVE Web!IInv'
    <2>0. /\ live' = live \ {sid[b]} /\ sid' = [sid EXCEPT ![b] = 0]
          /\ remember' = remember \ {b} /\ out' = out \cup {b}
          /\ UNCHANGED <<pw, epoch, clock, active, forced, bypass, started, auto, marker, proof>>
      BY <1>5 DEF Web!Logout, Web!account
    <2>1. live' \subseteq live /\ live \subseteq 1..started /\ started' = started
      BY <2>0 DEF Web!TypeOK
    <2>2. live' \subseteq 1..started'
      BY <2>1, Zenon
    <2>3. Web!TypeOK'
      BY <2>0, <2>2 DEF Web!TypeOK, Web!AccountTypeOK
    <2> QED
      BY <1>5, <2>3, Forgetting DEF Web!Logout, Web!TypeOK, Web!account
  <1>6. ASSUME NEW b \in Browsers, Web!RevokeOthers(b) PROVE Web!IInv'
    <2>1. Web!TypeOK'
      BY <1>6 DEF Web!RevokeOthers, Web!TypeOK, Web!AccountTypeOK, Web!account, Web!cookies, Web!history
    <2> QED
      BY <1>6, <2>1, Forgetting DEF Web!RevokeOthers, Web!TypeOK, Web!account, Web!cookies, Web!history
  <1>7. ASSUME NEW s \in live, Web!RevokeSession(s) PROVE Web!IInv'
    <2>1. Web!TypeOK'
      BY <1>7 DEF Web!RevokeSession, Web!TypeOK, Web!AccountTypeOK, Web!account, Web!cookies, Web!history
    <2> QED
      BY <1>7, <2>1, Forgetting DEF Web!RevokeSession, Web!TypeOK, Web!account, Web!cookies, Web!history
  <1>8. CASE Web!SetBypass
    <2>1. Web!TypeOK'
      BY <1>8 DEF Web!SetBypass, Web!TypeOK, Web!AccountTypeOK, Web!account, Web!cookies, Web!history
    <2> QED
      BY <1>8, <2>1, Forgetting DEF Web!SetBypass, Web!TypeOK, Web!account, Web!cookies, Web!history
  <1>9. CASE Web!AccountStep
    <2>0. active' \in BOOLEAN
      BY <1>9, Zenon DEF Web!AccountStep, Web!SetActive, Web!Tick, Web!TypeOK, Web!AccountTypeOK
    <2>1. Web!TypeOK'
      BY <1>9, <2>0 DEF Web!AccountStep, Web!SetActive, Web!Tick, Web!TypeOK, Web!AccountTypeOK, Web!cookies, Web!history
    <2> QED
      BY <1>9, <2>1, Forgetting DEF Web!AccountStep, Web!SetActive, Web!Tick, Web!TypeOK, Web!cookies, Web!history
  <1>10. ASSUME NEW b \in Browsers, Web!RestoreRemembered(b) PROVE Web!IInv'
    <2>1. Web!StartSession(b) /\ UNCHANGED <<pw, epoch, clock, active, forced, bypass, auto, remember, marker, proof, out>>
      BY <1>10 DEF Web!RestoreRemembered, Web!account, Web!history
    <2>2. Web!TypeOK' /\ Web!SessionsDistinct'
      BY <2>1, StartSessionFresh DEF Web!TypeOK, Web!AccountTypeOK
    <2>3. Web!MarkersPast'
      BY <2>1 DEF Web!MarkersPast
    <2>4. proof[b] = pw
      BY <1>10 DEF Web!RestoreRemembered, Web!Restorable, Web!MarkerGood, Web!Vouched
    <2>5. Web!Vouched'
      BY <2>1, <2>4, StartSessionFresh DEF Web!Vouched
    <2> QED BY <2>2, <2>3, <2>5
  <1>11. ASSUME NEW b \in Browsers, Web!BypassLogin(b) PROVE Web!IInv'
    <2>1. /\ Web!StartSession(b) /\ auto' = auto \cup {b} /\ b \notin remember
          /\ UNCHANGED <<pw, epoch, clock, active, forced, bypass, remember, marker, proof, out>>
      BY <1>11 DEF Web!BypassLogin, Web!account, Web!history
    <2>2. Web!TypeOK' /\ Web!SessionsDistinct'
      BY <2>1, StartSessionFresh DEF Web!TypeOK, Web!AccountTypeOK
    <2>3. Web!MarkersPast'
      BY <2>1 DEF Web!MarkersPast
    <2>5. Web!Vouched'
      BY <2>1, StartSessionFresh DEF Web!Vouched
    <2> QED BY <2>2, <2>3, <2>5
  <1>12. ASSUME NEW b \in Browsers, Web!Login(b) PROVE Web!IInv'
    <2>1. /\ Web!StartSession(b) /\ auto' = auto \ {b}
          /\ remember' \subseteq Browsers
          /\ marker' \in [Browsers -> Nat \cup {-1}]
          /\ marker'[b] = marker[b] \/ marker'[b] = epoch
          /\ \A a \in Browsers : a # b => /\ marker'[a] = marker[a]
                                          /\ a \in remember' => a \in remember
          /\ proof' = [proof EXCEPT ![b] = pw] /\ out' = out \ {b}
          /\ UNCHANGED <<pw, epoch, clock, active, forced, bypass>>
      BY <1>12 DEF Web!Login, Web!account, Web!TypeOK, Web!AccountTypeOK
    <2>2. Web!TypeOK' /\ Web!SessionsDistinct'
      BY <2>1, StartSessionFresh DEF Web!TypeOK, Web!AccountTypeOK
    <2>3. Web!MarkersPast'
      BY <2>1 DEF Web!MarkersPast, Web!TypeOK, Web!AccountTypeOK
    <2>4. proof'[b] = pw /\ \A a \in Browsers : a # b => proof'[a] = proof[a]
      BY <2>1 DEF Web!TypeOK
    <2>5. Web!Vouched'
      BY <2>1, <2>4, StartSessionFresh DEF Web!Vouched
    <2> QED BY <2>2, <2>3, <2>5
  <1>13. ASSUME NEW b \in Browsers, Web!ChangePassword(b) PROVE Web!IInv'
    <2>1. /\ Web!SetPassword /\ pw' = pw + 1 /\ live' = live \cap {sid[b]} /\ sid[b] # 0
          /\ proof' = [proof EXCEPT ![b] = pw']
          /\ UNCHANGED <<bypass, started, sid, auto, remember, out>>
      BY <1>13 DEF Web!ChangePassword, Web!SetPassword, Web!Served
    <2>2. /\ Web!AccountTypeOK'
          /\ \A a \in Browsers : marker[a] <= epoch' /\ marker[a] # epoch'
      BY <2>1, SetPasswordPast
    <2>3. /\ marker' \in [Browsers -> Nat \cup {-1}]
          /\ marker'[b] = -1 \/ marker'[b] = epoch'
          /\ \A a \in Browsers : a # b => marker'[a] = marker[a]
      BY <1>13, <2>2 DEF Web!ChangePassword, Web!TypeOK, Web!AccountTypeOK
    <2>4. /\ proof' \in [Browsers -> Nat] /\ proof'[b] = pw'
          /\ \A a \in Browsers : a # b => proof'[a] = proof[a]
      BY <2>1, <2>2 DEF Web!TypeOK, Web!AccountTypeOK
    <2>5. Web!TypeOK'
      BY <2>1, <2>2, <2>3, <2>4 DEF Web!TypeOK
    <2>6. Web!SessionsDistinct'
      BY <2>1 DEF Web!SessionsDistinct
    <2>7. Web!MarkersPast'
      BY <2>2, <2>3 DEF Web!MarkersPast, Web!AccountTypeOK
    <2>8. \A a \in Browsers : a # b => sid'[a] \notin live'
      BY <2>1 DEF Web!SessionsDistinct
    <2>9. Web!Vouched'
      BY <2>2, <2>3, <2>4, <2>8 DEF Web!Vouched
    <2> QED BY <2>5, <2>6, <2>7, <2>9
  <1>14. CASE Web!AdminReset
    <2>1. /\ Web!SetPassword /\ live' = {}
          /\ UNCHANGED <<bypass, started, sid, auto, remember, marker, proof, out>>
      BY <1>14 DEF Web!AdminReset, Web!cookies, Web!history
    <2>2. /\ Web!AccountTypeOK'
          /\ \A a \in Browsers : marker[a] <= epoch' /\ marker[a] # epoch'
      BY <2>1, SetPasswordPast
    <2>3. Web!TypeOK'
      BY <2>1, <2>2 DEF Web!TypeOK
    <2>4. Web!SessionsDistinct' /\ Web!MarkersPast' /\ Web!Vouched'
      BY <2>1, <2>2 DEF Web!SessionsDistinct, Web!MarkersPast, Web!Vouched
    <2> QED BY <2>3, <2>4
  <1>15. CASE UNCHANGED Web!vars
    BY <1>15 DEF Web!vars, Web!account, Web!cookies, Web!history, Web!TypeOK, Web!AccountTypeOK,
                 Web!SessionsDistinct, Web!MarkersPast, Web!Vouched
  <1> QED
    BY <1>1, <1>2, <1>3, <1>4, <1>5, <1>6, <1>7, <1>8, <1>9, <1>10, <1>11,
       <1>12, <1>13, <1>14, <1>15 DEF Web!Next

\* The inductive invariant itself: types, one browser per session, no marker
\* from the future, and a proof of the current password behind every way in.
THEOREM SessionsInvHolds == Web!Spec => []Web!IInv
  <1>1. Web!Init => Web!IInv
    <2> SUFFICES ASSUME Web!Init PROVE Web!IInv
      OBVIOUS
    <2>1. active \in BOOLEAN /\ forced \in BOOLEAN
      BY Zenon DEF Web!Init, Web!AccountInit
    <2>2. pw \in Nat /\ epoch \in Nat /\ clock \in Nat
      BY DEF Web!Init, Web!AccountInit
    <2> QED BY <2>1, <2>2 DEF Web!Init, Web!IInv, Web!TypeOK, Web!AccountTypeOK,
               Web!SessionsDistinct, Web!MarkersPast, Web!Vouched
  <1>2. Web!IInv /\ [Web!Next]_Web!vars => Web!IInv'
    BY SessionsStep
  <1> QED BY <1>1, <1>2, PTL DEF Web!Spec

\* Whoever is served without the bypass, or would be restored from a remember
\* cookie, has proved the current password: change_password and edit_user sign
\* the account out everywhere else.
THEOREM SignedOutByPasswordHolds == Web!Spec => []SignedOutByPassword
  <1>1. Web!IInv => SignedOutByPassword
    BY DEF SignedOutByPassword, Web!IInv, Web!Vouched, Web!SignedOutByPassword, Web!Served, Web!Restorable, Web!MarkerGood
  <1> QED BY <1>1, SessionsInvHolds, PTL

----------------------------------------------------------------------------
\* What a logout leaves: no remember cookie, and no live session but one the
\* bypass made.
LeftBehind ==
    \A b \in out : b \notin remember /\ (sid[b] \in live => b \in auto)

\* Every action keeps what logout left behind.
LEMMA LeftBehindStep ==
    ASSUME Web!IInv, LeftBehind, [Web!Next]_Web!vars
    PROVE  LeftBehind'
  <1>0. 0 \notin live /\ out \subseteq Browsers /\ DOMAIN sid = Browsers
        /\ live \subseteq 1..started /\ started \in Nat
    BY DEF Web!IInv, Web!TypeOK
  <1> USE DEF LeftBehind
  <1>1. ASSUME NEW b \in Browsers,
               Web!DropBypass(b) \/ Web!RefuseRevoked(b) \/ Web!RefuseRemembered(b) \/ Web!BrowserRestart(b)
        PROVE  LeftBehind'
    BY <1>0, <1>1 DEF Web!DropBypass, Web!RefuseRevoked, Web!RefuseRemembered, Web!BrowserRestart, Web!history
  <1>2. ASSUME NEW b \in Browsers, Web!StartSession(b), out' = out, remember' = remember,
               (b \in remember /\ auto' = auto) \/ auto' = auto \cup {b}
        PROVE  LeftBehind'
    <2>1. /\ live' = live \cup {started + 1} /\ started + 1 \notin live
          /\ sid' = [sid EXCEPT ![b] = started + 1]
      BY <1>0, <1>2 DEF Web!StartSession
    <2>2. \A a \in out : a # b => sid'[a] = sid[a] /\ sid[a] \in 0..started
      BY <2>1, <1>0 DEF Web!IInv, Web!TypeOK
    <2>3. \A a \in out : a # b /\ sid'[a] \in live' => sid[a] \in live
      BY <2>1, <2>2, <1>0
    <2> QED BY <1>2, <2>3
  <1>3. ASSUME NEW b \in Browsers, Web!RestoreRemembered(b) PROVE LeftBehind'
    BY <1>2, <1>3 DEF Web!RestoreRemembered, Web!Restorable, Web!history
  <1>4. ASSUME NEW b \in Browsers, Web!BypassLogin(b) PROVE LeftBehind'
    BY <1>2, <1>4 DEF Web!BypassLogin, Web!history
  <1>5. ASSUME NEW b \in Browsers, Web!Login(b) PROVE LeftBehind'
    <2>1. /\ live' = live \cup {started + 1} /\ sid' = [sid EXCEPT ![b] = started + 1]
          /\ auto' = auto \ {b} /\ out' = out \ {b}
          /\ remember' = remember \/ remember' = remember \cup {b}
      BY <1>5 DEF Web!Login, Web!StartSession
    <2>2. \A a \in out' : a # b /\ sid'[a] = sid[a] /\ sid[a] \in 0..started
      BY <2>1, <1>0 DEF Web!IInv, Web!TypeOK
    <2>3. \A a \in out' : sid'[a] \in live' => sid[a] \in live
      BY <2>1, <2>2, <1>0
    <2> QED BY <2>1, <2>2, <2>3
  <1>6. ASSUME NEW b \in Browsers, Web!Logout(b) PROVE LeftBehind'
    <2>1. /\ live' = live \ {sid[b]} /\ sid' = [sid EXCEPT ![b] = 0]
          /\ remember' = remember \ {b} /\ out' = out \cup {b} /\ auto' = auto
      BY <1>6 DEF Web!Logout
    <2> QED BY <2>1, <1>0
  <1>7. ASSUME NEW b \in Browsers, Web!ChangePassword(b) \/ Web!RevokeOthers(b)
        PROVE  LeftBehind'
    BY <1>7 DEF Web!ChangePassword, Web!RevokeOthers, Web!cookies, Web!history
  <1>8. ASSUME NEW s \in live, Web!RevokeSession(s) PROVE LeftBehind'
    BY <1>8 DEF Web!RevokeSession, Web!cookies, Web!history
  <1>9. CASE Web!AdminReset \/ Web!SetBypass \/ Web!AccountStep \/ UNCHANGED Web!vars
    BY <1>9 DEF Web!AdminReset, Web!SetBypass, Web!AccountStep, Web!vars, Web!cookies, Web!history
  <1> QED
    BY <1>1, <1>3, <1>4, <1>5, <1>6, <1>7, <1>8, <1>9 DEF Web!Next

\* A browser that logged out stays out until someone logs in on it or the
\* local bypass lets it in.
THEOREM LogoutLastsHolds == Web!Spec => []LogoutLasts
  <1>1. Web!Init => LeftBehind
    BY DEF Web!Init, LeftBehind
  <1>2. Web!IInv /\ LeftBehind /\ [Web!Next]_Web!vars => LeftBehind'
    BY LeftBehindStep
  <1>3. LeftBehind => LogoutLasts
    BY DEF LeftBehind, LogoutLasts, Web!LogoutLasts, Web!Served, Web!Restorable
  <1> QED BY <1>1, <1>2, <1>3, SessionsInvHolds, PTL DEF Web!Spec
==============================================================================
