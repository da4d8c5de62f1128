----------------------------- MODULE ApiTokens -----------------------------
(***************************************************************************)
(* The bearer tokens of the mobile API for one account.  An access token   *)
(* is checked against the account on every request; a refresh token is     *)
(* also checked against the table of revoked ids, which the scheduler      *)
(* prunes, and is exchanged for a new pair.  The handlers do no network    *)
(* I/O, so under gevent each one is a single step.                         *)
(***************************************************************************)
EXTENDS Account, Sequences

CONSTANTS
    AccessLife,   \* ACCESS_TOKEN_EXPIRES
    RefreshLife,  \* REFRESH_TOKEN_EXPIRES
    MaxTokens     \* bound on the number of token pairs ever issued

ASSUME LivesAssumption == AccessLife \in Nat /\ RefreshLife \in Nat
ASSUME TokensAssumption == MaxTokens \in Nat

VARIABLES
    pairs,    \* the token pairs issued so far, numbered by the refresh jti
    revoked,  \* the rows of revoked_tokens, by jti; expires_at is the token's
    spent     \* the refresh tokens exchanged or logged out (history)

vars == <<account, pairs, revoked, spent>>

\* a pair: the epoch both tokens carry, the time of issue, and the password
\* whose proof it goes back to (history)
Pair == [pwd : Nat, iat : Nat, proof : Nat]

Init == AccountInit /\ pairs = <<>> /\ revoked = {} /\ spent = {}

Issued == DOMAIN pairs

----------------------------------------------------------------------------
(* Validation. *)

\* decode_token raises ExpiredSignatureError once exp is reached
Unexpired(t, life) == clock < pairs[t].iat + life

\* token_predates_password_change: never, while the account has no stamp
PredatesPasswordChange(t) == epoch # 0 /\ pairs[t].pwd # epoch

\* jwt_required
Accepted(t) == Unexpired(t, AccessLife) /\ active /\ ~PredatesPasswordChange(t)

\* the checks of refresh
Exchangeable(t) ==
    /\ Unexpired(t, RefreshLife)
    /\ t \notin revoked
    /\ active
    /\ ~PredatesPasswordChange(t)

----------------------------------------------------------------------------
(* The handlers. *)

\* create_access_token and create_refresh_token
Mint(proof) ==
    /\ Len(pairs) < MaxTokens
    /\ pairs' = Append(pairs, [pwd |-> epoch, iat |-> clock, proof |-> proof])

\* login with the current password; not while it must be changed first
Login ==
    /\ active /\ ~forced
    /\ Mint(pw)
    /\ UNCHANGED <<account, revoked, spent>>

\* refresh: the presented token is burnt, then a fresh pair minted
Refresh(t) ==
    /\ Exchangeable(t)
    /\ revoked' = revoked \cup {t}
    /\ Mint(pairs[t].proof)
    /\ spent' = spent \cup {t}
    /\ UNCHANGED account

\* logout: a token that has not expired is revoked
Logout(t) ==
    /\ Unexpired(t, RefreshLife)
    /\ revoked' = revoked \cup {t}
    /\ spent' = spent \cup {t}
    /\ UNCHANGED <<account, pairs>>

\* variant: rows go once the access token issued beside them has expired
PruneEarly ==
    /\ revoked' = {t \in revoked : Unexpired(t, AccessLife)}
    /\ UNCHANGED <<account, pairs, spent>>

\* the scheduler deletes the rows whose expires_at is past; within the second
\* in which a token expires its row is past or not
PruneRevokedTokens ==
    /\ \E kept \in SUBSET {t \in revoked : pairs[t].iat + RefreshLife = clock} :
          revoked' = kept \cup {t \in revoked : pairs[t].iat + RefreshLife > clock}
    /\ UNCHANGED <<account, pairs, spent>>

\* change_password, an administrator's reset, disabling, and time
AccountStep ==
    /\ SetPassword \/ SetActive \/ Tick
    /\ UNCHANGED <<pairs, revoked, spent>>

Next ==
    \/ Login \/ PruneRevokedTokens \/ AccountStep
    \/ \E t \in Issued : Refresh(t) \/ Logout(t)

Spec == Init /\ [][Next]_vars

----------------------------------------------------------------------------
(* Properties. *)

\* Type correctness.
TypeOK ==
    /\ AccountTypeOK
    /\ pairs \in Seq(Pair)
    /\ revoked \subseteq Issued /\ spent \subseteq Issued

\* A password change ends every token that goes back to an older password,
\* however often it was refreshed since, and whatever the clock does.
TokensDieWithPassword ==
    \A t \in Issued : Accepted(t) \/ Exchangeable(t) => pairs[t].proof = pw

\* A refresh token that was exchanged or logged out is never exchanged again,
\* although its row in revoked_tokens is deleted some day.
SpentStaysSpent == \A t \in spent : ~Exchangeable(t)

(***************************************************************************)
(* The strengthening that makes them inductive.                            *)
(***************************************************************************)
\* No token is from a future epoch.
TokensPast == \A t \in Issued : pairs[t].pwd <= epoch

\* A token of the current epoch goes back to the current password.
EpochsMatch == \A t \in Issued : pairs[t].pwd = epoch => pairs[t].proof = pw

\* A spent token is on record or has expired.
SpentOnRecord == \A t \in spent : t \in revoked \/ ~Unexpired(t, RefreshLife)

\* The inductive invariant.
IInv == TypeOK /\ TokensPast /\ EpochsMatch /\ SpentOnRecord
=============================================================================
