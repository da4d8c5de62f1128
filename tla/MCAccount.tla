----------------------------- MODULE MCAccount -----------------------------
(***************************************************************************)
(* One account with the tokens of the mobile API or with its browsers,     *)
(* side by side: in a behaviour one of the two moves, each with bounds of  *)
(* its own on passwords and time.                                          *)
(***************************************************************************)
EXTENDS ApiTokens

CONSTANTS Browsers, Local, MaxSessions, WebPasswords, WebTime

ASSUME BrowsersAssumption ==
    Local \subseteq Browsers /\ MaxSessions \in Nat /\ WebPasswords \in Nat /\ WebTime \in Nat

VARIABLES
    mode,
    bypass, started, live, sid, auto, remember, marker, proof, out

browsing == <<bypass, started, live, sid, auto, remember, marker, proof, out>>

Web == INSTANCE WebSessions WITH MaxPasswords <- WebPasswords, MaxTime <- WebTime

MCInit == Init /\ Web!Init /\ mode \in {"tokens", "browsers"}

MCNext ==
    \/ mode = "tokens" /\ Next /\ UNCHANGED <<mode, browsing>>
    \/ mode = "browsers" /\ Web!Next /\ UNCHANGED <<mode, pairs, revoked, spent>>

MCVars == <<vars, mode, browsing>>
MCSpec == MCInit /\ [][MCNext]_MCVars

----------------------------------------------------------------------------
(* Properties of the browsers (those of the tokens are in ApiTokens). *)

\* A changed or reset password (change_password, edit_user) signs the account
\* out everywhere: whoever is served, or could be from the remember cookie, has
\* proved the current password, or is let in by the local bypass.
SignedOutByPassword == Web!SignedOutByPassword

\* A browser that logged out (logout) is not served again before someone logs
\* in on it, unless the local bypass lets it in.
LogoutLasts == Web!LogoutLasts
=============================================================================
