---------------------------- MODULE WebSessions ----------------------------
(***************************************************************************)
(* The browser sessions of one account: the signed cookie with its tracked *)
(* session id, the server-side UserSession records, the "remember me"      *)
(* cookie with the marker that ties it to a credential epoch, and the      *)
(* automatic login from the local network.  The handlers do no network     *)
(* I/O, so under gevent each one is a single step.                         *)
(***************************************************************************)
EXTENDS Account

CONSTANTS
    Browsers,
    Local,         \* the browsers inside trusted_subnets
    MaxSessions    \* bound on the number of sessions ever started

VARIABLES
    bypass,   \* the setting local_bypass_enabled
    started,  \* number of UserSession rows
    live,     \* the rows that are not revoked
    sid,      \* the session id in each browser's cookie, 0 for no session
    auto,     \* the browsers whose cookie says the local bypass made it
    remember, \* the browsers with a remember cookie
    marker,   \* the epoch in each browser's remember marker, -1 for no marker
    proof,    \* the newest password each browser has proved to know (history)
    out       \* the browsers logged out and not logged in since (history)

cookies == <<sid, auto, remember, marker>>
history == <<proof, out>>
vars == <<account, bypass, started, live, cookies, history>>

Init ==
    /\ AccountInit /\ bypass \in BOOLEAN
    /\ started = 0 /\ live = {}
    /\ sid = [b \in Browsers |-> 0] /\ auto = {} /\ remember = {}
    /\ marker = [b \in Browsers |-> -1]
    /\ proof = [b \in Browsers |-> 0] /\ out = {}

----------------------------------------------------------------------------
(* What before_request makes of a request, hook by hook. *)

\* _local_network_bypass, on a session it made itself
BypassValid(b) == b \in auto => bypass /\ b \in Local

\* _enforce_session_state: the tracked session must be on record and live
Served(b) == active /\ sid[b] # 0 /\ sid[b] \in live /\ BypassValid(b)

\* variant: the marker need not carry the current epoch
MarkerGoodAnyEpoch(b) == marker[b] # -1

\* remember_restore_refusal finds no reason
MarkerGood(b) == marker[b] = epoch
Restorable(b) == active /\ sid[b] = 0 /\ b \in remember /\ MarkerGood(b)

\* start_session for browser b
StartSession(b) ==
    /\ started < MaxSessions
    /\ started' = started + 1
    /\ live' = live \cup {started + 1}
    /\ sid' = [sid EXCEPT ![b] = started + 1]

\* a bypass session that is no longer valid: revoked, the session cookie cleared
DropBypass(b) ==
    /\ active /\ sid[b] # 0 /\ ~BypassValid(b)
    /\ live' = live \ {sid[b]}
    /\ sid' = [sid EXCEPT ![b] = 0]
    /\ auto' = auto \ {b}
    /\ UNCHANGED <<account, bypass, started, remember, marker, history>>

\* a revoked session: logged out, the remember cookie with it
RefuseRevoked(b) ==
    /\ active /\ sid[b] # 0 /\ BypassValid(b) /\ sid[b] \notin live
    /\ sid' = [sid EXCEPT ![b] = 0]
    /\ remember' = remember \ {b}
    /\ UNCHANGED <<account, bypass, started, live, auto, marker, history>>

\* _on_user_loaded_from_cookie: a new tracked session ...
RestoreRemembered(b) ==
    /\ Restorable(b)
    /\ StartSession(b)
    /\ UNCHANGED <<account, bypass, auto, remember, marker, history>>

\* ... or the saved login is dropped together with its marker
RefuseRemembered(b) ==
    /\ active /\ sid[b] = 0 /\ b \in remember /\ ~MarkerGood(b)
    /\ remember' = remember \ {b}
    /\ marker' = [marker EXCEPT ![b] = -1]
    /\ UNCHANGED <<account, bypass, started, live, sid, auto, history>>

\* _local_network_bypass, on a request without a user
BypassLogin(b) ==
    /\ active /\ bypass /\ b \in Local /\ sid[b] = 0 /\ b \notin remember
    /\ StartSession(b)
    /\ auto' = auto \cup {b}
    /\ UNCHANGED <<account, bypass, remember, marker, history>>

----------------------------------------------------------------------------
(* Login and logout. *)

\* the session cookie is cleared, so the bypass key goes with it
Login(b) ==
    /\ active /\ ~Served(b) /\ ~Restorable(b)
    /\ StartSession(b)
    /\ auto' = auto \ {b}
    /\ \/ UNCHANGED <<remember, marker>>
       \/ remember' = remember \cup {b} /\ marker' = [marker EXCEPT ![b] = epoch]
    /\ proof' = [proof EXCEPT ![b] = pw]
    /\ out' = out \ {b}
    /\ UNCHANGED <<account, bypass>>

\* variant: the remember cookie survives a logout
LogoutRemembered(b) ==
    /\ Served(b)
    /\ live' = live \ {sid[b]}
    /\ sid' = [sid EXCEPT ![b] = 0]
    /\ out' = out \cup {b}
    /\ UNCHANGED <<account, bypass, started, auto, remember, marker, proof>>

\* logout: the record is revoked, the remember cookie cleared; the marker and
\* the bypass key stay
Logout(b) ==
    /\ Served(b)
    /\ live' = live \ {sid[b]}
    /\ sid' = [sid EXCEPT ![b] = 0]
    /\ remember' = remember \ {b}
    /\ out' = out \cup {b}
    /\ UNCHANGED <<account, bypass, started, auto, marker, proof>>

----------------------------------------------------------------------------
(* Password changes and revocation. *)

\* change_password: every other session is revoked, this browser's marker
\* stamped anew if it has one
ChangePassword(b) ==
    /\ Served(b)
    /\ SetPassword
    /\ live' = live \cap {sid[b]}
    /\ marker' = IF marker[b] = -1 THEN marker ELSE [marker EXCEPT ![b] = epoch']
    /\ proof' = [proof EXCEPT ![b] = pw']
    /\ UNCHANGED <<bypass, started, sid, auto, remember, out>>

\* security.edit_user with a new password: every session is revoked
AdminReset ==
    /\ SetPassword
    /\ live' = {}
    /\ UNCHANGED <<bypass, started, cookies, history>>

\* revoke_session, and the administrator's revoke_user_session
RevokeSession(s) ==
    /\ live' = live \ {s}
    /\ UNCHANGED <<account, bypass, started, cookies, history>>

\* revoke_other_sessions; a password that must be changed comes first
RevokeOthers(b) ==
    /\ Served(b) /\ ~forced
    /\ live' = live \cap {sid[b]}
    /\ UNCHANGED <<account, bypass, started, cookies, history>>

\* security.save_local_bypass
SetBypass ==
    /\ bypass' = ~bypass
    /\ UNCHANGED <<account, started, live, cookies, history>>

----------------------------------------------------------------------------
(* Outside. *)

\* a browser is restarted: the session cookie is gone, the other two are not
BrowserRestart(b) ==
    /\ sid[b] # 0
    /\ sid' = [sid EXCEPT ![b] = 0] /\ auto' = auto \ {b}
    /\ UNCHANGED <<account, bypass, started, live, remember, marker, history>>

AccountStep ==
    /\ SetActive \/ Tick
    /\ UNCHANGED <<bypass, started, live, cookies, history>>

Next ==
    \/ \E b \in Browsers :
          \/ DropBypass(b) \/ RefuseRevoked(b)
          \/ RestoreRemembered(b) \/ RefuseRemembered(b) \/ BypassLogin(b)
          \/ Login(b) \/ Logout(b) \/ ChangePassword(b)
          \/ RevokeOthers(b) \/ BrowserRestart(b)
    \/ \E s \in live : RevokeSession(s)
    \/ AdminReset \/ SetBypass \/ AccountStep

Spec == Init /\ [][Next]_vars

----------------------------------------------------------------------------
(* Properties. *)

\* Type correctness.
TypeOK ==
    /\ AccountTypeOK
    /\ bypass \in BOOLEAN
    /\ started \in Nat /\ live \subseteq 1..started
    /\ sid \in [Browsers -> 0..started]
    /\ auto \subseteq Browsers /\ remember \subseteq Browsers /\ out \subseteq Browsers
    /\ marker \in [Browsers -> Nat \cup {-1}]
    /\ proof \in [Browsers -> Nat]

\* A changed or reset password signs the account out everywhere: whoever is
\* served, or could be from the remember cookie, has proved the current
\* password (or is let in by the local bypass, which asks for none).
SignedOutByPassword ==
    \A b \in Browsers : (Served(b) /\ b \notin auto) \/ Restorable(b) => proof[b] = pw

\* A browser that logged out is not served again before someone logs in on it,
\* unless the local bypass lets it in: logout leaves a valid marker behind, but
\* never the remember cookie that the marker vouches for.
LogoutLasts ==
    \A b \in out : ~Restorable(b) /\ (Served(b) => b \in auto)

(***************************************************************************)
(* The strengthening that makes SignedOutByPassword inductive.             *)
(***************************************************************************)
\* No two browsers hold the same session id: the session a password change
\* keeps is the one of the browser that made it.
SessionsDistinct ==
    \A a, b \in Browsers : a # b /\ sid[a] # 0 => sid[a] # sid[b]

\* No marker is from the future, so a new epoch differs from all of them.
MarkersPast == \A b \in Browsers : marker[b] <= epoch

\* Whoever holds a live session the bypass did not make, or a remember cookie
\* with a current marker, has proved the current password.
Vouched ==
    \A b \in Browsers :
        \/ sid[b] \in live /\ b \notin auto
        \/ b \in remember /\ marker[b] = epoch
        => proof[b] = pw

\* The inductive invariant: types, distinct sessions, no future marker, and a
\* proof of the current password behind every way in.
IInv == TypeOK /\ SessionsDistinct /\ MarkersPast /\ Vouched
=============================================================================
