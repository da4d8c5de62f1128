-------------------------- MODULE AdhocCredentials --------------------------
(***************************************************************************)
(* The server-side store of one-off SSH credentials.  The cookie keeps the *)
(* token for ever, because a WebSocket upgrade cannot change it, so the    *)
(* same token comes back on every later connection; the store alone makes  *)
(* it good for one use, for one user and guest, for TTL ticks.             *)
(***************************************************************************)
EXTENDS Integers, FiniteSets

CONSTANTS Users, Guests, Tokens, TTL, MaxEntries, MaxTime

VARIABLES
    now,
    issued,   \* the tokens handed out: user, guest and time of each (history)
    entries,  \* the tokens in the store
    tried,    \* the tokens presented at least once (history)
    used      \* [token, user, guest, time] of credentials given out (history)

vars == <<now, issued, entries, tried, used>>

Init ==
    /\ now = 0 /\ issued = [t \in {} |-> 0]
    /\ entries = {} /\ tried = {} /\ used = {}

Tick == now < MaxTime /\ now' = now + 1 /\ UNCHANGED <<issued, entries, tried, used>>

Expired(t) == issued[t].at + TTL <= now

\* _prune_locked: expired entries go, then the oldest ones until the cap is met
Pruned ==
    LET fresh == {t \in entries : ~Expired(t)}
    IN  {e \in SUBSET fresh :
            /\ Cardinality(e) = IF Cardinality(fresh) > MaxEntries THEN MaxEntries
                                ELSE Cardinality(fresh)
            /\ \A t \in e, o \in fresh \ e : issued[o].at <= issued[t].at}

\* store_credentials, from connect-adhoc: prunes, then adds the new entry
Store(u, g, t) ==
    /\ t \notin DOMAIN issued
    /\ issued' = [x \in DOMAIN issued \cup {t} |->
                    IF x = t THEN [user |-> u, guest |-> g, at |-> now] ELSE issued[x]]
    /\ \E e \in Pruned : entries' = e \cup {t}
    /\ UNCHANGED <<now, tried, used>>

\* variant: an entry that did not match stays
TakeMatching(u, g, t) ==
    /\ t \in DOMAIN issued
    /\ LET match == t \in entries /\ ~Expired(t) /\ issued[t].user = u /\ issued[t].guest = g
       IN  /\ \E e \in Pruned : entries' = IF match THEN e \ {t} ELSE e
           /\ used' = IF match
                      THEN used \cup {[token |-> t, user |-> u, guest |-> g, at |-> now]}
                      ELSE used
    /\ tried' = tried \cup {t}
    /\ UNCHANGED <<now, issued>>

\* take_credentials, from the WebSocket: the entry goes whether or not it matches
Take(u, g, t) ==
    /\ t \in DOMAIN issued
    /\ \E e \in Pruned :
          /\ entries' = e \ {t}
          /\ used' = IF t \in e /\ ~Expired(t) /\ issued[t].user = u /\ issued[t].guest = g
                     THEN used \cup {[token |-> t, user |-> u, guest |-> g, at |-> now]}
                     ELSE used
    /\ tried' = tried \cup {t}
    /\ UNCHANGED <<now, issued>>

\* the process restarts: the store is in memory
Restart == entries' = {} /\ UNCHANGED <<now, issued, tried, used>>

Next ==
    \/ Tick \/ Restart
    \/ \E u \in Users, g \in Guests, t \in Tokens : Store(u, g, t) \/ Take(u, g, t)

Spec == Init /\ [][Next]_vars

----------------------------------------------------------------------------
\* A token is good for one presentation: once presented, by whomever and for
\* whichever guest, it never yields credentials again.
FirstUseOnly ==
    [][\A r \in used' \ used : r.token \notin tried]_vars

\* Credentials are given out to the user and for the guest they were typed for,
\* and never TTL or more ticks later.
GivenAsIssued ==
    \A r \in used :
        /\ issued[r.token].user = r.user /\ issued[r.token].guest = r.guest
        /\ r.at < issued[r.token].at + TTL

\* The store never holds more than its hard cap; not so, because it is pruned
\* before it grows (README, Limits of the results).
CapKept == Cardinality(entries) <= MaxEntries

\* A store that is one over the cap at most is cut back before it grows.
NearCap == Cardinality(entries) <= MaxEntries + 1
=============================================================================
