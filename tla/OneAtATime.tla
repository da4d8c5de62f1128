----------------------------- MODULE OneAtATime -----------------------------
(***************************************************************************)
(* What the upgrade lock of apps/utils.py promises, with no lock, tracker  *)
(* or scheduler in sight: a host is upgraded by nobody or by one worker,   *)
(* who is never replaced without leaving first.  A restart of the process  *)
(* takes every worker away at once.                                        *)
(***************************************************************************)
CONSTANTS Workers, Hosts

VARIABLE at     \* the pairs of a worker and the host it is upgrading

Init == at = {}

Enter(w, h) ==
    /\ \A p \in at : p[2] # h
    /\ at' = at \cup {<<w, h>>}

Leave(w, h) ==
    /\ <<w, h>> \in at
    /\ at' = at \ {<<w, h>>}

Restart == at' = {}

Next ==
    \/ \E w \in Workers, h \in Hosts : Enter(w, h) \/ Leave(w, h)
    \/ Restart

Spec == Init /\ [][Next]_at
=============================================================================
