----------------------------- MODULE MCTerminal -----------------------------
(***************************************************************************)
(* Instances of TerminalSession for TLC, chosen at the start:              *)
(*   one    one follower, whose queue and the operator's may fill up, with *)
(*          output or with revocations                                     *)
(*   crowd  two followers, one of whom may be revoked, and no output;      *)
(*          every queue is drained before anything else happens, since who *)
(*          is registered or subscribed does not depend on them            *)
(***************************************************************************)
EXTENDS TerminalSession

CONSTANTS f1, f2

ASSUME TwoFollowers == f1 # f2 /\ Followers = {f1, f2}

VARIABLE mode

Drained == \A c \in sender : queue[c] = <<>>

InMode ==
    /\ UNCHANGED mode
    /\ mode = "one" => /\ stage'[f2] = "away" /\ f2 \notin revoked'
                       /\ buffered' = 0 \/ revoked' = {}
    /\ mode = "crowd" => /\ Drained \/ \E c \in sender : SenderTurn(c)
                         /\ buffered' = 0 /\ revoked' \subseteq {f1}

MCVars == <<mode, vars>>

MCInit == Init /\ mode \in {"one", "crowd"}
MCNext == GeventNext /\ InMode
MCSpec == MCInit /\ [][MCNext]_MCVars /\ Fairness
=============================================================================
