-------------------------- MODULE MCCollaboration --------------------------
(***************************************************************************)
(* The two halves of core/collaboration.py for TLC: the presence hub and   *)
(* the shared terminals.  They share no state; a behaviour is one of the   *)
(* kind chosen at the start, and the other rests.  The modes:              *)
(*   hub               the hub; with greenlets one of two users reconnects *)
(*                     or opens a second tab and may go quiet, with        *)
(*                     threads two requests may push presence at once,     *)
(*                     there is one tab per user, and nobody goes quiet    *)
(*   terminal          a terminal: with greenlets queues and a history that *)
(*                     overflow, with threads ThreadChunks chunks of output *)
(***************************************************************************)
EXTENDS CollaborationHub, TLC

CONSTANTS
    u1, u2, s1, s2, s3, p1, p2,
    Followers, BufferChunks, QueueSize, MaxChunks, ThreadChunks

VARIABLES
    mode,
    stage, ws, registered, channel, reader, watch, buffered, casting,
    subs, queue, sender, seen, lost, revoked

terminal == <<stage, ws, registered, channel, reader, watch, buffered, casting,
              subs, queue, sender, seen, lost, revoked>>

TwoTabs == s1 :> u1 @@ s2 :> u1 @@ s3 :> u2
Interchangeable == Permutations({p1, p2})

\* what TerminalSession assumes of its constants
ASSUME TerminalAssumption ==
    /\ "primary" \notin Followers
    /\ BufferChunks \in Nat \ {0} /\ QueueSize \in Nat \ {0, 1} /\ MaxChunks \in Nat

Terminal == INSTANCE TerminalSession WITH SetupFails <- TRUE, Revocable <- {}

MCInit ==
    /\ Init /\ Terminal!Init
    /\ mode \in {"hub", "terminal"}

HubNext ==
    /\ mode = "hub"
    /\ Next
    /\ quiet' \subseteq {u1}
    /\ Preemptive => status'[s2] = "new" /\ quiet' = {}
    /\ UNCHANGED <<mode, terminal>>

TerminalNext ==
    /\ mode = "terminal"
    /\ Terminal!Next
    /\ Preemptive => buffered' <= ThreadChunks
    /\ UNCHANGED <<mode, vars>>

MCNext == HubNext \/ TerminalNext
MCSpec == MCInit /\ [][MCNext]_<<mode, vars, terminal>>

----------------------------------------------------------------------------
\* Queues stay within their bound, the operator sees consecutive output in both
\* modes, and in the deployed one so does every follower, and everyone connected
\* hears of the end (add_subscriber, broadcast_output, send_control).
StreamSound ==
    mode = "terminal" =>
        /\ Terminal!TypeOK /\ Terminal!OperatorSeesAll
        /\ ~Preemptive => Terminal!StreamContiguous /\ Terminal!EndAnnounced
===========================================================================
