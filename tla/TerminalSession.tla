-------------------------- MODULE TerminalSession --------------------------
(***************************************************************************)
(* A shared SSH terminal: the operator's WebSocket (_ws_primary), any      *)
(* number of read-only followers (_ws_follow), the thread that reads from  *)
(* the SSH channel and fans its output out through TerminalSession, one    *)
(* sender thread per connection, and the watchdogs that close what a       *)
(* revoked user still has open.                                            *)
(***************************************************************************)
EXTENDS Integers, Sequences, FiniteSets, FiniteSetsExt

CONSTANTS
    Followers,     \* the browsers that may follow
    Workers,       \* the kinds of worker considered, see worker
    BufferChunks,  \* TerminalSession.MAX_BUFFER, in chunks of output
    QueueSize,     \* the maxsize of a subscriber's queue
    MaxChunks,     \* bound on the output of the SSH channel
    Revocable,     \* the clients an administrator may revoke
    SetupFails     \* whether setting up may raise before the reader starts

ASSUME FollowersAssumption == "primary" \notin Followers
ASSUME RevocableAssumption == Revocable \subseteq Followers \cup {"primary"}
ASSUME WorkersAssumption == Workers \subseteq {"gevent", "threads"}
ASSUME SetupAssumption == SetupFails \in BOOLEAN
ASSUME SizesAssumption == BufferChunks \in Nat \ {0} /\ QueueSize \in Nat \ {0, 1}
ASSUME BoundAssumption == MaxChunks \in Nat

Clients == Followers \cup {"primary"}

VARIABLES
    worker,      \* whether connections are greenlets or threads (gthread); never changes
    stage,       \* where each connection's handler is
    ws,          \* the clients whose WebSocket is open
    registered,  \* whether terminal_registry holds the session
    channel,     \* the SSH channel
    reader,      \* the thread read_from_ssh
    watch,       \* the thread _session_watchdog
    buffered,    \* number of chunks appended to the ring buffer so far
    casting,     \* the step of the broadcast_output in progress and its targets
    subs,        \* the keys of TerminalSession._queues
    queue,       \* the send queue of each connection
    sender,      \* the sender threads that run
    seen,        \* what each browser received (history, in summary)
    lost,        \* the clients for which a full queue dropped a message (history)
    revoked      \* the clients whose account or web session was revoked

vars == <<worker, stage, ws, registered, channel, reader, watch, buffered, casting,
          subs, queue, sender, seen, lost, revoked>>
outside == <<worker, revoked>>
threads == <<reader, watch, sender>>
stream == <<buffered, casting, subs, queue, seen, lost>>

Preemptive == worker = "threads"

\* A message is a run of chunks (output, the catch-up is one message) or a
\* control message; "stop" is the sentinel None.
Output(a, b) == [kind |-> "output", from |-> a, to |-> b]
Control(k) == [kind |-> k, from |-> 1, to |-> 0]
Kinds == {"output", "connected", "disconnected", "closing", "stop"}
Message == [kind : Kinds, from : 0..MaxChunks + 1, to : 0..MaxChunks]

\* what a browser has seen: the first and the last chunk, whether every message
\* of output went on where the one before ended, and the announced end
View == [first : 0..MaxChunks + 1, last : 0..MaxChunks, whole : BOOLEAN, told : BOOLEAN]
Nothing == [first |-> 0, last |-> 0, whole |-> TRUE, told |-> FALSE]
Received(s, m) ==
    CASE m.kind = "output" ->
            [s EXCEPT !.first = IF @ = 0 THEN m.from ELSE @, !.last = m.to,
                      !.whole = @ /\ (s.last = 0 \/ m.from = s.last + 1)]
      [] m.kind = "disconnected" -> [s EXCEPT !.told = TRUE]
      [] OTHER -> s

Idle == [step |-> "none", to |-> {}]

Init ==
    /\ worker \in Workers
    /\ stage = [c \in Clients |-> "away"]
    /\ ws = {}
    /\ registered = FALSE /\ channel = "none" /\ reader = "none" /\ watch = "none"
    /\ buffered = 0 /\ casting = Idle
    /\ subs = {} /\ queue = [c \in Clients |-> <<>>]
    /\ sender = {}
    /\ seen = [c \in Clients |-> Nothing]
    /\ lost = {} /\ revoked = {}

----------------------------------------------------------------------------
(* Queues and the ring buffer. *)

\* put_nowait on the queues of a set of connections; a full queue drops it
Put(q, to, msg) ==
    [c \in Clients |-> IF c \in to /\ Len(q[c]) < QueueSize THEN Append(q[c], msg) ELSE q[c]]
Dropping(q, to) == {c \in to : Len(q[c]) >= QueueSize}

\* _snapshot: the chunks that still fit into the ring buffer, as one message
Snapshot(n) ==
    IF n = 0 THEN <<>>
    ELSE <<Output(IF n > BufferChunks THEN n - BufferChunks + 1 ELSE 1, n)>>

\* follower_count()
FollowerCount(s) == IF Cardinality(s) > 1 THEN Cardinality(s) - 1 ELSE 0

----------------------------------------------------------------------------
(* The operator's connection. *)

\* authentication, credentials, SSH; the session is registered and subscribed
PrimaryConnect ==
    /\ stage["primary"] = "away"
    /\ stage' = [stage EXCEPT !["primary"] = IF Preemptive THEN "created" ELSE "setup"]
    /\ ws' = ws \cup {"primary"}
    /\ registered' = TRUE /\ channel' = "open"
    /\ IF Preemptive THEN UNCHANGED <<subs, sender>>
       ELSE subs' = {"primary"} /\ sender' = {"primary"}
    /\ UNCHANGED <<reader, watch, buffered, casting, queue, seen, lost, outside>>

PrimarySubscribe ==
    /\ stage["primary"] = "created"
    /\ stage' = [stage EXCEPT !["primary"] = "setup"]
    /\ queue' = [queue EXCEPT !["primary"] = Snapshot(buffered)]
    /\ subs' = subs \cup {"primary"} /\ sender' = sender \cup {"primary"}
    /\ UNCHANGED <<ws, registered, channel, reader, watch, buffered, casting, seen, lost, outside>>

\* greeting, audit log and commit, then the reader and the watchdog start
PrimaryStart ==
    /\ stage["primary"] = "setup"
    /\ \/ /\ stage' = [stage EXCEPT !["primary"] = "serving"]
          /\ reader' = "reading" /\ watch' = "on"
       \/ /\ SetupFails
          /\ stage' = [stage EXCEPT !["primary"] = "leaving"]
          /\ UNCHANGED <<reader, watch>>
    /\ UNCHANGED <<ws, registered, channel, sender, stream, outside>>

\* the loop over ws.receive() ends: the socket is closed, or the browser sends
\* something once the channel is
PrimaryLoopEnds ==
    /\ stage["primary"] = "serving"
    /\ "primary" \notin ws \/ channel = "closed"
    /\ stage' = [stage EXCEPT !["primary"] = "leaving"]
    /\ UNCHANGED <<ws, registered, channel, threads, stream, outside>>

\* finally, first part: sentinel, remove_subscriber, clean-up of the registry
PrimaryCleanUp ==
    /\ stage["primary"] = "leaving"
    /\ stage' = [stage EXCEPT !["primary"] = "closing"]
    /\ queue' = Put(queue, {"primary"}, Control("stop"))
    /\ subs' = subs \ {"primary"}
    /\ registered' = (registered /\ FollowerCount(subs') # 0)
    /\ UNCHANGED <<ws, channel, threads, buffered, casting, seen, lost, outside>>

\* finally, second part: channel.close(), ssh_client.close(), ws.close()
PrimaryClose ==
    /\ stage["primary"] = "closing"
    /\ stage' = [stage EXCEPT !["primary"] = "gone"]
    /\ channel' = "closed"
    /\ ws' = ws \ {"primary"}
    /\ UNCHANGED <<registered, threads, stream, outside>>

----------------------------------------------------------------------------
(* read_from_ssh and broadcast_output. *)

\* the three steps of broadcast_output: append, list the queues, put
ReadAppend ==
    /\ Preemptive /\ reader = "reading" /\ casting = Idle /\ buffered < MaxChunks
    /\ buffered' = buffered + 1
    /\ casting' = [step |-> "append", to |-> {}]
    /\ UNCHANGED <<stage, ws, registered, channel, threads, subs, queue, seen, lost, outside>>

ReadTargets ==
    /\ casting.step = "append"
    /\ casting' = [step |-> "put", to |-> subs]
    /\ UNCHANGED <<stage, ws, registered, channel, threads, buffered, subs, queue, seen, lost, outside>>

ReadPut ==
    /\ casting.step = "put"
    /\ queue' = Put(queue, casting.to, Output(buffered, buffered))
    /\ lost' = lost \cup Dropping(queue, casting.to)
    /\ casting' = Idle
    /\ UNCHANGED <<stage, ws, registered, channel, threads, buffered, subs, seen, outside>>

\* the same without a switch of greenlets in between
ReadOutput ==
    /\ ~Preemptive /\ reader = "reading" /\ buffered < MaxChunks
    /\ buffered' = buffered + 1
    /\ queue' = Put(queue, subs, Output(buffered + 1, buffered + 1))
    /\ lost' = lost \cup Dropping(queue, subs)
    /\ UNCHANGED <<stage, ws, registered, channel, threads, casting, subs, seen, outside>>

\* the remote shell exits
ShellExits ==
    /\ channel = "open" /\ reader = "reading"
    /\ channel' = "closed"
    /\ UNCHANGED <<stage, ws, registered, threads, stream, outside>>

\* variant: the session is taken out of the registry, nobody is told
ReaderEndsSilently ==
    /\ reader = "reading" /\ casting = Idle /\ channel = "closed"
    /\ reader' = "ended" /\ registered' = FALSE
    /\ UNCHANGED <<stage, ws, channel, watch, buffered, casting, subs, queue, sender, seen, lost, outside>>

\* finally: send_control(disconnected), then terminal_registry.remove
ReaderEnds ==
    /\ reader = "reading" /\ casting = Idle /\ channel = "closed"
    /\ queue' = Put(queue, subs, Control("disconnected"))
    /\ lost' = lost \cup Dropping(queue, subs)
    /\ reader' = IF Preemptive THEN "ending" ELSE "ended"
    /\ registered' = (registered /\ Preemptive)
    /\ UNCHANGED <<stage, ws, channel, watch, buffered, casting, subs, sender, seen, outside>>

ReaderRemoves ==
    /\ reader = "ending"
    /\ reader' = "ended" /\ registered' = FALSE
    /\ UNCHANGED <<stage, ws, channel, watch, sender, stream, outside>>

----------------------------------------------------------------------------
(* Followers. *)

\* the session is looked up; with threads it may end before the follower is in
FollowerFinds(f) ==
    /\ Preemptive /\ stage[f] = "away" /\ registered /\ f \notin revoked
    /\ stage' = [stage EXCEPT ![f] = "found"]
    /\ ws' = ws \cup {f}
    /\ UNCHANGED <<registered, channel, threads, stream, outside>>

\* add_subscriber: the snapshot is taken before the queue is registered
FollowerSnapshots(f) ==
    /\ stage[f] = "found"
    /\ stage' = [stage EXCEPT ![f] = "snapped"]
    /\ queue' = [queue EXCEPT ![f] = Snapshot(buffered)]
    /\ UNCHANGED <<ws, registered, channel, threads, buffered, casting, subs, seen, lost, outside>>

FollowerRegisters(f) ==
    /\ stage[f] = "snapped"
    /\ stage' = [stage EXCEPT ![f] = "joined"]
    /\ subs' = subs \cup {f}
    /\ sender' = sender \cup {f}
    /\ UNCHANGED <<ws, registered, channel, reader, watch, buffered, casting, queue, seen, lost, outside>>

\* the greeting goes through the queue; put_nowait raises when it is full
FollowerGreeted(f) ==
    /\ stage[f] = "joined"
    /\ stage' = [stage EXCEPT ![f] = IF Len(queue[f]) < QueueSize THEN "following" ELSE "leaving"]
    /\ queue' = Put(queue, {f}, Control("connected"))
    /\ UNCHANGED <<ws, registered, channel, threads, buffered, casting, subs, seen, lost, outside>>

FollowerJoins(f) ==
    /\ ~Preemptive /\ stage[f] = "away" /\ registered /\ f \notin revoked
    /\ stage' = [stage EXCEPT ![f] = "following"]
    /\ ws' = ws \cup {f}
    /\ queue' = [queue EXCEPT ![f] = Append(Snapshot(buffered), Control("connected"))]
    /\ subs' = subs \cup {f} /\ sender' = sender \cup {f}
    /\ UNCHANGED <<registered, channel, reader, watch, buffered, casting, seen, lost, outside>>

FollowerLoopEnds(f) ==
    /\ stage[f] = "following" /\ f \notin ws
    /\ stage' = [stage EXCEPT ![f] = "leaving"]
    /\ UNCHANGED <<ws, registered, channel, threads, stream, outside>>

\* finally: sentinel, remove_subscriber, ws.close()
FollowerCleanUp(f) ==
    /\ stage[f] = "leaving"
    /\ stage' = [stage EXCEPT ![f] = "gone"]
    /\ queue' = Put(queue, {f}, Control("stop"))
    /\ subs' = subs \ {f}
    /\ ws' = ws \ {f}
    /\ UNCHANGED <<registered, channel, threads, buffered, casting, seen, lost, outside>>

----------------------------------------------------------------------------
(* Sender threads. *)

\* one turn of the loop: the sentinel or a failing ws.send ends it; with an
\* empty queue it waits for the next message
SenderTurn(c) ==
    /\ c \in sender /\ queue[c] # <<>>
    /\ queue' = [queue EXCEPT ![c] = Tail(@)]
    /\ IF Head(queue[c]).kind = "stop" \/ c \notin ws
       THEN sender' = sender \ {c} /\ UNCHANGED seen
       ELSE seen' = [seen EXCEPT ![c] = Received(@, Head(queue[c]))] /\ UNCHANGED sender
    /\ UNCHANGED <<stage, ws, registered, channel, reader, watch, buffered, casting, subs, lost, outside>>

----------------------------------------------------------------------------
(* Watchdogs. *)

\* _session_watchdog: idle timeout, revocation, or a re-check that failed; the
\* subscribers are told, then (the audit entry is written in between) the
\* channel is closed
WatchdogFires ==
    /\ watch = "on" /\ channel = "open"
    /\ queue' = Put(queue, subs, Control("closing"))
    /\ lost' = lost \cup Dropping(queue, subs)
    /\ watch' = "closing"
    /\ UNCHANGED <<stage, ws, registered, channel, reader, buffered, casting, subs, sender, seen, outside>>

WatchdogEnds ==
    /\ watch = "closing" \/ (watch = "on" /\ channel = "closed")
    /\ channel' = "closed" /\ watch' = "off"
    /\ UNCHANGED <<stage, ws, registered, reader, sender, stream, outside>>

\* variant: the follower is told and stays connected
FollowerWatchdogWarns(f) ==
    /\ stage[f] = "following" /\ f \in ws
    /\ queue' = Put(queue, {f}, Control("closing"))
    /\ lost' = lost \cup Dropping(queue, {f})
    /\ UNCHANGED <<stage, ws, registered, channel, threads, buffered, casting, subs, seen, outside>>

\* _follower_watchdog: a revocation, or a re-check that failed
FollowerWatchdog(f) ==
    /\ stage[f] = "following" /\ f \in ws
    /\ queue' = Put(queue, {f}, Control("closing"))
    /\ lost' = lost \cup Dropping(queue, {f})
    /\ ws' = ws \ {f}
    /\ UNCHANGED <<stage, registered, channel, threads, buffered, casting, subs, seen, outside>>

----------------------------------------------------------------------------
(* Outside. *)

\* a browser goes away
ClientCloses(c) ==
    /\ c \in ws
    /\ ws' = ws \ {c}
    /\ UNCHANGED <<stage, registered, channel, threads, stream, outside>>

\* an administrator disables the account or revokes the web session
Revoke(c) ==
    /\ c \in Revocable \ revoked
    /\ revoked' = revoked \cup {c}
    /\ UNCHANGED <<worker, stage, ws, registered, channel, threads, stream>>

Follower(f) ==
    FollowerJoins(f) \/ FollowerLoopEnds(f) \/ FollowerCleanUp(f) \/ FollowerWatchdog(f)

\* what happens in either mode, and what a greenlet does in one step
GeventNext ==
    \/ PrimaryConnect \/ PrimaryStart \/ PrimaryLoopEnds
    \/ PrimaryCleanUp \/ PrimaryClose
    \/ ReadOutput \/ ReaderEnds \/ ShellExits
    \/ WatchdogFires \/ WatchdogEnds
    \/ \E f \in Followers : Follower(f)
    \/ \E c \in Clients : SenderTurn(c) \/ ClientCloses(c) \/ Revoke(c)

\* the smaller steps of operating-system threads; without Preemptive none of
\* them is ever enabled
ThreadNext ==
    \/ PrimarySubscribe \/ ReadAppend \/ ReadTargets \/ ReadPut \/ ReaderRemoves
    \/ \E f \in Followers :
          FollowerFinds(f) \/ FollowerSnapshots(f) \/ FollowerRegisters(f) \/ FollowerGreeted(f)

Next == GeventNext \/ ThreadNext

Spec == Init /\ [][Next]_vars

\* Handlers and threads that can go on do; the operating system and the network
\* owe nothing: nobody has to connect, type, leave or be revoked.  The watchdog
\* has to act once it finds a revocation.
Fairness ==
    /\ WF_vars(PrimaryStart)
    /\ WF_vars("primary" \notin ws /\ PrimaryLoopEnds)
    /\ WF_vars(PrimaryCleanUp) /\ WF_vars(PrimaryClose)
    /\ WF_vars(ReaderEnds)
    /\ WF_vars("primary" \in revoked /\ WatchdogFires) /\ WF_vars(WatchdogEnds)
    /\ \A f \in Followers :
          /\ WF_vars(FollowerLoopEnds(f)) /\ WF_vars(FollowerCleanUp(f))
          /\ WF_vars(f \in revoked /\ FollowerWatchdog(f))
    /\ \A c \in Clients : WF_vars(SenderTurn(c))

----------------------------------------------------------------------------
(* Properties. *)

Stages == {"away", "created", "setup", "serving", "found", "snapped", "joined",
           "following", "leaving", "closing", "gone"}

\* Type correctness, the bound of the queues included.
TypeOK ==
    /\ worker \in Workers /\ stage \in [Clients -> Stages]
    /\ ws \subseteq Clients /\ subs \subseteq Clients /\ sender \subseteq Clients
    /\ registered \in BOOLEAN /\ channel \in {"none", "open", "closed"}
    /\ reader \in {"none", "reading", "ending", "ended"}
    /\ watch \in {"none", "on", "closing", "off"}
    /\ buffered \in 0..MaxChunks
    /\ casting \in [step : {"none", "append", "put"}, to : SUBSET Clients]
    /\ queue \in [Clients -> Seq(Message)]
    /\ \A c \in Clients : Len(queue[c]) <= QueueSize
    /\ seen \in [Clients -> View]
    /\ lost \subseteq Clients /\ revoked \subseteq Clients

\* the places of the output in a queue
Outputs(q) == {i \in DOMAIN q : q[i].kind = "output"}

\* what a browser that saw s will have seen once q is drained as well: the last
\* and the first chunk, whether every message of output goes on where the one
\* before ended, and the announced end
LastSeen(s, q) == IF Outputs(q) = {} THEN s.last ELSE q[Max(Outputs(q))].to
FirstSeen(s, q) ==
    IF s.first # 0 \/ Outputs(q) = {} THEN s.first ELSE q[Min(Outputs(q))].from
Whole(s, q) ==
    /\ s.whole
    /\ \A i \in Outputs(q) :
          LET before == LastSeen(s, SubSeq(q, 1, i - 1))
          IN before = 0 \/ q[i].from = before + 1
Told(s, q) == s.told \/ \E i \in DOMAIN q : q[i].kind = "disconnected"

\* nothing missing and nothing twice, from the oldest chunk of the ring buffer
\* to the newest one
SeesAll(c) ==
    c \in (subs \cap ws) \ lost =>
        /\ Whole(seen[c], queue[c])
        /\ casting = Idle => LastSeen(seen[c], queue[c]) = buffered
        /\ casting = Idle /\ buffered \in 1..BufferChunks => FirstSeen(seen[c], queue[c]) = 1

\* Every connected subscriber sees the terminal as it was: unless its queue
\* overflowed, catch-up and live output add up to consecutive chunks
\* (add_subscriber, broadcast_output).
StreamContiguous == \A c \in Clients : SeesAll(c)

\* The operator does, however the threads are interleaved: the queue is
\* registered before read_from_ssh starts.
OperatorSeesAll == SeesAll("primary")

\* Once the SSH session is over every connected subscriber has been told, unless its
\* queue overflowed (send_control in the reader's finally).
EndAnnounced ==
    reader = "ended" =>
        \A c \in (subs \cap ws) \ lost : Told(seen[c], queue[c])

\* follower_count counts one subscriber as the operator, who is already gone:
\* when the set-up failed before the reader started, and two followers had
\* joined by then, nobody removes the session
Stranded == reader = "none" /\ Cardinality({f \in Followers : stage[f] # "away"}) > 1

\* The registry does not keep a session whose operator has left, but for a
\* stranded one: followers would be offered a terminal that never says anything.
SessionRemoved == stage["primary"] = "gone" ~> ~registered \/ Stranded

\* A revoked operator loses the shell although no request of theirs is ever
\* checked again (_session_watchdog), and a revoked follower loses the feed
\* (_follower_watchdog).
RevokedOut ==
    /\ stage["primary"] = "serving" /\ "primary" \in revoked ~> channel = "closed"
    /\ \A f \in Followers : stage[f] = "following" /\ f \in revoked ~> f \notin subs

\* Nobody keeps a terminal that is no longer theirs: the registry forgets the
\* session of an operator who left, however the shell ended and also when the
\* set-up failed, unless two followers had joined before it did (Stranded);
\* and revoked operators and followers are cut off (_session_watchdog,
\* _follower_watchdog).
NobodyLingers == SessionRemoved /\ RevokedOut

\* The sender thread of a connection that ended stops; not so when a full queue
\* dropped its sentinel (README, Limits of the results).
SendersStop == \A c \in Clients : stage[c] = "gone" ~> c \notin sender
=============================================================================
