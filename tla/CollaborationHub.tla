-------------------------- MODULE CollaborationHub --------------------------
(***************************************************************************)
(* The presence and activity hub.  Every browser tab holds one event       *)
(* stream (collab_stream); the hub keeps one entry per user with the queue *)
(* of that user's last stream, and after every change pushes each user a   *)
(* presence list redacted for them.                                        *)
(***************************************************************************)
EXTENDS Integers, FiniteSets

CONSTANTS
    Users,       \* the signed-in users
    Covering,    \* the users whose tags cover the guest (or who are admins)
    Streams,     \* the event streams opened in the course of time
    Owner,       \* Owner[s] the user of a stream
    Workers,     \* the kinds of worker considered, see worker
    Pushers,     \* the request threads that may be in _push_presence at once
    None

ASSUME OwnerAssumption == Owner \in [Streams -> Users] /\ Covering \subseteq Users
ASSUME NoneAssumption == None \notin Streams /\ None \notin Users
ASSUME WorkersAssumption == Workers \subseteq {"gevent", "threads"}

\* what a page shows of itself: "guest" is a page about the guest, "/" any other
Pages == {"/", "guest"}
Presence == SUBSET (Users \X Pages)

VARIABLES
    worker,  \* whether requests are greenlets or threads; never changes
    status,  \* of each stream: "new", "open" or "closed"
    entry,   \* _users: the stream whose queue the entry of a user holds
    page,    \* the page of each entry
    quiet,   \* the users without a heartbeat for _PRESENCE_TIMEOUT seconds
    push,    \* the _push_presence calls in progress
    last,    \* the newest presence list in or through each stream's queue
    full,    \* the streams whose last list met a full queue (history)
    newest,  \* the last stream each user connected (history)
    events   \* the streams that were sent an event about the guest (history)

vars == <<worker, status, entry, page, quiet, push, last, full, newest, events>>
queues == <<last, full>>

Preemptive == worker = "threads"

Resting == [step |-> "none", left |-> {}, to |-> None, list |-> {}]

Init ==
    /\ worker \in Workers
    /\ status = [s \in Streams |-> "new"]
    /\ entry = [u \in Users |-> None]
    /\ page = [u \in Users |-> "/"]
    /\ quiet = {}
    /\ push = [p \in Pushers |-> Resting]
    /\ last = [s \in Streams |-> {}]
    /\ full = {} /\ events = {}
    /\ newest = [u \in Users |-> None]

----------------------------------------------------------------------------
\* variant: every viewer gets the page as it is
OnlineUnredacted(e, pg, q, viewer) ==
    {<<u, pg[u]>> : u \in {v \in Users : e[v] # None /\ v \notin q}}

\* get_online_users: the entries with a recent heartbeat, a page about a guest
\* shown as "/" unless the viewer's tags cover the guest or it is their own
OnlineUsers(e, pg, q, viewer) ==
    {<<u, IF pg[u] = "guest" /\ viewer \notin Covering /\ u # viewer THEN "/" ELSE pg[u]>> :
        u \in {v \in Users : e[v] # None /\ v \notin q}}

\* the streams whose queues the entries hold
Targets(e) == {e[u] : u \in Users} \ {None}

\* variant: the change is made and nobody is told
PushNothing(e, pg, q) == UNCHANGED <<push, queues>>

\* _push_presence after a change to e, pg, q: with greenlets at once, with
\* threads by a thread of its own.  Whether a queue is full, and the list
\* dropped, is up to how fast the browser reads: any put may meet a full queue.
PushPresence(e, pg, q) ==
    IF Preemptive
    THEN /\ \E p \in Pushers :
               push[p] = Resting /\ push' = [push EXCEPT ![p].step = "targets"]
         /\ UNCHANGED queues
    ELSE \E ok \in SUBSET Targets(e) :
            /\ last' = [s \in Streams |-> IF s \in ok THEN OnlineUsers(e, pg, q, Owner[s])
                                          ELSE last[s]]
            /\ full' = (full \cup Targets(e)) \ ok
            /\ UNCHANGED push

\* connect: the entry of the user now holds the new queue
Connect(s) ==
    /\ status[s] = "new"
    /\ status' = [status EXCEPT ![s] = "open"]
    /\ entry' = [entry EXCEPT ![Owner[s]] = s]
    /\ page' \in {[page EXCEPT ![Owner[s]] = g] : g \in Pages}
    /\ quiet' = quiet \ {Owner[s]}
    /\ newest' = [newest EXCEPT ![Owner[s]] = s]
    /\ PushPresence(entry', page', quiet')
    /\ UNCHANGED events

\* variant: the queue is not compared
DisconnectUnguarded(s) ==
    /\ status[s] = "open"
    /\ status' = [status EXCEPT ![s] = "closed"]
    /\ entry' = [entry EXCEPT ![Owner[s]] = None]
    /\ PushPresence(entry', page, quiet)
    /\ UNCHANGED <<page, quiet, newest, events>>

\* the tab closes, or the stream finds its user revoked: disconnect does
\* nothing when the entry already holds another queue
Disconnect(s) ==
    /\ status[s] = "open"
    /\ status' = [status EXCEPT ![s] = "closed"]
    /\ IF entry[Owner[s]] = s
       THEN entry' = [entry EXCEPT ![Owner[s]] = None] /\ PushPresence(entry', page, quiet)
       ELSE UNCHANGED <<entry, push, queues>>
    /\ UNCHANGED <<page, quiet, newest, events>>

\* collab_presence: a heartbeat of one of the user's tabs
UpdatePresence(u) ==
    /\ \E s \in Streams : Owner[s] = u /\ status[s] = "open"
    /\ IF entry[u] = None THEN UNCHANGED <<page, quiet>>
       ELSE /\ page' \in {[page EXCEPT ![u] = g] : g \in Pages}
            /\ quiet' = quiet \ {u}
    /\ PushPresence(entry, page', quiet')
    /\ UNCHANGED <<status, entry, newest, events>>

\* _PRESENCE_TIMEOUT seconds pass
GoQuiet(u) ==
    /\ entry[u] # None /\ u \notin quiet
    /\ quiet' = quiet \cup {u}
    /\ UNCHANGED <<status, entry, page, push, queues, newest, events>>

\* broadcast of an event about the guest, from auth/audit.py
BroadcastGuestEvent ==
    /\ \E s \in Targets(entry) : Owner[s] \in Covering
    /\ events' = events \cup {s \in Targets(entry) : Owner[s] \in Covering}
    /\ UNCHANGED <<status, entry, page, quiet, push, queues, newest>>

----------------------------------------------------------------------------
(* _push_presence in a thread: the targets under the lock, then for each the *)
(* list under the lock, then put_nowait.                                     *)

PushTargets(p) ==
    /\ push[p].step = "targets"
    /\ push' = [push EXCEPT ![p] = IF Targets(entry) = {} THEN Resting
                                   ELSE [@ EXCEPT !.step = "list", !.left = Targets(entry)]]
    /\ UNCHANGED <<status, entry, page, quiet, queues, newest, events>>

PushList(p) ==
    /\ push[p].step = "list"
    /\ \E s \in push[p].left :
          push' = [push EXCEPT ![p] = [step |-> "put", left |-> @.left \ {s}, to |-> s,
                                       list |-> OnlineUsers(entry, page, quiet, Owner[s])]]
    /\ UNCHANGED <<status, entry, page, quiet, queues, newest, events>>

PushPut(p) ==
    /\ push[p].step = "put"
    /\ LET s == push[p].to
       IN  \/ last' = [last EXCEPT ![s] = push[p].list] /\ full' = full \ {s}
           \/ full' = full \cup {s} /\ UNCHANGED last
    /\ push' = [push EXCEPT ![p] = IF @.left = {} THEN Resting
                                   ELSE [@ EXCEPT !.step = "list", !.to = None, !.list = {}]]
    /\ UNCHANGED <<status, entry, page, quiet, newest, events>>

Next ==
    /\ \/ \E s \in Streams : Connect(s) \/ Disconnect(s)
       \/ \E u \in Users : UpdatePresence(u) \/ GoQuiet(u)
       \/ BroadcastGuestEvent
       \/ \E p \in Pushers : PushTargets(p) \/ PushList(p) \/ PushPut(p)
    /\ UNCHANGED worker

Spec == Init /\ [][Next]_vars

----------------------------------------------------------------------------
(* Properties. *)

\* Type correctness.
TypeOK ==
    /\ worker \in Workers
    /\ status \in [Streams -> {"new", "open", "closed"}]
    /\ entry \in [Users -> Streams \cup {None}]
    /\ page \in [Users -> Pages] /\ quiet \subseteq Users
    /\ push \in [Pushers -> [step : {"none", "targets", "list", "put"}, left : SUBSET Streams,
                             to : Streams \cup {None}, list : Presence]]
    /\ last \in [Streams -> Presence]
    /\ full \subseteq Streams /\ events \subseteq Streams
    /\ newest \in [Users -> Streams \cup {None}]

\* A late disconnect of a superseded stream never takes the user's newer
\* stream offline (the comparison of queues in disconnect).
NewestServed ==
    \A u \in Users : newest[u] # None /\ status[newest[u]] = "open" => entry[u] = newest[u]

\* The entries are well typed and a user's newest tab is the one served
\* (CollaborationHub.connect, disconnect).
NewestKept == TypeOK /\ NewestServed

\* Once no push is under way, the newest list a registered stream was sent is
\* the truth, up to users whose heartbeats stopped and to streams whose queue
\* was full at the last put.
PresenceConverges ==
    (\A p \in Pushers : push[p] = Resting) =>
        \A s \in Targets(entry) \ full :
            {e \in last[s] : e[1] \notin quiet} = OnlineUsers(entry, page, quiet, Owner[s])

\* With greenlets, once no push is under way, every presence list that was
\* delivered last is the truth (_push_presence).
ListsConverge == ~Preemptive => PresenceConverges

\* Nobody outside the guest's tags is sent an event about it, or another user's
\* page about it, whichever interleaving of connects, moves and pushes.
ScopeKept ==
    \A s \in Streams :
        Owner[s] \notin Covering =>
            /\ s \notin events
            /\ \A e \in last[s] : e[2] = "guest" => e[1] = Owner[s]

\* Every open tab is served by the hub; not so, because an entry holds one queue
\* (README, Limits of the results).
EveryTabServed == \A s \in Streams : status[s] = "open" => entry[Owner[s]] = s

----------------------------------------------------------------------------
(* What these rest on. *)

\* an entry, and the newest stream, of a user is one of that user's streams
EntriesOwned ==
    \A u \in Users : /\ entry[u] # None => Owner[entry[u]] = u
                     /\ newest[u] # None => Owner[newest[u]] = u

\* a list about to be put is redacted for the user it goes to
ListsRedacted ==
    \A p \in Pushers :
        push[p].step = "put" =>
            /\ push[p].to \in Streams
            /\ Owner[push[p].to] \notin Covering =>
                  \A e \in push[p].list : e[2] = "guest" => e[1] = Owner[push[p].to]

\* greenlets push without a thread of their own
PushesRest == ~Preemptive => \A p \in Pushers : push[p] = Resting

\* the inductive invariant
IInv == NewestKept /\ EntriesOwned /\ ListsRedacted /\ ScopeKept /\ PushesRest /\ ListsConverge
=============================================================================
