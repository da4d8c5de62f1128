---------------------------- MODULE MCUpdateJobs ----------------------------
(***************************************************************************)
(* The update jobs of guests and those of hosts, for TLC.  They share no   *)
(* state; a behaviour is one of the kind chosen at the start, and the      *)
(* other rests.  The modes:                                                *)
(*   guests        two users update guests                                 *)
(*   guests_bulk   two users ask for a bulk update of two guests           *)
(*   guests_mixed  one of each, on the same guest                          *)
(*   guests_db     one of each, on the same guest; the database may raise  *)
(*   guests_db_bulk  a bulk update of two guests; the database may raise   *)
(*   hosts         two users update two hosts; threads                     *)
(*   hosts_bulk    two bulk runs over three hosts; gevent                  *)
(*   hosts_mixed   one of each over two hosts; threads, and the database   *)
(*                 may raise                                               *)
(***************************************************************************)
EXTENDS Naturals, FiniteSets

CONSTANTS
    Guests, AgentGuests, Hosts, Pbs, Requests, Bulks, MaxJobs,
    g1, g2, h1, h2, h3, r1, r2, b1, b2

ASSUME UpdateJobsAssumption ==
    /\ AgentGuests \subseteq Guests
    /\ Pbs \subseteq Hosts
    /\ Requests \cap Bulks = {} /\ r1 \in Requests /\ b1 \in Bulks
    /\ IsFiniteSet(Guests) /\ IsFiniteSet(Hosts) /\ IsFiniteSet(Requests) /\ IsFiniteSet(Bulks)
    /\ "none" \notin Guests \cup Hosts
    /\ MaxJobs \in Nat /\ MaxJobs > Cardinality(Guests) + Cardinality(Requests \cup Bulks)

VARIABLES
    mode,
    jobs, slot, bulk, thr,
    job, hostBulk, hostThr

guestVars == <<jobs, slot, bulk, thr>>
hostVars == <<job, hostBulk, hostThr>>

Guest == INSTANCE GuestJobs WITH Faults <- FALSE
FaultyGuest == INSTANCE GuestJobs WITH Faults <- TRUE
Host == INSTANCE HostUpdates WITH bulk <- hostBulk, thr <- hostThr, Preemptive <- FALSE, Faults <- FALSE
ThreadedHost == INSTANCE HostUpdates WITH bulk <- hostBulk, thr <- hostThr, Preemptive <- TRUE, Faults <- FALSE
FaultyHost == INSTANCE HostUpdates WITH bulk <- hostBulk, thr <- hostThr, Preemptive <- TRUE, Faults <- TRUE

GuestModes == [guests       |-> [threads |-> Requests, guests |-> Guests],
               guests_bulk  |-> [threads |-> Bulks, guests |-> Guests],
               guests_mixed |-> [threads |-> {r1, b1}, guests |-> {g1}],
               guests_db    |-> [threads |-> {r1, b1}, guests |-> {g1}],
               guests_db_bulk |-> [threads |-> {b1}, guests |-> Guests]]
DbModes == {"guests_db", "guests_db_bulk"}
HostModes == [hosts       |-> [threads |-> Requests, hosts |-> Hosts],
              hosts_bulk  |-> [threads |-> Bulks, hosts |-> Hosts],
              hosts_mixed |-> [threads |-> {r1, b1}, hosts |-> {h1, h3}]]

Threads == Requests \cup Bulks

MCInit == Guest!Init /\ Host!Init /\ mode \in DOMAIN GuestModes \cup DOMAIN HostModes

\* Only the threads, guests and hosts of the mode take part.
GuestsOfMode ==
    /\ \A t \in Threads \ GuestModes[mode].threads : thr'[t] = Guest!Idle
    /\ \A g \in Guests \ GuestModes[mode].guests : bulk'.items[g] = "absent" /\ slot'[g] = 0
HostsOfMode ==
    /\ \A t \in Threads \ HostModes[mode].threads : hostThr'[t] = Host!Idle
    /\ \A h \in Hosts \ HostModes[mode].hosts :
          hostBulk'.items[h] = "absent" /\ job'[h] = Host!NoJob

GuestNext ==
    /\ mode \in DOMAIN GuestModes
    /\ UNCHANGED <<mode, hostVars>>
    /\ \/ mode \notin DbModes /\ Guest!Next
       \/ mode \in DbModes /\ FaultyGuest!Next
    /\ GuestsOfMode

HostNext ==
    /\ mode \in DOMAIN HostModes
    /\ UNCHANGED <<mode, guestVars>>
    /\ \/ mode = "hosts_bulk" /\ Host!Next
       \/ mode = "hosts" /\ ThreadedHost!Next
       \/ mode = "hosts_mixed" /\ FaultyHost!Next
    /\ HostsOfMode

MCNext == GuestNext \/ HostNext

MCVars == <<mode, guestVars, hostVars>>

\* A thread that is under way goes on.
GuestAdvances(t) ==
    /\ mode \in DOMAIN GuestModes
    /\ UNCHANGED <<mode, hostVars>>
    /\ \/ mode \notin DbModes /\ Guest!Advance(t)
       \/ mode \in DbModes /\ FaultyGuest!Advance(t)
HostAdvances(t) ==
    /\ mode \in DOMAIN HostModes
    /\ UNCHANGED <<mode, guestVars>>
    /\ \/ mode = "hosts_bulk" /\ Host!Advance(t)
       \/ mode = "hosts" /\ ThreadedHost!Advance(t)
       \/ mode = "hosts_mixed" /\ FaultyHost!Advance(t)
    /\ HostsOfMode

MCSpec ==
    /\ MCInit /\ [][MCNext]_MCVars
    /\ \A t \in Threads : WF_MCVars(GuestAdvances(t) \/ HostAdvances(t))

----------------------------------------------------------------------------
\* As long as single and bulk updates do not meet, a guest and a host have one
\* apt run at a time, and the host's record says so (routes/api.py, 648-650;
\* routes/hosts.py, 864-869).
RunsExclusive ==
    /\ mode \in {"guests", "guests_bulk"} => Guest!OneRunPerGuest
    /\ mode = "hosts" => Host!OneRunPerHost /\ Host!StatusReflectsRun

\* While the database answers and greenlets do not preempt each other there is
\* one bulk update at a time, its progress adds up, and the backup servers come
\* after the nodes (_run_bulk_update, _run_bulk_apply).
BulkSound ==
    /\ mode \notin DbModes => Guest!BulkExclusive /\ Guest!BulkAccounted
    /\ mode = "hosts_bulk" => Host!BulkExclusive /\ Host!BulkAccounted /\ Host!PbsAfterNodes

\* The updates of guests and hosts do not get into each other's way, single or
\* in bulk.
UpdatesSound == Guest!TypeOK /\ Host!TypeOK /\ RunsExclusive /\ BulkSound

\* A job that was asked to stop starts no upgrade over SSH and records none; if
\* SSH raises it still starts one through the agent, which is told to end
\* (_run_update_background, 239-273).
CancelHeeded == Guest!CancelHeeded

\* No job stays running and the bulk slots are given back, database faults
\* included, but for the single update of a guest whose database raised before
\* its worker's `try' (routes/api.py, 130 and 657-661) and the guests' bulk slot,
\* which is given back while the database answers.
JobsSettle ==
    /\ \A g \in Guests :
          Guest!InFlight(g) ~> (~Guest!InFlight(g) \/ (mode \in DbModes /\ Guest!Orphaned(g)))
    /\ Guest!OnlySinglesLost
    /\ mode \notin DbModes /\ bulk.running ~> ~bulk.running
    /\ Host!JobsEnd
=============================================================================
