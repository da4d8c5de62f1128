------------------------------ MODULE Discovery ------------------------------
(***************************************************************************)
(* The discovery of guests: a host's node is listed through the Proxmox    *)
(* API and the guests table is brought in line with the listing.  The code *)
(* has it three times: scheduled (core/scheduler.py, _run_discovery), for  *)
(* one host and for all (routes/hosts.py, discover and discover_all); only *)
(* the first compares MAC addresses.                                       *)
(*                                                                         *)
(* A machine is a VM or container as it was once created: one that is      *)
(* destroyed and built anew under its VMID is another machine.             *)
(*                                                                         *)
(* A pass is the listing and later its one transaction, and one that fails *)
(* leaves nothing.  The database serialises transactions, but it only      *)
(* takes its lock at the first write: the first guest of a listing is      *)
(* looked up before, and its address is asked for in between.              *)
(***************************************************************************)
EXTENDS Naturals, FiniteSets, Functions

CONSTANTS
    Nodes,       \* the hosts, each the address of one node
    Machines,    \* the machines, known by their MAC address
    Vmid, Type,  \* each machine's VMID and whether it is a "vm" or a "ct"
    Clustered,   \* whether the nodes form one cluster, in which a VMID is unique
    Requests,    \* threads that serve discover and discover_all
    Crons,       \* the scheduler's thread
    MaxChanges   \* bound: the changes the nodes go through

VARIABLES
    at,       \* the node each machine is on, "none" before and after its life
    up,       \* the machines that run
    rows,     \* the guests table, by host and VMID
    pass,     \* each thread's listing, under way or not yet written
    changes   \* the number of changes so far

vars == <<at, up, rows, pass, changes>>

Workers == Requests \cup Crons

Vmids == Range(Vmid)
None == "none"

(* A row: guest_type, mac_address (of the machine, when known), and as     *)
(* history the machine it was last written for, the machine its scan       *)
(* results are of, whether a machine took the row over unnoticed, and      *)
(* whether the row was added although another host had one by then.        *)
NoRow == [type |-> None, mac |-> None, seen |-> None, data |-> None, blind |-> FALSE, raced |-> FALSE]

(* A listing: `todo' has the nodes that are still to be asked, and `fresh' *)
(* the VMID of a first guest that was looked up ahead of the transaction   *)
(* and found in no row.  `there' is history: the machines that stayed      *)
(* where they were on the listed nodes for as long as the listing took.    *)
NoPass == [by |-> None, host |-> None, todo |-> {}, list |-> {}, running |-> {}, complete |-> FALSE,
           fresh |-> {}, there |-> {}]

Passes == {"discover", "discover_all", "scheduled"}

TypeOK ==
    /\ at \in [Machines -> Nodes \cup {None}]
    /\ up \subseteq {m \in Machines : at[m] # None}
    /\ rows \in [Nodes -> [Vmids -> [type: {"vm", "ct", None}, mac: Machines \cup {None},
                 seen: Machines \cup {None}, data: Machines \cup {None}, blind: BOOLEAN, raced: BOOLEAN]]]
    /\ pass \in [Workers -> [by: Passes \cup {None}, host: Nodes \cup {None}, todo: SUBSET Nodes,
                             list: SUBSET Machines, running: SUBSET Machines, complete: BOOLEAN,
                             fresh: SUBSET Vmids, there: SUBSET Machines]]
    /\ changes \in 0..MaxChanges

Init ==
    /\ at = [m \in Machines |-> None]
    /\ up = {}
    /\ rows = [n \in Nodes |-> [v \in Vmids |-> NoRow]]
    /\ pass = [w \in Workers |-> NoPass]
    /\ changes = 0

On(n) == {m \in Machines : at[m] = n}

-----------------------------------------------------------------------------
(* External: machines are created, destroyed, moved, started and stopped.  *)
(* A VMID is not used again between two calls of one listing.              *)
Change ==
    /\ changes < MaxChanges
    /\ changes' = changes + 1
    /\ UNCHANGED rows

(* A listing that still has nodes to ask may miss a machine that leaves. *)
Leaves(m) ==
    pass' = [w \in Workers |-> IF pass[w].todo = {} THEN pass[w]
                               ELSE [pass[w] EXCEPT !.there = @ \ {m}]]

Create(m, n) ==
    /\ Change
    /\ UNCHANGED pass
    /\ at[m] = None
    /\ \A w \in Workers, o \in Machines : pass[w].todo # {} /\ o \in pass[w].list => Vmid[o] # Vmid[m]
    /\ \A o \in Machines : Vmid[o] = Vmid[m] => at[o] \in {None} \cup (IF Clustered THEN {} ELSE Nodes \ {n})
    /\ at' = [at EXCEPT ![m] = n]
    /\ up' \in {up, up \cup {m}}

Destroy(m) ==
    /\ Change
    /\ Leaves(m)
    /\ at[m] # None
    /\ at' = [at EXCEPT ![m] = None]
    /\ up' = up \ {m}

Migrate(m, n) ==
    /\ Change
    /\ Leaves(m)
    /\ Clustered
    /\ at[m] \notin {None, n}
    /\ at' = [at EXCEPT ![m] = n]
    /\ UNCHANGED up

Power(m) ==
    /\ Change
    /\ UNCHANGED pass
    /\ at[m] # None
    /\ up' = IF m \in up THEN up \ {m} ELSE up \cup {m}
    /\ UNCHANGED at

-----------------------------------------------------------------------------
(* What one call of the API lists: the VMs or the containers of a node. *)
Listed(n, type) == {m \in On(n) : Type[m] = type}

(* A pass that has asked no node yet. *)
Begun(n, by, todo, there) ==
    [by |-> by, host |-> n, todo |-> todo, list |-> {}, running |-> {}, complete |-> TRUE,
     fresh |-> {}, there |-> there]

(* The pass with the answer of node n, two calls of which any may have     *)
(* failed.                                                                 *)
Asked(p, n, failed) ==
    LET list == UNION {Listed(n, type) : type \in {"vm", "ct"} \ failed} IN
    [p EXCEPT !.todo = @ \ {n}, !.list = @ \cup list, !.running = @ \cup (list \cap up),
              !.complete = @ /\ failed = {}]

(* Failures beside an empty listing raise and end the pass. *)
Usable(p) == p.list # {} \/ p.complete

(* get_node_guests: the one node is asked. *)
GetNodeGuests(w, n, by) ==
    \E failed \in SUBSET {"vm", "ct"} :
        LET p == Asked(Begun(n, by, {n}, On(n)), n, failed) IN
        Usable(p) /\ pass' = [pass EXCEPT ![w] = p]

(* get_all_guests, when the host's own node cannot be told: every node of  *)
(* the cluster will be asked.                                              *)
GetAllGuests(w, n, by) ==
    pass' = [pass EXCEPT ![w] = Begun(n, by, Nodes, UNION {On(o) : o \in Nodes})]

(* A pass begins: get_local_node_name finds the node, always so outside a  *)
(* cluster, or does not.                                                   *)
List(w, n, by) ==
    /\ pass[w] = NoPass
    /\ GetNodeGuests(w, n, by) \/ (Clustered /\ GetAllGuests(w, n, by))
    /\ UNCHANGED <<at, up, rows, changes>>

(* get_all_guests asks node after node, and machines move in between. *)
AskNode(w, n) ==
    /\ n \in pass[w].todo
    /\ \E failed \in SUBSET {"vm", "ct"} :
          LET p == Asked(pass[w], n, failed) IN
          pass' = [pass EXCEPT ![w] = IF p.todo = {} /\ ~Usable(p) THEN NoPass ELSE p]
    /\ UNCHANGED <<at, up, rows, changes>>

-----------------------------------------------------------------------------
ListedVmids(p) == {Vmid[m] : m \in p.list}

(* Every VMID the listing lacks, whatever calls failed. *)
StaleUnguarded(p) == IF p.list = {} THEN {} ELSE Vmids \ ListedVmids(p)

(* The VMIDs whose row of this host goes: none when the listing is empty   *)
(* or incomplete.                                                          *)
Stale(p) == IF p.list = {} \/ ~p.complete THEN {} ELSE Vmids \ ListedVmids(p)

(* The other hosts that have a row for the VMID. *)
OtherHosts(n, v) == {o \in Nodes \ {n} : rows[o][v] # NoRow}

(* Nothing was deleted, so nothing is written yet: the first guest is      *)
(* looked up, found nowhere, and asked for its addresses.                  *)
LookUp(w, v) ==
    LET p == pass[w] IN
    /\ p.todo = {}
    /\ v \in ListedVmids(p)
    /\ p.fresh = {}
    /\ \A n \in Nodes : rows[n][v] = NoRow
    /\ \A x \in Stale(p) : rows[p.host][x] = NoRow
    /\ pass' = [pass EXCEPT ![w].fresh = {v}]
    /\ UNCHANGED <<at, up, rows, changes>>

(* Only the type is compared. *)
ReusedByType(old, m, mac, comparesMac) == old # NoRow /\ old.type # Type[m]

(* A VMID used again: the type changed, or in the scheduled pass the       *)
(* address did, both being known.                                          *)
Reused(old, m, mac, comparesMac) ==
    /\ old # NoRow
    /\ \/ old.type # Type[m]
       \/ comparesMac /\ mac # None /\ old.mac # None /\ mac # old.mac

(* A new row, or the one there brought up to date; clear_stale_data drops  *)
(* the results of scans.  A takeover is blind when the pass compares no    *)
(* addresses, cannot read the new one, or has an old one on file.          *)
Written(old, m, mac, comparesMac) ==
    [type |-> Type[m],
     mac |-> IF mac # None THEN mac ELSE old.mac,
     seen |-> m,
     data |-> IF Reused(old, m, mac, comparesMac) THEN None ELSE old.data,
     raced |-> old.raced,
     blind |-> old.blind \/ (/\ old # NoRow
                             /\ old.seen # m
                             /\ ~comparesMac \/ mac = None \/ old.mac # old.seen)]

(* The rows of a VMID after the pass: this host's row is written, or one   *)
(* another host has is taken over if the machine runs here, or, none being *)
(* found, a row is added.                                                  *)
Placed(p, v, known, comparesMac) ==
    LET here == {m \in p.list : Vmid[m] = v}
        m == CHOOSE x \in here : TRUE
        mac == IF m \in known THEN m ELSE None
        o == CHOOSE x \in OtherHosts(p.host, v) : TRUE
        column == [h \in Nodes |-> rows[h][v]]
        added == [Written(NoRow, m, mac, comparesMac) EXCEPT !.raced = OtherHosts(p.host, v) # {}]
    IN  IF here = {} THEN [column EXCEPT ![p.host] = IF v \in Stale(p) /\ p.fresh = {} THEN NoRow ELSE @]
        ELSE IF rows[p.host][v] # NoRow THEN [column EXCEPT ![p.host] = Written(@, m, mac, comparesMac)]
        ELSE IF OtherHosts(p.host, v) = {} \/ v \in p.fresh THEN [column EXCEPT ![p.host] = added]
        ELSE IF m \in p.running
             THEN [column EXCEPT ![p.host] = Written(column[o], m, mac, comparesMac), ![o] = NoRow]
        ELSE column

(* The transaction of a pass.  get_guest_mac may not find an address.  A   *)
(* second row of the host for a VMID is turned down by the table.          *)
Commit(w, by, comparesMac) ==
    /\ pass[w].by = by
    /\ pass[w].todo = {}
    /\ \A v \in pass[w].fresh : rows[pass[w].host][v] = NoRow
    /\ \E known \in SUBSET pass[w].list :
          rows' = [h \in Nodes |-> [v \in Vmids |-> Placed(pass[w], v, known, comparesMac)[h]]]
    /\ pass' = [pass EXCEPT ![w] = NoPass]
    /\ UNCHANGED <<at, up, changes>>

Discover(w) == Commit(w, "discover", FALSE)
DiscoverAll(w) == Commit(w, "discover_all", FALSE)
RunDiscovery(w) == Commit(w, "scheduled", TRUE)

(* A pass whose transaction, or a call after the listing, raises. *)
Fails(w) ==
    /\ pass[w] # NoPass
    /\ pass' = [pass EXCEPT ![w] = NoPass]
    /\ UNCHANGED <<at, up, rows, changes>>

(* A scan of the guest, at the address the pass found (GuestPackages). *)
Scan(n, v) ==
    /\ rows[n][v].seen \in up
    /\ rows' = [rows EXCEPT ![n][v].data = rows[n][v].seen, ![n][v].blind = FALSE]
    /\ UNCHANGED <<at, up, pass, changes>>

Next ==
    \/ \E m \in Machines : Destroy(m) \/ Power(m) \/ \E n \in Nodes : Create(m, n) \/ Migrate(m, n)
    \/ \E n \in Nodes : \/ \E w \in Requests : List(w, n, "discover") \/ List(w, n, "discover_all")
                        \/ \E w \in Crons : List(w, n, "scheduled")
    \/ \E w \in Workers : Discover(w) \/ DiscoverAll(w) \/ RunDiscovery(w) \/ Fails(w)
    \/ \E w \in Workers, n \in Nodes : AskNode(w, n)
    \/ \E w \in Workers, v \in Vmids : LookUp(w, v)
    \/ \E n \in Nodes, v \in Vmids : Scan(n, v)

Spec == Init /\ [][Next]_vars

-----------------------------------------------------------------------------
(* "Discovery must never mass-delete guests" (tests/test_discovery_safety, *)
(* 1-15): whatever calls failed, no machine that stayed where it was while *)
(* the nodes were listed loses its row.  One that moves from a node not    *)
(* yet asked to one that was is missed by a complete listing, and does     *)
(* (get_all_guests, 190-211).                                              *)
PrunedWasGone ==
    [][\A n \in Nodes, v \in Vmids :
          (rows[n][v] # NoRow /\ \A o \in Nodes : rows'[o][v] = NoRow) =>
              \E w \in Workers : /\ pass[w].host = n /\ pass'[w] = NoPass
                                 /\ \A m \in pass[w].there : Vmid[m] # v]_vars

(* Two hosts have rows for one VMID only where two passes looked it up     *)
(* before either had written it: migrations, replicas, failed listings and *)
(* passes that overlap in any other way do not split a guest (discover,    *)
(* 391-404; _run_discovery, 660-668).                                      *)
OneRowPerVmid ==
    \A v \in Vmids :
        \/ Cardinality({n \in Nodes : rows[n][v] # NoRow}) <= 1
        \/ \E n \in Nodes : rows[n][v].raced

(* The results a row holds are of the machine it stands for, unless one of *)
(* the same type took it over in a pass that compares no addresses or had  *)
(* none to compare (_run_discovery, 691-708; _handle_vmid_reuse).          *)
ResultsOwn ==
    \A n \in Nodes, v \in Vmids :
        LET row == rows[n][v] IN
        row.data \in {None, row.seen} \/ (row.blind /\ Type[row.data] = Type[row.seen])
=============================================================================
