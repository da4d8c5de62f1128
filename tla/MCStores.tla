------------------------------ MODULE MCStores ------------------------------
(***************************************************************************)
(* The stores that several threads read and write, for TLC: in memory the  *)
(* sudo gate of a terminal, the one-off SSH credentials and the            *)
(* failed-login limiter; in the database a guest's package rows and the    *)
(* guests themselves.  They do not interact; a behaviour is one of the     *)
(* chosen store and the others rest.  The tables have several modes:       *)
(*   rows      two scans and a user's update; no maintenance window        *)
(*   windows   the maintenance window and a user's update; no scans        *)
(*   reuse     one pass of discovery at a time; three machines have one    *)
(*             VMID in turn                                                *)
(*   overlap   a requested pass beside the scheduled one, over two guests  *)
(*   listing   one pass at a time; machines move between its calls         *)
(*   separate  the nodes are no cluster and use the same VMID              *)
(***************************************************************************)
EXTENDS Integers, FiniteSets

CONSTANTS
    PromptWindow, RateWindow, RateLimit, GateTime,
    Users, Guests, Tokens, TTL, MaxEntries, CredentialTime,
    Clients, Window, Limit, MaxKeys, LoginTime,
    Pkgs, MaxId, Scanners,
    Nodes, Machines, Vmid, Type, Requests, Crons, MaxChanges

ASSUME GateAssumption ==
    PromptWindow \in Nat /\ RateWindow \in Nat \ {0} /\ RateLimit \in Nat \ {0} /\ GateTime \in Nat
ASSUME CredentialAssumption ==
    TTL \in Nat \ {0} /\ MaxEntries \in Nat \ {0} /\ CredentialTime \in Nat
ASSUME LimitsAssumption ==
    /\ Window \in Nat \ {0} /\ Limit \in Nat \ {0} /\ MaxKeys \in Nat /\ LoginTime \in Nat
    /\ IsFiniteSet(Clients)
ASSUME TablesAssumption ==
    /\ MaxId \in Nat /\ MaxChanges \in Nat /\ Requests \cap Crons = {}
    /\ IsFiniteSet(Pkgs) /\ "none" \notin Scanners
ASSUME MachinesAssumption ==
    /\ Type \in [Machines -> {"vm", "ct"}] /\ DOMAIN Vmid = Machines
    /\ "none" \notin Machines /\ "none" \notin Nodes

VARIABLES
    store, now,
    lastPrompt, injections, sent, prompts,
    issued, entries, tried, used,
    attempts, failures, evicted,
    outdated, packageRows, status, lock, scan, auto, job,
    at, up, rows, pass, changes

gate == <<lastPrompt, injections, sent, prompts>>
credentials == <<issued, entries, tried, used>>
logins == <<attempts, failures, evicted>>
packages == <<outdated, packageRows, status, lock, scan, auto, job>>
guests == <<at, up, rows, pass, changes>>

\* Three machines that have VMID 1 in turn, and one with VMID 2.
FourMachines == {"m1", "m2", "m3", "m4"}
FourVmids == [m1 |-> 1, m2 |-> 1, m3 |-> 1, m4 |-> 2]
FourTypes == [m1 |-> "vm", m2 |-> "vm", m3 |-> "ct", m4 |-> "ct"]

Gate == INSTANCE SudoGate WITH MaxTime <- GateTime
Credential == INSTANCE AdhocCredentials WITH MaxTime <- CredentialTime
Login == INSTANCE LoginLimiter WITH MaxTime <- LoginTime
Package == INSTANCE GuestPackages WITH rows <- packageRows, Auto <- TRUE, Manual <- TRUE
Cluster == INSTANCE Discovery WITH Clustered <- TRUE
Separate == INSTANCE Discovery WITH Clustered <- FALSE

PackageModes == {"rows", "windows"}
GuestModes == {"reuse", "overlap", "listing", "separate"}

MCInit ==
    /\ Gate!Init /\ Credential!Init /\ Login!Init /\ Cluster!Init
    /\ store \in {"gate", "credentials", "logins"} \cup PackageModes \cup GuestModes
    /\ IF store \in PackageModes THEN Package!Init
       ELSE /\ outdated = {} /\ packageRows = [i \in 1..MaxId |-> Package!Free] /\ status = "unknown"
            /\ lock = "none" /\ scan = [s \in Scanners |-> Package!NoScan]
            /\ auto = Package!NoAuto /\ job = Package!NoJob

PackageNext ==
    /\ store \in PackageModes
    /\ Package!Next
    /\ store = "rows" => auto' = Package!NoAuto
    /\ store = "windows" => \A s \in Scanners : scan'[s] = Package!NoScan

\* The machines of the mode.  In "overlap" and "listing" rows only matter for
\* who has them; in "overlap" the second machine stays as it is created and
\* only the scheduled pass asks all nodes; in the other modes passes do not
\* overlap.  Only in "listing" does anything come
\* between the calls of one pass.
GuestsOfMode ==
    /\ store = "reuse" => at'["m4"] = "none"
    /\ store = "separate" => at'["m3"] = "none" /\ at'["m4"] = "none"
    /\ store \in {"overlap", "listing"} =>
          /\ at'["m2"] = "none" /\ at'["m3"] = "none"
          /\ \A w \in Requests : pass'[w].by # "discover_all"
          /\ \A n \in Nodes, v \in Cluster!Vmids :
                rows'[n][v].data = "none" /\ rows'[n][v].mac = rows'[n][v].seen
    /\ IF store = "overlap"
       THEN /\ at["m4"] # "none" => at'["m4"] = at["m4"]
            /\ at'["m4"] # "none" => "m4" \in up'
            /\ \A w \in Requests : pass'[w].todo = {}
       ELSE /\ Cardinality({w \in Requests \cup Crons : pass'[w] # Cluster!NoPass}) <= 1
            /\ \A w \in Requests \cup Crons : pass'[w].fresh = {}
    /\ store # "listing" =>
          \A w \in Requests \cup Crons : pass[w].todo # {} => pass'[w].todo # pass[w].todo

GuestNext ==
    /\ \/ store \in {"reuse", "overlap", "listing"} /\ Cluster!Next
       \/ store = "separate" /\ Separate!Next
    /\ GuestsOfMode

MCNext ==
    /\ \/ store = "gate" /\ Gate!Next /\ UNCHANGED <<credentials, logins, packages, guests>>
       \/ store = "credentials" /\ Credential!Next /\ UNCHANGED <<gate, logins, packages, guests>>
       \/ store = "logins" /\ Login!Next /\ UNCHANGED <<gate, credentials, packages, guests>>
       \/ PackageNext /\ UNCHANGED <<now, gate, credentials, logins, guests>>
       \/ GuestNext /\ UNCHANGED <<now, gate, credentials, logins, packages>>
    /\ UNCHANGED store

MCVars == <<store, now, gate, credentials, logins, packages, guests>>
MCSpec == MCInit /\ [][MCNext]_MCVars

----------------------------------------------------------------------------
\* The stored sudo password goes out at most RateLimit times in any window of
\* RateWindow ticks and once per prompt (SudoGate.allow); a client that was not
\* evicted gets Limit wrong passwords in per window, and the dictionary of
\* clients is bounded (_check_rate_limit, _prune_failed_attempts).
LimitsKept ==
    /\ Gate!RateKept /\ Gate!OnePerPrompt
    /\ Login!FailuresBounded /\ Login!CapKept

\* One-off credentials are good for the first presentation only; they are given
\* out as they were typed, in time, and the store stays near its cap
\* (take_credentials, _prune_locked).
CredentialsKept ==
    /\ [](Credential!GivenAsIssued /\ Credential!NearCap)
    /\ Credential!FirstUseOnly

\* However scans and updates overlap there is one scan at a time and no package
\* is listed twice (core/scanner.py, scan_guest); and as long as no scan runs
\* beside it, the maintenance-window update leaves pending what is still
\* upgradable (core/scanner.py, 2730-2734).
PackagesSound ==
    /\ [](Package!TypeOK /\ Package!OneScan /\ Package!OneRowPerPackage)
    /\ [][store = "windows" /\ auto.pc = "reconcile" /\ auto' = Package!NoAuto =>
             \A i \in Package!Pending :
                 packageRows'[i].state = "applied" => packageRows[i].pkg \notin auto.seen]_MCVars

\* A VMID has one row unless two passes looked it up at once, and the scan
\* results in it are of the machine it stands for unless the takeover could not
\* be noticed (_run_discovery, discover).
GuestsSound == Cluster!TypeOK /\ Cluster!OneRowPerVmid /\ Cluster!ResultsOwn

\* A guest's row is only deleted when no machine with its VMID stayed where it was
\* while the nodes were listed, whatever calls failed; one that moves to a node
\* already asked is missed (_run_discovery, discover, discover_all; get_all_guests).
PrunedWasGone == Cluster!PrunedWasGone
=============================================================================
