# MCAT in TLA+

MCAT (the *mstdn.ca Proxmox tool*) is a Flask application that administers a
Proxmox cluster and the services on it: it scans guests and hosts for package
updates and applies them, upgrades Mastodon, Ghost, PeerTube, Elk, Jitsi and
their companions over SSH, gives operators shared terminals in the browser, and
guards all of that with sessions, API tokens and roles. This directory holds
TLA+ modules of its stateful parts, the TLC configurations that check them, and
TLAPS proofs of the properties that matter most.

Paths below are relative to `src/`. `PROJECT.json` names, for every definition
that models code, the lines it stands for.

## How the program runs

One gunicorn worker serves everything, with gevent by default
(`scripts/setup.sh`), with threads where gevent is missing (the code falls back
to `threading.Thread`, and several comments mention gthread). APScheduler runs
its jobs in a thread pool of the same process, each job at most once at a time
(`core/scheduler.py`, 1636-1643). Long work (upgrades, package updates, scans)
runs in background threads that handlers start, and handlers, workers and
scheduler share module-level dictionaries: there is no queue and no second
process. The database is SQLite unless configured otherwise. So the hard
behaviours are those of shared memory: a check and a use of a slot with
something in between, a lock that is taken by one thread and released by
another, a row read before a long remote command and written after it, an error
between two steps that belong together, and a remote command whose answer is
lost.

With gevent, code is interrupted only where it does I/O or waits; with threads,
anywhere. UpgradeJobs (`setting`), CollaborationHub and TerminalSession (`worker`)
choose one of the two when a behaviour begins, HostUpdates takes the constant
`Preemptive`; all are checked in both modes.

## Inventory

| component | state | operations | hard part | module |
|---|---|---|---|---|
| Application upgrades: `routes/<app>.py`, `apps/utils.py`, `core/scheduler.py` release checks | per-application lock, a tracker (`running`, log, ...) per kind of job, stored record of the last upgrade | start a job of some kind, background function, scheduled auto-upgrade, restart | handlers that must refuse one another; lock handed to a thread; record stored after the lock is free | AppRoutes, UpgradeJobs, OneAtATime |
| Mastodon upgrade: `apps/mastodon.py` | the guests' working tree, stash, `.env.production`, schema, services | 20 remote steps, abort, clean-up after a lost connection, second guest | any command may fail, half-succeed or lose its answer | MastodonUpgrade |
| Terminal sessions: `routes/terminal.py`, `core/collaboration.py` | registry, history, a queue per subscriber | open, join, read, broadcast, end, revoke | join against broadcast and end; full queues | TerminalSession |
| Collaboration hub: `core/collaboration.py`, event stream in `routes/api.py` | a queue, tags and page per user | connect, disconnect, heartbeat, page change, guest event | order of lists; late disconnects; scoping to tags | CollaborationHub |
| Sudo gate: `routes/terminal.py` | last prompt, recent injections | prompt, inject | windows' edges, one injection per prompt | SudoGate |
| Ad-hoc credentials: `core/adhoc_credentials.py` | token -> credential with expiry | store, take, prune | replays, the cap | AdhocCredentials |
| Web sessions: `routes/auth.py`, `auth/*.py`, `models.py` | session, remember cookie, session marker, password epoch | login, logout, local bypass, password change, deactivation | many browsers, changes within one second | Account, WebSessions |
| API tokens: `auth/jwt_auth.py`, `routes/api_v1.py` | token pairs, revocation rows | issue, refresh, logout, prune | pruning against expiry, epochs | Account, ApiTokens |
| Login limiter: `routes/auth.py` | failures per client | check, record, prune, evict | trimming and eviction at the cap | LoginLimiter |
| Guest updates: `routes/api.py` | a job slot per guest, one bulk slot | apply, apply all, cancel, worker, orchestrator | slots replaced while a worker runs; agent fall-back | GuestJobs |
| Host updates: `routes/hosts.py` | a record per host, one bulk slot | the same for hosts | records shared by single and bulk runs | HostUpdates |
| Package rows: `core/scanner.py`, `core/scheduler.py`, `routes/api.py` | `update_packages`, guest status | scan, maintenance-window update, user's update | ORM rows cached across a long command | GuestPackages |
| Application procedures: `apps/elk.py`, `ghost.py`, `peertube.py`, `harmony.py`, `jitsi.py`, `jibri.py`, `exporters.py`, `prometheus_app.py`, `unpoller.py` | what is installed, configured, running on a guest; the stored version and offer | install, upgrade, configure, remove; pre-flight, release check, detection | a command that fails half-way, a lost connection, the second attempt | Steps, GuestProcedure, one table module per application |
| Scans: `routes/api.py`, `core/scanner.py` | a job slot per guest, one bulk slot, a lock per guest | single, bulk and scheduled scan | three kinds of thread over one guest; a query that raises | ScanJobs |
| Proxmox tasks: `routes/api.py`, `routes/guests.py`, `core/ai_tools.py` | a job per task key, a poller thread per start | clone, migrate, snapshot, roll back, back up, restore, cancel | pollers that meet a job they did not start; nodes that never answer | ProxmoxTasks |
| Discovery: `core/scheduler.py`, `routes/hosts.py`, `clients/proxmox_api.py` | the guests table | scheduled pass, pass of one host, pass of all | incomplete listings, reused VMIDs, migrations, passes that overlap | Discovery |
| Moderation watch: `core/moderation_watch.py`, `routes/moderation.py`, `core/scheduler.py` | watches with cursors, alerts, welcomes, back-off, pace of the job | poll (scheduled or by button), watch, unwatch, welcome, save settings | two polls at once, crash between commit and message, a page that holds too little | ModerationWatch |

Interactions: the scheduler and the routes share the upgrade locks (UpgradeJobs)
and the package rows (GuestPackages); terminals and the event stream share the
collaboration module and the revocation rules of the account; the browser and
the API share one account and its password epoch (Account is extended by both
WebSessions and ApiTokens). UpgradeJobs treats the upgrade itself as one step
that may succeed, fail or raise; MastodonUpgrade opens that step for Mastodon and
the procedure modules for the other applications. Scans meet updates in the
package rows (GuestPackages) and discovery in the guests table; ScanJobs takes the
rows for granted and has the threads and slots.

Not modelled, with the reason, in `PROJECT.json` under `components`; the parts
still to come are in *Plan* below.

## Modules and the code

**AppRoutes** is data: for each application blueprint, which kinds of job there
are, which trackers the handler of each kind looks at before it starts, whether
it takes the upgrade lock, and where its log and record go.
**UpgradeJobs** is the machine over that data. `lock[a]` is the lock of
`apps/utils.py`, `job[a][k]` the tracker dictionary of the blueprint, `last[a]`
the settings of the last upgrade, `task[t]` a thread with the step it is at. A
handler checks, takes the lock, resets the tracker and launches; the thread runs,
stores, and releases in its `finally`. The scheduler's path takes the lock with
the context manager, stores after it, and sets no tracker. A record is two commits,
the status and then the log (`models.py`, 831-848), and either may raise or be the last
thing before a restart. `Restart` empties the
memory. **OneAtATime** is what the lock promises, with no lock in it: pairs of a
worker and the host it upgrades, a worker entering only a host where nobody is.
UpgradeJobs implements it, the pairs being the threads that are upgrading an
application whose handler and release check both take the lock.

**MastodonUpgrade** has a program counter over the steps of
`run_mastodon_upgrade` and a record for each application guest: the code it has
checked out, the one it serves, whether it is built and migrated, what the
database address is, what is in the working tree (conflicts included) and in the stash. Each step is a
remote command that does its work, exits non-zero, half-succeeds, or does its
work and loses the connection, as far as `faults`, chosen at the start, allows;
`_abort`, the clean-up
in the outer `except`, and the second guest's synchronisation are separate
control paths. Users edit files on the guest between runs (`EditLocally`), which
is what the stash is for.

**TerminalSession** follows one session: the operator's handler (subscribe,
start, loop, clean up, close), the reader that appends to the bounded history
and puts into each queue, the followers' handlers, the sender of every socket,
the watchdogs that look for revoked accounts, and the registry. Output is
numbered chunks, which is what "misses one" and "sees one twice" need; what a client
has seen is the first and the last number and whether one was missing between them.
**CollaborationHub** has users, event streams and bounded queues; with
threads a presence list is built in one step and put in another.
**SudoGate** and **AdhocCredentials** are small clocked stores; time is a
counter and the windows are constants. The gate's list of recent injections is the
set of those injections' numbers.

**Account** is the user's row: password generation, `credential_epoch` in whole
seconds, active flag, and whether the password must be changed first. **WebSessions** adds browsers with a session, a remember
cookie and the markers the code puts in them, one browser being on the trusted
network. **ApiTokens** adds numbered token pairs with their epoch, expiry and
the revocation rows that the scheduler prunes. History variables say which
password a session or token goes back to; no guard reads them.
**LoginLimiter** keeps time stamps per client with the trimming and eviction of
the code; a bucket is a set of stamps, numbered where two fall into one tick.

**GuestJobs** and **HostUpdates** model each thread with a program counter. A
job is an object with an identity: the slot may be replaced while the old job is
still referred to, which is where the bulk updates' trouble comes from. Objects
nobody refers to are removed from the state, as Python collects them; `MaxJobs`
is never reached. **GuestPackages** models rows with ids, the ids SQLite reuses,
the copies a session keeps until it commits, and the columns the session writes
only when they changed.

**Steps** has the shapes the application procedures are made of: a command that
must succeed, one that only warns, a check, a protection point, a record of a
version. **ElkProcedures**, **GhostProcedures**, **PeerTubeProcedures**,
**HarmonyProcedures**, **JitsiProcedures**, **JibriProcedures**,
**ExporterProcedures** and **PrometheusProcedures** (Prometheus and unpoller) are
tables of such steps, one row per command of the `run_` functions, in their order,
with the facts a row needs, sets and clears. **GuestProcedure** is the machine
that carries a table out: a command fails or times out with none, half or all of
its effect done, the connection drops, the process ends, and the operator starts
the procedure again. A configuration file is a fact (it points here, it is
complete), never text.

**ScanJobs** has the threads of single, bulk and scheduled scans, the slots they
show their progress in and the lock of each guest. **ProxmoxTasks** has the task of
the node, the job a key refers to and the poller threads; a poller looks its job up
by the key, after a second start may have replaced it. **Discovery** has the
machines of the nodes and the passes, each of which reads, decides and commits at
different moments; its listing is put together node after node, with calls that fail,
while machines come, go and move.

**ModerationWatch** has both threads that may run `run_watch_poll`, with a step
between any two commits and requests; posts are numbered, and sign-ups ordered, as
the cursors need. The instance (posts, sign-ups, deletions, direct messages and their
idempotency keys) is external. History variables remember what was raised, told,
sent again on purpose or passed over for a known reason; no guard reads them.

The **MC** modules make the instances TLC checks (MastodonUpgrade is checked as it
is): a variable chosen in the
initial state (`mode`, `chosen`, `store`) says which instance a behaviour belongs
to, and the next-state relation is that of the component with the constants of the
instance, restricted to the threads or objects that take part. MCUpgradeJobs,
MCCollaboration, MCBackground, MCAccount and MCModeration extend the component whose
theorems they test, so that the invariants TLC checks are the very definitions that
are proved; MCTerminal has the terminal alone, for liveness; MCBackground adds the Proxmox tasks with variables of their own and
MCModeration further instances of the watch. The properties that are stated in an MC
module say for which instances a property of the component holds. One MC module has
several components side by side, with one of them moving, and states the assumptions
on their constants: MCStores (sudo gate, credentials, limiter, package rows,
discovery), MCUpdateJobs (guests, hosts), MCBackground (scans, Proxmox tasks),
MCCollaboration (hub, terminal), MCAccount (browsers, tokens). These share no state
except the kind of worker and the account's row, of which browsers and tokens each
model every change. MCProcedures has one goal per procedure: the
states a guest may start from, what the procedure promises, and, by name, what it is
excused from.

## Runs

| run | instances | what it checks |
|---|---|---|
| upgrade | every application with gevent; Mastodon, PeerTube and Harmony with database faults and with threads (the `setting`) | UpgradesSerialized everywhere (where both paths take the lock, the system implements OneAtATime); RefusalsWork, TrackersTruthful, RecordsAdvance (neither the stored status nor the log gives way to an older run's, and a log is only put beside the status of its own run) and JobsSettle (locks and trackers are released) in the settings their definitions name |
| upgrade_prometheus | Prometheus | *violation* of UpgradesExclusive: neither path takes the lock |
| mastodon | three sets of faults: failures, half-done commands, lost connections; clean failures with conflicts, a failed checkout and a restart that fails unnoticed; everything but the failed checkout | ServesThroughPool, CodeFitsSchema, OutcomeHonest, LocalChangesKept, ProtectedBeforeChange, RunsEnd; each says which faults it is for |
| collaboration | hub with gevent and two tabs, and with concurrent pushes; terminal with gevent and overflowing queues, and with threads | NewestKept, ListsConverge, ScopeKept, StreamSound |
| terminal_live | gevent: one follower, with full queues or revoked accounts; two followers, one of them revocable; a set-up that may fail | NobodyLingers (a session whose operator left is forgotten, unless stranded; revoked accounts lose the terminal) |
| account | two browsers, one on the trusted network; four token pairs | SignedOutByPassword, LogoutLasts, TokensDieWithPassword, SpentStaysSpent |
| stores | sudo gate; one-off credentials; login limiter; package rows with scans or with the maintenance window; discovery with each kind of pass, with passes that overlap, and with machines that move while one pass lists the nodes | LimitsKept, CredentialsKept, PackagesSound, GuestsSound, PrunedWasGone |
| update_jobs | guests and hosts: single; bulk; one of each; database faults (a single beside a bulk update, a bulk update of two guests); threads | UpdatesSound, CancelHeeded (after a cancellation nothing is started over SSH or recorded, and at most one command through the agent), JobsSettle |
| background | scans; scans with database faults; Proxmox tasks | ScansSound, OutcomeTrue, WorkEnds |
| moderation | polls that overlap; a queue longer than a batch; sign-ups and welcomes, with answers that are lost; first polls ever; silent logins, whose alerts are deleted by age | MessagesOnce, NothingPassedOver, PollsProgress |
| procedures | thirty-two procedures, each from every guest that lacks at most one thing it should have | SuccessHonest (a reported success keeps its promise), ProtectedBeforeChange, PreflightPredicts (an all-clear means the run is not refused), RecordsHonest (stored versions and offers), GuestUnharmed, RetriesSucceed |

Every property has a variant of a definition of the model (a dropped guard, a
forgotten reset, a swapped order) that violates it; the variants stand before the
definitions they change and are listed in `PROJECT.json`.

### Bounds, and why they are enough

* UpgradeJobs: two threads and two runs of one application; blueprints share
  neither trackers nor locks. An overlap needs two threads, an older record two runs.
* MastodonUpgrade: the three sets of faults of the table, between which every fault
  meets every property that holds of it; three runs, so that a run can start from what a failed one
  left behind and a third from what the second made of that.
* TerminalSession: the history holds two chunks, the queues two messages, and three
  chunks are produced, so both overflow; with threads `ThreadChunks` lets one chunk
  be produced, which a follower can miss or see twice. One follower meets the
  operator's stream in every phase, and the set-up may fail. In terminal_live there are
  two followers: with both, nothing is printed and queues are drained at once, since
  who is registered and subscribed does not depend on them.
* CollaborationHub: two users, one covered by the tags and one not, and two tabs
  of one of them, who may also go quiet. The two pushing requests are interchangeable: symmetry.
* WebSessions and ApiTokens: two clock ticks or more, three or four passwords,
  so that two changes fall into one second and in two seconds; four token pairs
  let a refreshed token's successor be refreshed again.
* GuestJobs and HostUpdates: two guests (three hosts, so that nodes and backup
  servers are both there), two requests, two bulk requests, or one of each; with
  database faults one of each on one guest, and one bulk request for two.
* GuestPackages: two packages, ids up to three, so ids are reused and rows of
  both packages meet. The bound on ids may stop the scans.
* ScanJobs: a single, a scheduled and two bulk scans over two guests, so that all
  kinds wait for one lock and a second bulk scan is asked for. ProxmoxTasks: two
  starts of one key, a deadline of two rounds and two status errors.
* Discovery: two nodes, two VMIDs and three changes of the machines, enough for a
  VMID to move, be destroyed and be given again between two reads of a pass. Only in the
  mode `listing` do machines change between the calls of one listing; passes do not
  overlap there.
* Procedures: two faults in a behaviour, so that the retry after a failure may fail
  too; one missing fact at a time, since every check looks for one. Elk's local edits may
  clash with what is pulled.
* ModerationWatch: three accounts, pages of one or two entries and batches of one, so
  that pages and batches overflow; three posts; one or two faults.
* SudoGate, AdhocCredentials, LoginLimiter: windows of two to four ticks and
  clocks that go two windows far; entries before, at and after every edge occur.

Every invariant and action property except those of the procedures is also proved
without these bounds (*Proofs*).

`CHECK_DEADLOCK FALSE` is set where the system may stop: a bound on runs, ids or
time is reached, a session is over, a procedure is done, no user acts, or
(update_jobs and background, with database faults) a failed handler or thread has
left a bulk slot taken.

### Limits of the results

Several properties hold only in the instances named above. Outside of them the
code does something else than a comment of the repository says; the modules show
it when the constants are changed as follows.

* `upgrade`, database faults: a handler that raises after it took the lock and
  before it started the thread leaves the lock taken until the process restarts
  (`routes/ghost.py`, 261; `apps/utils.py`, 95 has the caller release it). JobsSettle
  is therefore for a database that answers.
* `upgrade`, records: an error or a restart between the two commits of a record leaves
  the status of one run beside the log of an older one (`models.py`, 831-848), and
  RecordsAdvance says no more than that the log is never the newer. With threads a late
  automatic record may go over a newer one (`core/scheduler.py`, 247), and an install and
  an upgrade that only look at each other's trackers may overlap (`routes/peertube.py`, 268).
* `mastodon`: with the partial fault a swap of `.env.production` that stops half
  way is not undone and not announced (`apps/mastodon.py`, 1355; 1303 says `_abort`
  undoes it), so NoSilentDebt (in OutcomeHonest) is for clean failures. Nobody reads what
  `git add` and `git stash drop` return when conflicts are resolved (508-509): the log says
  that they are, while the entry, or conflicted files, stay; NoSilentDebt excepts what such
  a command left (`unread`) and nothing else. PostMigrationsOnNewCode is
  about the first guest and, like SuccessTruthful, for restarts that do not fail
  unnoticed: the second one serves the old code until it is
  synchronised, after the post-deployment migrations (1470, 1520). With a
  `checkout` fault LocalChangesKept fails, because the stash entry is dropped whatever
  `git checkout --theirs` returned (509; 484 says the local version is kept).
* `collaboration`, terminal with threads: a follower that joins during a broadcast misses a chunk or
  sees it twice (`core/collaboration.py`, 215), and one that found the session just
  before it ended is never told (`routes/terminal.py`, 709). SendersStop fails when a full queue
  drops the sentinel (659).
* `terminal_live`: when the set-up fails after two followers joined, the session stays in
  the registry (`routes/terminal.py`, 665: `follower_count` subtracts an operator who is
  already gone). NobodyLingers excepts this case (Stranded), which the run reaches.
* `collaboration`, hub with threads: an older presence list may be put last and stay until the next
  heartbeat (`core/collaboration.py`, 180). In every mode the tags are those of the moment
  the stream was opened (`routes/api.py`, 1715); ScopeKept is about these. EveryTabServed fails in every mode: a
  user has one queue, a second tab silences the first (58; `routes/api.py`, 1699
  speaks of each tab).
* `stores`: the credentials store holds one entry above its cap, because it is
  pruned before the insertion (`core/adhoc_credentials.py`, 45); NearCap holds and
  CapKept does not.
* `update_jobs`, guests: where a bulk update meets single ones, the orchestrator's clean-up
  ends whatever job is in the slot, which may be somebody else's, and a third
  request is then let in (`routes/api.py`, 791; 648 promises no duplicate run).
  RunsExclusive (in UpdatesSound) is for single or bulk updates alone. With database faults
  BulkSlotReleased fails: the commit comes between the reservation and the start of
  the thread (872; 799 says the slot is always released). A single update is lost the same
  way: `apply` reserves before it commits (657-661) and the worker loads the guest outside its
  `try` (130), so the job stays running and the guest cannot be updated again before a
  restart. JobsSettle excepts a job that no thread serves any more (Orphaned), and says that
  only single updates lose theirs so, before their worker has looked it up.
* `update_jobs`, cancellation: when SSH raises after a cancellation, the agent is tried without
  a look at it (`routes/api.py`, 239-269), and the command is launched before the first
  check (`clients/proxmox_api.py`, 361 and 379). CancelHeeded says that this is the job's
  last command and that its outcome is not recorded.
* `update_jobs`, hosts: a bulk run puts its own record in the place of a running one's,
  so StatusReflectsRun fails when both take part (`routes/hosts.py`, 945); and with
  threads two bulk runs may start, the check and the reservation being under two
  holds of the lock (1001; 19 says one run at a time).
* `stores`, package rows: a scan during the maintenance-window update replaces the rows the
  scheduler had loaded, whose ids SQLite may give again, so a kept-back package can be
  marked applied (`core/scanner.py`, 2749; 2732 says it stays pending).
  UpToDateIsClean fails with two scans: the second one compares with a status loaded
  before it waited for the lock (2678). AppliedWasInstalled fails for the update a
  user starts, which marks every pending row when apt exits with 0
  (`routes/api.py`, 215; `core/scanner.py`, 2730 says that is no proof).

* `stores`, discovery: a guest that moved from one host to another is deleted with its
  credential and history when the old host's pass comes first, and made anew by the new
  host's; hosts that are not one cluster and use one VMID take the row from each other;
  the manual pass stores the MAC address without comparing it, so the scheduled one
  cannot notice a machine rebuilt with the same type; two passes that look a VMID up
  before either writes give two rows; and a row may be deleted by a listing older than
  the machine's return. A listing without a failed call is not a snapshot either:
  `get_all_guests` asks node after node (`clients/proxmox_api.py`, 190-211), so a machine
  that moves to a node already asked is missed and its row deleted. GuestsSound and
  PrunedWasGone except these by name; PrunedWasGone is about machines that stay where they
  are while the nodes are asked. A VMID is taken not to be given again between two calls of
  one listing.
* `background`: `_run_bulk_scan` never rolls back, so after one failed write the next
  guest's query raises, outside the `try`, and the slot stays taken until a restart
  (`routes/api.py`, 488; `scan_all_guests` does roll back). A single scan whose commit
  raises stays shown as running (440). Two starts of one Proxmox key before the first
  poller looks its job up leave two pollers on the second job and none on the first's
  task; what the job shows is still its own task's end. `cancel_requested` is set even
  if the call to the node fails.
* `procedures`: a failed `systemctl restart` only warns, so an upgrade may report
  success while the old code runs (`apps/elk.py`, 1058, and the same in Ghost,
  PeerTube and Jitsi); the goals excuse exactly the runs that logged the warning. Some
  second attempts are refused over what the first one left, and their goals say so:
  Elk's clone (`apps/elk.py`, 693), Elk's upgrade after a conflicting `git stash pop` (894-898
  and 987-990 only warn; the unmerged files make the `git stash` of every later run fail,
  967-976), PeerTube's symbolic link (`apps/peertube.py`, 642),
  Harmony's release after a failed verification, and the installs of exporters,
  Prometheus and unpoller while the binary runs. Ghost's aborts log that nothing was
  modified although Node or file modes may have been. Configuration files are written
  with `tee`, not atomically. A process that crashes right after `systemctl start`
  counts as installed. An upgrade of Prometheus or unpoller leaves the service stopped
  when the copy fails. Installing Prometheus overwrites a live `prometheus.yml`. The
  uninstall of an exporter ignores a failed stop or removal. PeerTube's dump is skipped
  when the record of its database guest is gone. Detection resets the stored version on
  any SSH failure.
* `moderation`: a null cursor means both that nobody looked yet and that there was no
  post yet, so the first post of an account that was watched before it posted, and
  of every account that is watched automatically, sets the cursor and raises no alert
  (`core/moderation_watch.py`, 585; `models.py`, 910 says that new posts trigger one).
  Of more than forty posts, or two pages of accounts, between two polls the older ones are
  passed over. NothingPassedOver excepts both through `missed` and `overlooked`. The poll
  of the button has no bot, so the accounts it finds are never welcomed; failed welcomes
  and those over the cap are not tried again. A welcome that a moderator repeats within
  an hour is recorded and not sent, the idempotency key being the same. A silent login has no cursor: once its alert is deleted by age
  (502-514; 90 days after it was acknowledged, or after the setting of 30 days and more)
  while the account is still within the scan's window of up to 365 days
  (`routes/moderation.py`, 1647), it is alerted again, although 11-13 say once; AlertsOnce is
  about alerts that are kept. A welcome that was delivered although the request timed out
  (`core/mastodon_admin.py`, 291-293), or whose record the database refused, has no row and
  may be sent again when the instance has forgotten the key; WelcomedOnce excepts these
  accounts (`again`). A watch
  that is removed during a poll ends that poll. Saving the settings resets the interval
  and not `_watch_stretch`.

### Fairness

Liveness is checked under weak fairness of the steps of a thread that was
started, and of nothing else: nobody has to click, connect, leave or be revoked,
no command has to succeed. A started thread goes on because every remote command
and every notification carries a timeout (120 s to 1800 s in the package
workers), the SSH layer raises on a dead connection, and the thread library
schedules every runnable thread. The threads of the scans are strongly fair: they
wait for the lock of a guest, and both gevent and the interpreter's locks wake
waiters in the order they came. In ModerationWatch the scheduler starts the next poll
(the job is an interval trigger and nothing else stops it) and a back-off ends with
the clock; in GuestProcedure an operator is assumed who tries again. In TerminalSession the watchdogs are fair once
an account is revoked, because they poll.

## Proofs

TLAPS checks every proof; nothing is assumed beyond the named assumptions on the
constants: types, finite sets, names that differ, and for UpgradeJobs what AppRoutes
makes true of every blueprint (only upgrades take the lock; a handler looks at its
own tracker or the lock keeps a second job out), which TLC evaluates on that table.
Windows, caps and buffers are positive, a subscriber's queue holds at least two
messages (the code's holds 500), and there are more numbers for job objects than
guests and threads can refer to (Python never runs out); no other size is assumed. A
property that a run checks and a theorem states is one definition; each proof is an
induction over the actions, on an invariant that was model-checked first.

* **UpgradeJobsProofs**, for any set of applications, kinds, threads and any
  table of routes: `TypeCorrect`; `IInvHolds` - types, and LockDiscipline: the lock is
  marked taken while a thread owns it and no two threads own it (inductive together
  with the types: only the owner's step releases); `UpgradesSerializedHolds` -
  the refinement: where both paths take the lock, every step maps to a step of
  OneAtATime or to none, since a thread that is upgrading owns the lock and a start
  finds it free. `RefusalsWorkHolds`, `TrackersTruthfulHolds` and the action property
  `RecordsAdvanceHolds` are for handlers that are not interrupted. RefusalRespected
  needs that handlers are never found between two of their steps (NoSwitch), that a
  job under way has its tracker marked (JobsMarked) and has no twin (JobsSingle).
  RecordsAdvance needs RecordsOrdered: the stored log is no newer than the stored
  status, that no newer than the run of the lock's owner, which is the newest one; and
  half way through its record the status is the owner's own.
* **MastodonUpgradeProofs**, for any combination of faults, with or without a
  second guest, any number of runs: `IInvHolds`, `ServesThroughPoolHolds` and
  `ProtectedBeforeChangeHolds`. ServesThroughPool is not inductive: one has to
  know that restarts happen only at steps where the file points to pgbouncer
  (RestartsOnPool), that conflicts are resolved only when there is a stash entry
  (ResolvesAnEntry), and that the second guest is never swapped. On top of
  it: `CodeFitsSchemaHolds` from Deployed, which
  says how far the guest is at each step; `OutcomeHonestHolds` from Complete (what a
  run that is finishing has achieved) and, for commands that do their work or
  nothing, from StashOwed and EnvOwed: an entry on the stash, a conflicted file or a file
  off the pool that was not announced, nor left by a command whose exit code is not read,
  is still in the hands of a step that puts it back or announces it; `LocalChangesKeptHolds`, an action property of both guests.
* **CollaborationProofs**, for any users, streams and concurrent pushes:
  `IInvHolds`, `NewestKeptHolds`, `ScopeKeptHolds`, `ListsConvergeHolds`. What is put
  is out of the hub's hands, so ScopeKept needs that a list is redacted when it is
  built, for the user it will go to (ListsRedacted), and that an entry holds a stream of
  its own user (EntriesOwned); convergence needs that greenlets leave no push half
  done (PushesRest). `StreamSoundHolds` is about a terminal, for any followers, history,
  queues and amount of output. What a client is shown is contiguous because its view,
  what lies in its queue and what was broadcast fit together (QueuesFit): the queue
  continues the view without a gap, unless the queue once overflowed, and reaches the last
  chunk that was broadcast. That needs to be known of a client before it subscribes
  (BeforeStart), of a broadcast that threads interrupt half way (CastingSound, with
  the operator among its targets) and of the end, which with greenlets is announced in
  the step that unregisters the session (EndSound). The numbers in a queue are
  compared through the least and the greatest place of output in it, which exist by
  the library's theorem on well-founded orders.
* **AccountProofs**, for any number of browsers, passwords and ticks:
  `SessionsInvHolds`, `SignedOutByPasswordHolds`, `LogoutLastsHolds`. The invariant says
  that sessions belong to one browser each, that no marker carries an epoch of the
  future, and that whoever holds a live session or a marker of the current
  epoch has proved the current password (Vouched). The step that matters is that the
  epoch advances strictly even within one second (`models.py`, 220). For the tokens of
  the API: `TokensInvHolds`, `TokensDieWithPasswordHolds`,
  `SpentStaysSpentHolds`. The invariant relates the epoch of each token to the
  password it goes back to, and keeps a spent refresh token on record until it
  has expired, which is what makes pruning safe.
* **BackgroundProofs**, for any finite set of guests, any threads, with or without
  database faults: `IInvHolds` and `ScansSoundHolds`. ScansSound needs that a thread past
  the lock of a guest is its owner (LocksHeld), that single scans of one guest do not
  share a slot (SinglesApart), and that the bulk thread works on a guest which its page
  shows as running (ItemsTracked); the count of finished items is then the size of the
  set that is settled. `OutcomeTrueHolds` is about the Proxmox tasks, for any starts,
  errors, cancellations and deadlines: a job is made once, together with its task
  (JobsHaveTasks), a thread that has yet to look its job up will find one and one that
  has follows a job that was started (PollersFollow), and a job that a page shows as
  running is some thread's to finish (RunningIsPolled, proved along with it).
* **ModerationWatchProofs**, for any accounts, pages, batches and caps, and whatever was
  posted, watched or polled before: `IInvHolds`, `MessagesOnceHolds`,
  `NothingPassedOverHolds`. A poll reads a cursor, asks the instance, raises alerts
  one by one and writes the cursor at the end, while the other poll, the moderators and
  the clock go on. So the invariant follows what a poll has in its hands: Staged says what it
  holds at which step, Sighted and Announced that whatever lies before the cursor it
  is about to write has an alert, an excuse, or is still on its list. Deleting old
  alerts is where it could go wrong, since a deleted row no longer stops a second
  alert: PrunedBehind and Unpruned keep every deleted alert of a post or a sign-up behind
  all cursors, stored or held. Untold keeps two polls from telling of one alert, and Welcomes says that
  whoever was sent a message is recorded, is about to be while the instance remembers
  the key, or is one of those whose message left no record. Every other step only lets the shared state grow (Grows), so a poll that does
  not move keeps its part of the invariant; that is proved once (LocalKept) and used
  for every action.

* **StoresProofs**, for any users, clients, packages, machines, windows and caps.
  `CredentialsKeptHolds`: entries are tokens that were issued and not presented, so
  what is taken was typed by that user and is taken once. `LimitsKeptHolds`: the
  gate's list holds whatever was sent in the window that ends now, and what was sent
  in any window is at most the limit, by induction over the clock; each password sent took
  a prompt away. In the limiter a client whose bucket was not evicted has in
  it exactly the refused passwords of the window; eviction goes by the newest stamp,
  so LoginInv also follows the evicted. `GuestsSoundHolds` and
  `PrunedWasGoneHolds`, for one cluster and for separate hosts: a row is of its
  machine's type and its results are of its machine or were taken over unnoticed
  (RowFits); of two rows for one VMID one was added while another pass looked
  (OneUnraced); a listing without a failed call has every machine that stayed where it
  was, or will meet it on a node still to be asked (PassFits).
  `PackageRowsHold` and `PackagesSoundHolds`: no package is pending twice however
  scans and updates overlap, and, when no scan runs beside the maintenance window,
  the rows its session loaded are still of the same packages (CacheFits), so that
  what it retires is no longer upgradable.
* **UpdateJobsProofs**, for any guests, hosts, requests and bulk requests, in every
  mode of the run (where single and bulk updates meet, one of each, over one guest or
  two hosts): `UpdatesSoundHolds` and the action property
  `CancelHeededHolds`. The items of a bulk update say which guests are still on its
  list and which one is in hand (GuestItems), so the counter is the number of settled
  items (GuestCounted). Single updates are exclusive because the job in a guest's slot
  runs as long as a thread holds the guest, and no two guests share a job (SingleInv);
  that a reservation finds a job object nobody refers to is a pigeonhole argument
  (JobToSpare). For hosts the same with records in place of objects: HostInv also
  with threads and database faults, HostSingle for single updates, GreenletInv for
  bulk ones with greenlets, where the check and the reservation are one step.

Only model-checked:

* all liveness properties (JobsSettle, RunsEnd, NobodyLingers, WorkEnds, PollsProgress,
  RetriesSucceed): fairness and ENABLED are beyond the prover;
* the procedures, whose properties hold of the given tables and not of any table: a
  proof would enumerate the rows, which TLC does.

## Not modelled

Templates, browser code and views have no state of their own to check. The
remote clients (Proxmox, UniFi, IPMI, Cloudflare, Discord, the language model)
are I/O: the modules take their outcomes as choices. Cryptography is a library.
The wording of logs, prompts and messages is left out everywhere. The in-memory
locks do not survive a restart while a remote command may; the code has no rule
for that, so there is nothing to check it against. The moderation pages besides the
watch forward requests to the instance and keep nothing between them; notifications
are sent once and not retried; the jobs for Mastodon maintenance, highlights and active
users have a tracker of the kind UpgradeJobs models and nothing else to share; the
configuration backup is one transaction each way. `PROJECT.json` has the reason for
every component.

## Plan

1. OneAtATime for the slots of ScanJobs and the bulk slots of GuestJobs and HostUpdates,
   as it is for the upgrade lock.
2. The composition of UpgradeJobs with GuestProcedure for the automatic Jitsi upgrade,
   which sets no tracker and may run beside a configuration.
3. The cache of Cloudflare Access keys, the order of start-up migrations, and
   `scripts/update.sh` with its roll-back.
