-------------------------- MODULE GhostProcedures --------------------------
(***************************************************************************)
(* apps/ghost.py: the upgrade of a Ghost site with ghost-cli, and what the *)
(* tool does around it.  "new" is that the link `current' points at the    *)
(* new release, "live" that the service runs it, "perms" that ownership    *)
(* and modes are what ghost-cli accepts, "node fits" that the guest's      *)
(* Node.js satisfies the release, "meta" that .ghost-cli is readable.      *)
(***************************************************************************)
EXTENDS Steps

\* check_ghost_release
GhostReleaseCheck == ReleaseCheck

\* detect_ghost_version: .ghost-cli, `ghost version' or package.json.  The page
\* never marks Ghost as not installed.
GhostDetect == Detect({"dir"}) \o When({"not found"}, << Give >>)

GhostConfigChecks ==
    ConfigChecks(<< Check(Tool({"configured"}, {}, {})) >>
                 \o When({"backup"}, << Check(Tool({"storage"}, {}, {})) >>)
                 \o << Check(Tool({"safe"}, {}, {})) >>)

\* Section C: the directory and ghost-cli; Node.js, permissions and the state
\* of the service are only reported.
GhostGuestChecks ==
    << Check(Tool({"credential"}, {}, {})), Check(Tool({"address"}, {}, {})),
       Check(Connect), Check(See({"dir"})), Check(See({"cli"})) >>

GhostPreflight == GhostConfigChecks \o ProxmoxChecks \o GhostGuestChecks \o Verdict

\* Steps 0 and 1: configuration, then snapshot or backup.
GhostOpening == Opening \o Protection

\* The service name and the running version are read from .ghost-cli, the
\* service account from the unit; then the sudoers entry and ghost-cli itself
\* are renewed.  None of this can stop the run.
GhostTools ==
    << Warn(Cmd({}, {}, {"sudoers"})), Warn(Cmd({"net"}, {}, {"cli"})) >>

\* _fix_ghost_permissions: one sweep under a timeout on the guest.
GhostFixPermissions == Cmd({"dir"}, {}, {"perms"})

\* _stop_stale_permission_sweeps, whose exit code is not looked at.
GhostStopSweeps == Warn(Cmd({}, {"sweeps"}, {}))

\* _ensure_ghost_db_privileges: grants what migrations need, never fatal, and
\* only on a local server with an account that exists.
GhostGrant ==
    When({"local db"}, Unless({"grants"}, << Warn(Cmd({"account"}, {}, {"grants"})) >>))

\* _fetch_ghost_node_range and _ensure_node_compatible: without a range the
\* question is left to ghost-cli; otherwise `n' installs the release's major.
GhostNode ==
    << Else({"no range"}, Tool({"net"}, {}, {})) >>
    \o When({"node"}, Unless({"no range", "node fits"},
            << Cmd({"n", "net"}, {}, {"node fits"}), See({"node fits"}) >>))

\* _preflight_nginx_reload: a reload that fails under an active nginx is a stale
\* pid file, and a restart cures it.
GhostNginx ==
    When({"nginx"}, << Else({"no reload"}, See({"reloads"})) >>
         \o When({"no reload"}, << See({"nginx active"}),
                                   Cmd({}, {}, {"reloads"}), See({"reloads"}) >>))

\* `ghost update': unpacks the release and switches `current', which leaves files
\* that ghost-cli's own check rejects; then migrates the database and boots.
\* Only MySQL 8 carries out the migrations.  [ghost-cli is external]
GhostUpdate ==
    << Else({"update failed"},
            Cmd({"cli", "perms", "node fits", "net"}, {"perms", "version"}, {"new"})) >>
    \o Unless({"update failed"},
              << Else({"update failed"}, Cmd({}, {"up"}, {})),
                 Else({"update failed"}, Cmd({"mysql8"}, {}, {"up", "live"})) >>)

\* _report_ghost_state and _recover_after_failed_update: one more rollback, when
\* `current' moved away from the release that was running and nothing runs;
\* ghost-cli moves it back and starts the service.
GhostRecover ==
    When({"update failed", "meta", "new"}, Unless({"up"},
         << Warn(GhostFixPermissions),
            Warn(Cmd({"perms", "sudoers"}, {"new"}, {"rolled back"})) >>))
    \o When({"update failed", "rolled back"}, << Warn(Cmd({}, {}, {"up"})) >>)
    \o When({"update failed"}, << Give >>)

\* _check_ghost_http: a response directly and through nginx, in several attempts.
GhostHttp == << Else({"not running"}, See({"up"})) >>
             \o When({"nginx"}, << Else({"not running"}, See({"up", "nginx active"})) >>)

\* Step 2b and 3: permissions again, restart, is-active, one start; then HTTP.
GhostVerify ==
    << Warn(GhostFixPermissions),
       Else({"restart warned"}, Cmd({}, {"up", "live", "restart warned"}, {"up", "live"})) >>
    \o EnsureUp(Cmd({}, {}, {"up", "live"}))
    \o Unless({"not running"}, GhostHttp) \o When({"not running"}, << Give >>)

GhostRecordVersion == RecordVersion({"meta"})

GhostUpgrade ==
    GhostOpening \o << Connect >> \o GhostTools
    \o << GhostStopSweeps, GhostFixPermissions >>
    \o GhostGrant \o GhostNode \o GhostNginx \o GhostUpdate \o GhostRecover
    \o GhostVerify \o GhostRecordVersion
=============================================================================
