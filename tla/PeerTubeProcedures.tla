------------------------ MODULE PeerTubeProcedures -------------------------
(***************************************************************************)
(* apps/peertube.py: PeerTube on one guest, its PostgreSQL database on the *)
(* guest of the same or of another machine.  "release" is that             *)
(* peertube-latest points at a release, "new" that it is the newest one,   *)
(* "db guest" that a database guest is configured, "db record" that it     *)
(* still exists, "dumped" that this run dumped the database.               *)
(***************************************************************************)
EXTENDS Steps

\* check_peertube_release: a tag that is not of the expected form is refused.
PeerTubeReleaseCheck == ReleaseCheck

\* detect_peertube_version and the page's route
PeerTubeDetect == Detect({"dir", "release"}) \o ForgetUnfound

\* A command on the database guest, over a connection of its own.
DbConnect == Tool({"db credential", "db reachable"}, {}, {"db link"})
DbCmd(need, del, add) == Tool(need \cup {"db link"}, del, add)
OnDatabase(steps) == When({"db guest", "db record", "db address"}, steps)

\* guests_to_protect: the application guest, then the database guest if its
\* record exists; each must be protected before the next.
PeerTubeProtection ==
    Protection \o Unless({"skip"}, When({"db guest", "db record"},
                        << Tool({"db proxmox", "db proxmox host"}, {"protected"}, {"protected"}) >>))

\* The opening of an install: an instance URL with a valid host name and a
\* database password that can be decrypted.
PeerTubeInstallOpening ==
    << Tool({"configured"}, {}, {}), Tool({"guest"}, {}, {}),
       Tool({"url"}, {}, {}), Tool({"safe"}, {}, {}), Tool({"db password"}, {}, {}),
       Tool({"credential"}, {}, {}), Tool({"address"}, {}, {}) >>

\* Steps 2 and 3: packages, Redis, Node.js and corepack; a Redis that does not
\* start only warns.
PeerTubePrerequisites ==
    << Cmd({"net"}, {}, {"tools"}), Cmd({"net"}, {}, {"redis"}) >>
    \o Missing({"node"}, << Cmd({"net"}, {}, {"node"}), See({"node"}) >>)
    \o << Else({"no corepack"}, Cmd({"corepack"}, {}, {"pnpm"})) >>
    \o When({"no corepack"}, << Cmd({"net"}, {}, {"corepack", "pnpm"}) >>)
    \o << Warn(Cmd({}, {}, {"redis up"})) >>

\* Step 4: the role and the database, each created when it does not exist,
\* then the extensions, whose failures only warn.
PeerTubeDatabase ==
    OnDatabase(<< DbConnect, DbCmd({"postgres"}, {}, {"role"}),
                  DbCmd({"postgres"}, {}, {"database"}),
                  Warn(DbCmd({"postgres"}, {}, {"extensions"})) >>)

\* Steps 5 to 7: user, directories, and the release, which must not be there
\* yet.  The tag asked for is the one recorded by the latest release check.
PeerTubeRelease ==
    Missing({"user"}, << Cmd({}, {}, {"user"}) >>)
    \o << Cmd({"user"}, {}, {"dir"}), Refuse("release"),
          Warn(Tool({"net"}, {}, {"latest"})), Tool({"latest", "tag"}, {}, {}),
          Cmd({"dir", "net"}, {}, {"archive"}), Cmd({"archive"}, {"archive"}, {"unpacked"}),
          Cmd({"unpacked"}, {}, {"release", "new"}) >>

\* Steps 8 to 12: dependencies, default.yaml, production.yaml, TCP tuning, the
\* unit that comes with the release, start, is-active.
PeerTubeService ==
    << Cmd({"release", "pnpm", "net"}, {}, {"deps"}), Warn(Cmd({"release"}, {}, {"defaults"})),
       Cmd({}, {}, {"config"}), Warn(Cmd({"release"}, {}, {"tcp"})),
       Cmd({"release"}, {}, {"unit"}),
       Cmd({"unit", "deps", "config", "redis", "database"}, {}, {"up", "live"}), See({"up"}) >>

\* Step 13: the version is the tag's, not one read back from the guest.
PeerTubeInstall ==
    PeerTubeInstallOpening \o PeerTubeProtection \o << Connect >>
    \o PeerTubePrerequisites \o PeerTubeDatabase \o << Connect >>
    \o PeerTubeRelease \o PeerTubeService
    \o << Note({"offer", "behind"}, {"version", "current"}), Note({}, {"installed"}) >>

PeerTubeConfigChecks ==
    ConfigChecks(<< Check(Tool({"configured"}, {}, {})) >>
                 \o When({"backup"}, << Check(Tool({"storage"}, {}, {})) >>)
                 \o << Check(Tool({"safe"}, {}, {})) >>)

\* Section B, second half: the database guest must exist and run.
PeerTubeDatabaseGuestChecks ==
    When({"db guest"}, << Check(Tool({"db record"}, {}, {})) >>
         \o When({"db record", "db proxmox host"}, << Check(Tool({"db proxmox"}, {}, {})) >>))

\* Section C, application guest: the layout upgrade.sh relies on.
PeerTubeGuestChecks ==
    << Check(Tool({"credential"}, {}, {})), Check(Tool({"address"}, {}, {})), Check(Connect),
       Check(See({"dir"})), Check(See({"release"})), Check(See({"script"})) >>

\* Section C, database guest: connection, PostgreSQL and pg_dump.
PeerTubeDatabaseChecks ==
    OnDatabase(<< Check(DbConnect), Check(DbCmd({"postgres"}, {}, {})),
                  Check(DbCmd({"pg_dump"}, {}, {})) >>)

PeerTubePreflight ==
    PeerTubeConfigChecks \o ProxmoxChecks \o PeerTubeDatabaseGuestChecks
    \o PeerTubeGuestChecks \o PeerTubeDatabaseChecks \o Verdict

\* Step 2 of an upgrade: pg_dump on the database guest.  Without one that
\* succeeded the run goes on only where protection is skipped, or where there
\* is no database guest to ask.
PeerTubeDump ==
    OnDatabase(<< Else({"dump failed"}, DbConnect),
                  Else({"dump failed"}, DbCmd({"postgres", "pg_dump", "database"}, {}, {"dumped"})) >>
               \o Unless({"skip"}, << Refuse("dump failed") >>))

\* Step 3: upgrade.sh of the running release downloads the newest one, installs
\* it and moves the link; step 4 restarts the service, which migrates the
\* database.  [upgrade.sh is external]
PeerTubeScript == << Cmd({"script", "dir", "net", "pnpm"}, {"version"}, {"release", "new"}) >>

PeerTubeRestart ==
    << Else({"restart warned"},
            Cmd({"unit"}, {"up", "live", "restart warned"}, {"up", "live"})) >>
    \o EnsureUp(Cmd({"unit"}, {}, {"up", "live"})) \o When({"not running"}, << Give >>)

\* Steps 6 and 7: the link or package.json tells the version; prune the store.
PeerTubeUpgrade ==
    Opening \o PeerTubeProtection \o PeerTubeDump \o << Connect >> \o PeerTubeScript
    \o PeerTubeRestart \o RecordVersion({"release"}) \o << Warn(Cmd({"pnpm"}, {"store"}, {})) >>
=============================================================================
