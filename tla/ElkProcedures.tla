--------------------------- MODULE ElkProcedures ---------------------------
(***************************************************************************)
(* apps/elk.py: Elk, installed and upgraded over SSH with Docker Compose   *)
(* or, on a "bare" guest, with Node.js, pnpm and a systemd unit.           *)
(* "code" is the newest source in elk_dir, "live" that the running service *)
(* was built from it, "version" that elk_current_version says so.          *)
(***************************************************************************)
EXTENDS Steps

\* check_elk_release
ElkReleaseCheck == ReleaseCheck

\* detect_elk_version, and detect_version in routes/elk.py
ElkDetect == Detect({"dir"}) \o ForgetUnfound

\* The settings without the backup storage.
ElkConfigChecksNoStorage ==
    ConfigChecks(<< Check(Tool({"configured"}, {}, {})), Check(Tool({"safe"}, {}, {})) >>)

\* Section A: settings, deploy method, backup storage, shell-safe values.
ElkConfigChecks ==
    ConfigChecks(<< Check(Tool({"configured"}, {}, {})) >>
                 \o When({"backup"}, << Check(Tool({"storage"}, {}, {})) >>)
                 \o << Check(Tool({"safe"}, {}, {})) >>)

\* Section C: the connection and what the deploy method needs.  Only an
\* installed bare-metal Elk must have Node.js and corepack; git is never a
\* check.
ElkGuestChecks ==
    << Check(Tool({"credential"}, {}, {})), Check(Tool({"address"}, {}, {})),
       Check(Connect) >>
    \o When({"installed"}, << Check(See({"dir"})) >>)
    \o Unless({"bare"}, << Check(See({"docker"})), Check(See({"compose"})) >>)
    \o When({"bare", "installed"},
            << Check(See({"node"})), Check(See({"corepack"})) >>)

ElkPreflight == ElkConfigChecks \o ProxmoxChecks \o ElkGuestChecks \o Verdict

\* _run_protection
ElkProtection == Protection

\* Step 2, bare-metal: git, Node.js, corepack and the system user, each
\* installed when a command does not find it; Docker must be there already.
ElkPrerequisites ==
    When({"bare"},
         Missing({"git"}, << Cmd({"net"}, {}, {"git"}) >>)
         \o Missing({"node"}, << Cmd({"net"}, {}, {"node"}), See({"node"}) >>)
         \o << Else({"no corepack"}, Cmd({"corepack"}, {}, {"pnpm"})) >>
         \o When({"no corepack"}, << Cmd({"net"}, {}, {"corepack", "pnpm"}) >>)
         \o Missing({"user"}, << Cmd({}, {}, {"user"}) >>))
    \o Unless({"bare"}, << See({"docker"}), See({"compose"}) >>)

\* Steps 3 and 4: an existing directory is never overwritten; the clone; the
\* .env file, which the bare-metal unit cannot start without.
ElkSources ==
    << Refuse("dir"), Cmd({"git", "net"}, {}, {"dir", "code"}) >>
    \o When({"bare"}, << Cmd({"dir"}, {}, {"env"}) >>)
    \o Unless({"bare"}, When({"instance"}, << Warn(Cmd({"dir"}, {}, {"env"})) >>))

\* Steps 5 and 6 with Docker: build, start, look at the container's state.
ElkContainers ==
    Unless({"bare"},
           << Warn(Cmd({"dir"}, {}, {"data"})),
              Cmd({"dir", "docker", "compose"}, {"up", "live"}, {"up", "live"}),
              See({"up"}) >>)

\* Steps 5 to 8 on bare metal: dependencies, build, unit, start, is-active.
ElkService ==
    When({"bare"},
         << Cmd({"dir", "pnpm", "net"}, {"deps"}, {"deps"}),
            Cmd({"deps"}, {"built"}, {"built"}),
            Cmd({}, {}, {"unit"}),
            Warn(Cmd({"user"}, {}, {"owned"})),
            Cmd({"unit", "env", "built"}, {}, {"up", "live"}),
            See({"up"}) >>)

\* package.json holds the version.
ElkRecordVersion == RecordVersion({"dir"})

ElkInstall ==
    Opening \o ElkProtection \o << Connect >> \o ElkPrerequisites \o ElkSources
    \o ElkContainers \o ElkService \o ElkRecordVersion
    \o << Note({}, {"installed"}) >>

\* git stash: nothing to do without local changes; it fails on unmerged files.
ElkStash ==
    Unless({"edits"}, << [See({"dir"}) EXCEPT !.bar = {"unmerged"}] >>)
    \o When({"edits"}, << Cmd({"dir"}, {"edits"}, {"stash", "stashed"}) >>)

\* git stash drop in the place of git stash pop.
ElkStashDrop == << Cmd({"stash"}, {"stash"}, {}) >>

\* _elk_stash_pop.  Where the new code clashes with the local changes it fails
\* with unmerged files in the tree, and the stash entry stays.
ElkStashPop ==
    Unless({"diverged"}, << Cmd({"stash"}, {"stash"}, {"edits"}) >>)
    \o When({"diverged"}, << Cmd({"stash"}, {}, {"unmerged"}), Give >>)

\* Step 2 of an upgrade: stash, pull, pop, each with its own exit code.
ElkPull ==
    ElkStash
    \o Unless({"clashes"},
              << Else({"pull failed"}, Cmd({"dir", "git", "net"}, {"version"}, {"code"})) >>)
    \o When({"clashes"},
            << Else({"pull failed"},
                    Cmd({"dir", "git", "net"}, {"version"}, {"code", "diverged"})) >>)
    \o When({"pull failed", "stashed"}, Warned(ElkStashPop))
    \o When({"pull failed"}, << Give >>)
    \o When({"stashed"}, ElkStashPop)

\* A rebuild whose failure is only logged.
ElkRebuildWarning ==
    Unless({"bare"},
           << Warn(Cmd({"docker", "compose"}, {"up", "live"}, {"up", "live"})),
              Else({"not running"}, See({"up"})) >>)

\* Step 3 with Docker: rebuild the containers and look at their state.
ElkRebuildContainers ==
    Unless({"bare"},
           << Cmd({"docker", "compose"}, {"up", "live"}, {"up", "live"}),
              Else({"not running"}, See({"up"})) >>)

\* Steps 3 to 6 on bare metal: dependencies, build, restart, is-active.  A
\* failed restart only warns, and a service that was not restarted is active.
ElkRebuildService ==
    When({"bare"},
         << Cmd({"pnpm", "net"}, {"deps"}, {"deps"}),
            Cmd({"deps"}, {"built"}, {"built"}),
            Else({"restart warned"},
                 Cmd({"unit", "built"}, {"up", "live", "restart warned"}, {"up", "live"})) >>
         \o EnsureUp(Cmd({"unit", "built"}, {}, {"up", "live"})))

ElkUpgrade ==
    Opening \o ElkProtection \o << Connect >> \o ElkPull
    \o ElkRebuildContainers \o ElkRebuildService
    \o When({"not running"}, << Give >>) \o ElkRecordVersion
=============================================================================
