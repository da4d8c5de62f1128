---------------------------- MODULE MCProcedures ----------------------------
(***************************************************************************)
(* The application procedures, one goal for each install, upgrade and      *)
(* configuration, for TLC.                                                 *)
(***************************************************************************)
EXTENDS GuestProcedure, ElkProcedures, GhostProcedures, PeerTubeProcedures,
        HarmonyProcedures, JitsiProcedures, JibriProcedures, PrometheusProcedures, FiniteSets, TLC

\* What every guest the tool works on should have.
Sound == {"configured", "guest", "safe", "credential", "address", "proxmox",
          "running", "reachable", "net", "tag", "storage"}

\* The states a guest may be in before a goal: a configuration, and all but
\* at most one of the facts that a healthy guest has.
Starts(configs, healthy) ==
    {c \cup healthy : c \in configs} \cup {c \cup (healthy \ {f}) : c \in configs, f \in healthy}

Configs == {{"proxmox host", "snapshots"}, {"proxmox host", "backup"},
            {"skip"}}

Goal(main, preflight, check, detect, configs, healthy, promise) ==
    [parts |-> [main |-> main, preflight |-> preflight, check |-> check,
                detect |-> detect, health |-> << >>],
     start |-> Starts(configs, healthy),
     ready |-> healthy, promise |-> promise, excuse |-> {},
     unprotected |-> FALSE, unseen |-> {"net"}, kept |-> {}, stuck |-> {},
     vital |-> {}, dumps |-> {}]

With(configs, more) == {c \cup m : c \in configs, m \in more}

ElkInstallGoal ==
    [Goal(ElkInstall, ElkPreflight, << >>, << >>,
          With({{"proxmox host", "snapshots"}, {"proxmox host", "backup"}},
               {{}, {"instance"}, {"bare"}, {"dir", "bare"}}),
          Sound \cup {"docker", "compose", "git"},
          {"up", "live", "installed"})
     EXCEPT !.unseen = @ \cup {"git"}, !.stuck = {"dir"}]

ElkUpgradeGoal ==
    [Goal(ElkUpgrade, ElkPreflight, ElkReleaseCheck, ElkDetect,
          With(Configs, {{"edits", "behind"}, {"edits", "bare", "corepack"},
                         {"edits", "clashes"}}),
          Sound \cup {"docker", "compose", "git", "node", "pnpm", "dir", "unit",
                      "env", "installed", "current", "up"},
          {"up", "live", "code"})
     EXCEPT !.unseen = @ \cup {"git", "pnpm", "unit"}, !.kept = {{"edits", "stash"}},
            !.excuse = {"restart warned"}, !.stuck = {"unmerged"}]

GhostUpgradeGoal ==
    [Goal(GhostUpgrade, GhostPreflight, GhostReleaseCheck, GhostDetect,
          With(Configs, {{"behind"}, {"node fits", "nginx", "nginx active"}}),
          Sound \cup {"dir", "cli", "meta", "account", "local db", "mysql8", "node", "n",
                      "current", "up", "reloads"},
          {"up", "live", "new"})
     EXCEPT !.unseen = @ \cup {"node", "n", "mysql8", "reloads"}, !.excuse = {"restart warned"}]

\* A database on this guest, on another guest, or on a guest whose record is gone.
Database == {"db record", "db address", "db credential", "db reachable", "db proxmox host",
             "db proxmox", "postgres", "pg_dump"}

PeerTubeInstallGoal ==
    [Goal(PeerTubeInstall, << >>, << >>, << >>,
          With({{"proxmox host", "snapshots"}, {"proxmox host", "backup"}},
               {{"database"}, {"db guest", "latest"}}),
          Sound \cup Database \cup {"url", "db password"},
          {"up", "live", "new", "installed", "version"})
     EXCEPT !.stuck = {"release"}]

PeerTubeUpgradeGoal ==
    [Goal(PeerTubeUpgrade, PeerTubePreflight, PeerTubeReleaseCheck, PeerTubeDetect,
          With(Configs, {{"behind"}, {"db guest"}}),
          Sound \cup Database \cup {"database", "dir", "release", "script", "pnpm", "unit",
                              "current", "installed", "up"},
          {"up", "live", "new"})
     EXCEPT !.unseen = @ \cup {"pnpm", "unit", "database", "db proxmox host"},
            !.excuse = {"restart warned"}, !.dumps = {"db guest", "db record", "db address"}]

HarmonyUpgradeGoal ==
    [Goal(HarmonyUpgrade, HarmonyPreflight, HarmonyReleaseCheck, HarmonyDetect,
          With(Configs, {{}, {"edits"}}),
          Sound \cup {"cli", "on release", "env", "compose", "git", "space", "policy", "migrated",
                      "latest", "current", "behind", "installed", "up"},
          {"up", "live", "new", "migrated", "version"})
     EXCEPT !.parts.health = HarmonyHealth, !.unseen = @ \cup {"latest", "behind", "policy"},
            !.stuck = {"new", "edits"}, !.dumps = {"compose"}]

JitsiInstallGoal ==
    [Goal(JitsiInstall, JitsiPreflight, << >>, << >>,
          With({{"proxmox host", "snapshots"}, {"proxmox host", "backup"}},
               {{}, {"letsencrypt", "ufw", "public ip"}, {"broken prosody"}}),
          Sound \cup {"debian", "cert type", "email"},
          {"up", "live", "package", "installed", "version"})
     EXCEPT !.excuse = {"not running", "not read", "restart warned"}]

JitsiUpgradeGoal ==
    [Goal(JitsiUpgrade, JitsiPreflight, JitsiReleaseCheck, JitsiDetect,
          With(Configs, {{"behind"}, {"vm"}}),
          Sound \cup {"package", "repo", "cert type", "current", "installed", "up"},
          {"up", "live", "new"})
     EXCEPT !.excuse = {"restart warned"}]

JitsiFiles == {"jvb conf", "meet conf", "prosody conf", "jicofo conf", "turn conf", "secret"}

\* Configuration goals take no snapshot, and have neither pre-flight nor check.
Configure(main, configs, healthy, promise) ==
    [Goal(main, << >>, << >>, << >>, configs, healthy, promise) EXCEPT !.unprotected = TRUE]

JitsiCloudflareGoal ==
    [Configure(JitsiCloudflare,
               {{}, {"hybrid", "public ip"}, {"hybrid"}, {"no mode"},
                {"tcp block", "enabled text"}, {"external services"}},
               (Sound \ {"proxmox", "running", "tag", "storage", "net"}) \cup JitsiFiles
                 \cup {"installed", "package", "up"},
               {"media", "tls", "turn", "up", "live"})
     EXCEPT !.excuse = {"tcp block", "external services"}, !.vital = JitsiFiles,
            !.stuck = {"no mode", "hybrid"}]

JitsiSecureGoal ==
    [Configure(JitsiSecureDomain, {{"secure"}, {"secure", "mentioned"}, {"secure", "hashed"}},
               (Sound \ {"proxmox", "running", "tag", "storage", "net"}) \cup JitsiFiles
                 \cup {"auth line", "installed", "package", "up"},
               {"hashed", "guest vhost", "anonymousdomain", "jicofo auth", "up", "live"})
     EXCEPT !.excuse = {"mentioned"}, !.vital = JitsiFiles]

JitsiOpenGoal ==
    [Configure(JitsiSecureDomain, {{"hashed", "guest vhost", "anonymousdomain", "jicofo auth"}},
               (Sound \ {"proxmox", "running", "tag", "storage", "net"}) \cup JitsiFiles
                 \cup {"installed", "package", "up"},
               {"open", "up", "live"})
     EXCEPT !.vital = JitsiFiles]

JitsiBindingGoal ==
    [Configure(JitsiBinding, {{}}, {"configured", "guest", "address", "credential", "reachable",
                                    "jvb conf", "package", "up"},
               {"bound", "up", "live"})
     EXCEPT !.vital = {"jvb conf"}, !.excuse = {"stale"}]

JitsiUsers == {"safe", "configured", "guest", "address", "credential", "reachable", "package"}
JitsiAddUserGoal ==
    [Configure(JitsiAddUser, {{}, {"account"}}, JitsiUsers, {"account"})
     EXCEPT !.stuck = {"account"}, !.parts.health = JitsiListUsers]
JitsiRemoveUserGoal ==
    [Configure(JitsiRemoveUser, {{}}, JitsiUsers \cup {"account"}, {})
     EXCEPT !.vital = {"account"}]

JibriInstallGoal ==
    [Goal(JibriInstall, JibriPreflight, << >>, << >>,
          With({{"proxmox host", "snapshots"}, {"proxmox host", "backup"}},
               {{}, {"package", "jibri conf", "up"}, {"installed", "secrets"}}),
          Sound \cup {"debian", "aloop", "vm", "jitsi", "jitsi address", "recording dir"},
          {"up", "live", "package", "installed", "secrets"})
     EXCEPT !.excuse = {"restart warned"}, !.unseen = @ \cup {"jitsi address"}]

JibriConfigureGoal ==
    [Configure(JibriConfigure, {{}, {"recorder vhost"}},
               {"jitsi", "installed", "safe", "secrets", "jitsi address", "credential", "reachable",
                "prosody conf", "prosody", "jicofo conf", "meet conf", "up"},
               {"recorder vhost", "jibri account", "recorder account", "brewery", "recordings on",
                "enabled", "up", "live"})
     EXCEPT !.excuse = {"restart warned", "not enabled"}, !.vital = {"jicofo conf"}]

JibriMountGoal ==
    Configure(JibriMount, {{}, {"fstab"}},
              {"installed", "share", "safe", "recording dir", "guest", "credential", "reachable",
               "net", "server"},
              {"fstab", "mounted", "smb recorded"})

JibriHealthy == {"installed", "enabled", "room", "rtmp", "safe", "recording dir", "guest", "address",
                 "credential", "reachable", "up"}
JibriStreamGoal ==
    [Configure(JibriStream, {{}}, JibriHealthy \cup {"idle"}, {"recording"})
     EXCEPT !.vital = {"idle"}, !.parts.health = JibriStatus]
JibriStopGoal ==
    [Configure(JibriStop, {{"recording"}, {"idle"}}, JibriHealthy, {"idle"})
     EXCEPT !.parts.health = JibriStatus]
JibriDeleteGoal ==
    [Configure(JibriDelete, {{}}, JibriHealthy \cup {"file"}, {"deleted"})
     EXCEPT !.vital = {"file"}, !.parts.health = JibriList]

\* A Prometheus guest, for the scrape jobs.
Scraper == {"prom guest", "prom credential", "prom reachable", "promtool", "prom up"}
Exporters == {"instance", "known", "guest", "credential", "address", "reachable", "net", "tag",
              "safe"} \cup Scraper
Running == {"binary", "unit", "up", "live"}

ExporterInstallGoal ==
    [Configure(ExporterInstall,
               {{"starts"}, {"starts", "settings"}, {}, {"starts", "no prometheus"},
                Running \cup {"installed", "starts"}},
               Exporters, {"up", "live", "installed", "version", "scraped"})
     EXCEPT !.excuse = {"crashed", "no prometheus"}, !.stuck = {"up"},
            !.parts.check = ExporterReleaseCheck, !.parts.detect = ExporterDetect]

ExporterUninstallGoal ==
    [Configure(ExporterUninstall, {Running \cup {"installed", "scraped"}},
               {"instance", "known", "credential", "reachable"} \cup Scraper,
               {"removed", "gone", "unscraped"})
     EXCEPT !.excuse = {"stop warned", "files warned"}]

HostExporterInstallGoal ==
    [Configure(HostExporterInstall, {{"starts"}, {"starts", "settings"}, {"starts", "ipmi"}, {"ipmi"}},
               Exporters, {"up", "live", "installed", "version", "scraped"})
     EXCEPT !.excuse = {"crashed"}, !.stuck = {"up"}]

HostExporterUninstallGoal == [ExporterUninstallGoal EXCEPT !.parts.main = HostExporterUninstall]

MastodonSite == {"guest", "safe", "credential", "address", "reachable", "env file"} \cup Scraper
MastodonEnableGoal ==
    [Configure(MastodonExporterEnable, {{"up"}, {"up", "external"}}, MastodonSite,
               {"exporter env", "up", "live", "installed", "scraped"})
     EXCEPT !.excuse = {"restart warned", "already"}]
MastodonDisableGoal ==
    [Configure(MastodonExporterDisable, {{"up", "live", "exporter env", "collector", "unit", "scraped"}},
               MastodonSite, {"gone", "removed", "unscraped", "up", "live"})
     EXCEPT !.excuse = {"restart warned", "files warned"}]
MastodonReconfigureGoal ==
    [Configure(MastodonExporterReconfigure, With({{"up", "exporter env", "scraped"}}, {{}, {"external"}}),
               MastodonSite \cup {"installed"},
               {"exporter env", "up", "live", "new port", "port scraped"})
     EXCEPT !.excuse = {"restart warned"}]

Kinds == {{"proxmox host", "snapshots"}, {"proxmox host", "backup"}}
PrometheusInstallGoal ==
    [Goal(PrometheusInstall, PrometheusPreflight, << >>, << >>,
          With(Kinds, {{"starts"}, {"starts", "latest"}, {"starts"} \cup Running}),
          (Sound \ {"safe"}) \cup {"prom guest", "prom credential", "prom reachable"},
          {"up", "live", "installed", "version", "scraped"})
     EXCEPT !.stuck = {"up"}, !.unseen = @ \cup {"tag", "prom guest", "prom credential", "prom reachable"}]
ServiceHealthy == Sound \cup {"latest", "installed", "current"}
PrometheusUpgradeGoal ==
    [Goal(PrometheusUpgrade, PrometheusPreflight, PrometheusReleaseCheck, PrometheusDetect,
          With(Kinds, {Running \cup {"starts", "behind"}, Running}), ServiceHealthy,
          {"up", "live", "version"})
     EXCEPT !.unseen = @ \cup {"latest", "safe"}, !.excuse = {"crashed"}]
UnpollerInstallGoal ==
    [Goal(UnpollerInstall, UnpollerPreflight, << >>, << >>,
          With(Kinds, {{"starts"}, {"latest"}, {"starts"} \cup Running}),
          (Sound \ {"safe"}) \cup Scraper \cup {"unifi"},
          {"up", "live", "installed", "version", "scraped"})
     EXCEPT !.stuck = {"up"}, !.excuse = {"crashed"},
            !.unseen = @ \cup {"tag", "storage", "promtool", "prom guest", "prom credential", "prom reachable"}]
UnpollerUpgradeGoal ==
    [Goal(UnpollerUpgrade, UnpollerPreflight, UnpollerReleaseCheck, UnpollerDetect,
          With(Kinds, {Running \cup {"starts", "behind"}, Running}),
          ServiceHealthy \cup {"prom up", "unifi"}, {"up", "live", "version"})
     EXCEPT !.unseen = @ \cup {"latest", "safe", "storage"}, !.excuse = {"crashed"}]
UnpollerReconfigureGoal ==
    Configure(UnpollerReconfigure, {{"binary", "unit", "conf"}},
              {"configured", "guest", "credential", "address", "reachable", "conf dir"},
              {"conf", "up", "live"})

AllGoals == [elk_install |-> ElkInstallGoal, elk_upgrade |-> ElkUpgradeGoal,
             ghost_upgrade |-> GhostUpgradeGoal,
             peertube_install |-> PeerTubeInstallGoal,
             peertube_upgrade |-> PeerTubeUpgradeGoal,
             harmony_upgrade |-> HarmonyUpgradeGoal,
             jitsi_install |-> JitsiInstallGoal, jitsi_upgrade |-> JitsiUpgradeGoal,
             jitsi_cloudflare |-> JitsiCloudflareGoal, jitsi_secure |-> JitsiSecureGoal,
             jitsi_open |-> JitsiOpenGoal, jitsi_binding |-> JitsiBindingGoal,
             jitsi_add_user |-> JitsiAddUserGoal, jitsi_remove_user |-> JitsiRemoveUserGoal,
             jibri_install |-> JibriInstallGoal, jibri_configure |-> JibriConfigureGoal,
             jibri_mount |-> JibriMountGoal, jibri_stream |-> JibriStreamGoal,
             jibri_stop |-> JibriStopGoal, jibri_delete |-> JibriDeleteGoal,
             exporter_install |-> ExporterInstallGoal, exporter_uninstall |-> ExporterUninstallGoal,
             host_exporter_install |-> HostExporterInstallGoal,
             host_exporter_uninstall |-> HostExporterUninstallGoal,
             mastodon_enable |-> MastodonEnableGoal, mastodon_disable |-> MastodonDisableGoal,
             mastodon_reconfigure |-> MastodonReconfigureGoal,
             prometheus_install |-> PrometheusInstallGoal,
             prometheus_upgrade |-> PrometheusUpgradeGoal,
             unpoller_install |-> UnpollerInstallGoal, unpoller_upgrade |-> UnpollerUpgradeGoal,
             unpoller_reconfigure |-> UnpollerReconfigureGoal]

-----------------------------------------------------------------------------
\* Whatever fails, and however often a procedure is started again, what must
\* not get lost is in one of its places: local changes in the tree or in the
\* stash.  And a run that is turned away, with nothing failing on the way,
\* leaves a service up that was up (_elk_stash_pop, and the early returns of the
\* run_ functions of apps).
GuestUnharmed == TypeOK /\ NothingLost /\ RefusalsHarmless
=============================================================================
