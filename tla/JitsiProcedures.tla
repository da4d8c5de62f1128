-------------------------- MODULE JitsiProcedures --------------------------
(***************************************************************************)
(* apps/jitsi.py: Jitsi Meet, installed and upgraded with apt, and its     *)
(* configuration files, which are read, patched and written back over SSH. *)
(* "jvb conf", "meet conf", "prosody conf", "jicofo conf", "turn conf" say *)
(* that the file is there with its content.                                *)
(***************************************************************************)
EXTENDS Steps

\* check_jitsi_release: the candidate of the guest's own apt cache, over SSH or
\* else, on a virtual machine, through the guest agent.
JitsiReleaseCheck ==
    << Tool({"configured"}, {}, {}), Tool({"guest"}, {}, {}),
       Else({"no ssh"}, Tool({"credential", "address", "reachable"}, {}, {"link"})),
       Warn(Cmd({"net"}, {}, {"cache"})), Else({"no ssh"}, See({"repo"})) >>
    \o When({"no ssh"}, << Tool({"vm", "proxmox host", "proxmox", "repo"}, {}, {}) >>)
    \o << Tool({"cache", "tag"}, {}, {"latest"}) >> \o Offer

\* detect_jitsi_version and the page's route
JitsiDetect == Detect({"package"}) \o ForgetUnfound

\* _require_valid_hostname is part of "safe".
JitsiConfigChecks ==
    ConfigChecks(<< Check(Tool({"configured"}, {}, {})), Check(Tool({"safe"}, {}, {})),
                    Check(Tool({"cert type"}, {}, {})) >>
                 \o When({"letsencrypt"}, << Check(Tool({"email"}, {}, {})) >>)
                 \o When({"backup"}, << Check(Tool({"storage"}, {}, {})) >>))

\* Section C: an installed Jitsi has its package and its apt repository; before
\* an install there is no package yet, on Debian or Ubuntu.
JitsiGuestChecks ==
    << Check(Tool({"credential"}, {}, {})), Check(Tool({"address"}, {}, {})), Check(Connect) >>
    \o When({"installed"}, << Check(See({"package"})), Check(See({"repo"})) >>)
    \o Unless({"installed"},
              << Check([See({}) EXCEPT !.bar = {"package"}]), Check(See({"debian"})) >>)

JitsiPreflight == JitsiConfigChecks \o ProxmoxChecks \o JitsiGuestChecks \o Verdict

\* _run_protection
JitsiProtection == Protection

\* _ssh_write_file overwrites a file that was read before: a write that fails in
\* the middle leaves it without its content.  Warnings are counted.
JitsiWrite(file, more, add) == Else({"warned"}, Cmd({file} \cup more, {file}, {file} \cup add))

\* _cf_patch_jvb_conf_tcp takes any tcp block next to any "enabled = true" as its
\* own work.
JitsiPatchTcp == Missing({"tcp block", "enabled text"},
                         << JitsiWrite("jvb conf", {}, {"tcp block", "enabled text", "media"}) >>)

\* _cf_patch_meet_config_js
JitsiPatchMeet == << JitsiWrite("meet conf", {}, {"p2p off"}) >>

\* _cf_patch_nat_harvester: a file that cannot be read is written anew.
JitsiPatchNat == << Else({"warned"}, Cmd({}, {}, {"media"})) >>

\* _configure_coturn_tls, with the restart of coturn, which is not looked at.
JitsiCoturn == << JitsiWrite("turn conf", {}, {"tls"}), Warn(Cmd({"turn conf"}, {}, {"coturn up"})) >>

\* _configure_prosody_turn: an external_services block that names no turns entry
\* is left as it is, and counts as done; without a secret nothing is written.
JitsiProsodyTurn ==
    Unless({"turn", "external services"}, << JitsiWrite("prosody conf", {"secret"}, {"turn"}) >>)

\* _cf_verify_prosody_turns and _cf_verify_coturn only look.
JitsiVerifyTurn == << Warn(See({"coturn up"})) >>

\* _configure_jvb_nat_harvester
JitsiNat == When({"public ip"}, JitsiPatchNat)

\* _enable_jvb_rest_api: the videobridge is restarted after the services were
\* looked at, and not looked at again.
JitsiRest == Missing({"rest block", "enabled text"},
                     << Warn(Cmd({"jvb conf"}, {"jvb conf"}, {"jvb conf", "rest block", "enabled text"})),
                        Else({"restart warned"}, Cmd({"package"}, {"up"}, {"up"})) >>)

\* Steps 2 to 5 of an install: what an earlier attempt broke is repaired without
\* a look at the result; key and repository only warn; the rest is needed.
JitsiPackage ==
    << Warn(Cmd({"net"}, {"broken prosody"}, {"lua"})), Warn(Cmd({"net"}, {}, {"key"})),
       Warn(Cmd({}, {}, {"repo"})), Cmd({"debian", "net"}, {}, {"cache"}),
       Cmd({}, {}, {"preseed"}), Warn(Cmd({}, {}, {"cert preseed"})),
       [Cmd({"key", "repo", "cache", "net"}, {},
            {"package", "up", "live", "jvb conf", "meet conf", "prosody conf",
             "jicofo conf", "turn conf", "secret"}) EXCEPT !.bar = {"broken prosody"}] >>

\* Steps 6 to 10: certificate, firewall, TURN; nothing here stops the run.
JitsiNetwork ==
    When({"letsencrypt"}, << Warn(Cmd({"net", "email"}, {}, {"certificate"})) >>)
    \o When({"ufw"}, << Warn(Cmd({}, {}, {"ports"})) >>)
    \o JitsiCoturn \o JitsiProsodyTurn \o JitsiNat

\* Services that do not run are started once, and warned about; the version that
\* dpkg tells marks Jitsi as installed, otherwise the run only warns.
JitsiInstall ==
    Opening \o JitsiProtection \o << Connect >> \o JitsiPackage \o JitsiNetwork
    \o EnsureUp(Cmd({"package"}, {}, {"up"})) \o RecordVersion({"package"})
    \o Unless({"not read"}, << Note({}, {"installed"}) >>) \o JitsiRest

\* The version is recorded before the run decides on the services it restarted.
JitsiUpgrade ==
    << Tool({"configured"}, {}, {}), Tool({"guest"}, {}, {}), Tool({"credential"}, {}, {}),
       Tool({"address"}, {}, {}) >>
    \o JitsiProtection
    \o << Connect, Cmd({"net"}, {}, {"cache"}),
          Cmd({"repo", "cache", "net", "package"}, {"version"}, {"new"}),
          Else({"restart warned"},
               Cmd({"package"}, {"up", "live", "restart warned"}, {"up", "live"})),
          Else({"not running"}, See({"up"})) >>
    \o RecordVersion({"package"}) \o << Refuse("not running") >>

\* All services are restarted whatever the patches did, looked at, and any
\* warning so far makes the run fail.
JitsiRestart ==
    << Else({"warned"}, Cmd({"package"}, {"up", "live"}, {"up", "live"})),
       Else({"warned"}, See({"up"})), Refuse("warned") >>

JitsiConfigureOpening ==
    << Tool({"installed"}, {}, {}), Tool({"safe"}, {}, {}), Tool({"configured"}, {}, {}),
       Tool({"guest"}, {}, {}), Tool({"credential"}, {}, {}), Tool({"address"}, {}, {}) >>

\* run_cloudflare_configure
JitsiCloudflare ==
    << Refuse("no mode") >> \o When({"hybrid"}, << Tool({"public ip"}, {}, {}) >>)
    \o JitsiConfigureOpening \o << Connect >>
    \o Unless({"hybrid"}, JitsiPatchTcp \o JitsiPatchMeet) \o When({"hybrid"}, JitsiPatchNat)
    \o JitsiCoturn \o JitsiProsodyTurn \o JitsiVerifyTurn \o JitsiRestart

\* _sd_patch_prosody, both ways
JitsiSecureProsody ==
    When({"secure"}, Missing({"hashed", "guest vhost"},
         << JitsiWrite("prosody conf", {"auth line"}, {"hashed", "guest vhost"}) >>))
    \o Unless({"secure"}, << Else({"warned"}, Cmd({"prosody conf"},
                             {"prosody conf", "hashed", "guest vhost"}, {"prosody conf", "open"})) >>)

\* _sd_patch_meet_config_js: any mention of anonymousdomain counts as done.
JitsiSecureMeet ==
    When({"secure"}, Missing({"mentioned"},
         << JitsiWrite("meet conf", {}, {"mentioned", "anonymousdomain"}) >>))
    \o Unless({"secure"}, << Else({"warned"}, Cmd({"meet conf"},
                             {"meet conf", "mentioned", "anonymousdomain"}, {"meet conf"})) >>)

\* _sd_patch_jicofo_conf
JitsiSecureJicofo ==
    When({"secure"}, Missing({"jicofo auth"}, << JitsiWrite("jicofo conf", {}, {"jicofo auth"}) >>))
    \o Unless({"secure"}, << Else({"warned"}, Cmd({"jicofo conf"},
                             {"jicofo conf", "jicofo auth"}, {"jicofo conf"})) >>)

\* run_secure_domain_configure
JitsiSecureDomain ==
    JitsiConfigureOpening \o << Connect >> \o JitsiSecureProsody \o JitsiSecureMeet
    \o JitsiSecureJicofo \o JitsiRestart

\* _sd_get_ssh
JitsiShell == << Tool({"configured"}, {}, {}), Tool({"guest"}, {}, {}),
                 Tool({"address"}, {}, {}), Tool({"credential"}, {}, {}), Connect >>

\* configure_jvb_rest_binding: the restart is not looked at, and a call that
\* finds the file as it wants it restarts nothing, even if the process is older
\* than the file ("stale").
JitsiBinding ==
    JitsiShell \o Missing({"bound"},
        << Cmd({"jvb conf"}, {"jvb conf"}, {"jvb conf", "bound", "stale"}),
           Warn(Cmd({"package"}, {"up", "live", "stale"}, {"up", "live"})) >>)

\* sd_list_users only looks; sd_add_user, sd_remove_user
JitsiListUsers == << Tool({"safe"}, {}, {}) >> \o JitsiShell \o << Warn(See({"account"})) >>
JitsiAddUser ==
    << Tool({"safe"}, {}, {}) >> \o JitsiShell
    \o << [Cmd({"package"}, {}, {"account"}) EXCEPT !.bar = {"account"}] >>
JitsiRemoveUser ==
    << Tool({"safe"}, {}, {}) >> \o JitsiShell \o << Cmd({"account"}, {"account"}, {}) >>
=============================================================================
