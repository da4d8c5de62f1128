-------------------------- MODULE JibriProcedures --------------------------
(***************************************************************************)
(* apps/jibri.py: the recorder of a Jitsi Meet server, on a virtual        *)
(* machine of its own; its accounts and rooms on the Jitsi server; the SMB *)
(* share that takes the recordings; and the recorder's REST interface.     *)
(***************************************************************************)
EXTENDS Steps

JibriConfigChecks ==
    ConfigChecks(<< Check(Tool({"configured"}, {}, {})), Check(Tool({"jitsi"}, {}, {})),
                    Check(Tool({"safe"}, {}, {})), Check(Tool({"recording dir"}, {}, {})) >>
                 \o When({"backup"}, << Check(Tool({"storage"}, {}, {})) >>))

\* Section B also asks for a virtual machine.
JibriProxmoxChecks ==
    << Check(Tool({"guest"}, {}, {})), Refuse("check failed"), Check(Tool({"vm"}, {}, {})) >>
    \o When({"proxmox host"},
            << Check(Tool({"proxmox", "running"}, {}, {})) >>
            \o Unless({"backup"}, << Check(Tool({"snapshots"}, {}, {})) >>))

\* Section C: distribution, kernel module, and no package before an install.
JibriGuestChecks ==
    << Check(Tool({"credential"}, {}, {})), Check(Tool({"address"}, {}, {})), Check(Connect),
       Check(See({"debian"})), Check(See({"aloop"})) >>
    \o Unless({"installed"}, << Check([See({}) EXCEPT !.bar = {"package"}]) >>)

JibriPreflight == JibriConfigChecks \o JibriProxmoxChecks \o JibriGuestChecks \o Verdict

\* _run_protection
JibriProtection == Protection

JibriOpening ==
    << Tool({"configured"}, {}, {}), Tool({"guest"}, {}, {}), Tool({"vm"}, {}, {}),
       Tool({"jitsi"}, {}, {}), Tool({"jitsi address"}, {}, {}), Tool({"safe"}, {}, {}),
       Tool({"credential"}, {}, {}), Tool({"address"}, {}, {}) >>

\* Steps 2 to 6: distribution, package lists, kernel module (a missing one only
\* warns), Java, Chrome or else Chromium, FFmpeg.
JibriPrerequisites ==
    << See({"debian"}), Cmd({"net"}, {}, {"cache"}), Cmd({"net"}, {}, {"tools"}),
       Warn(Cmd({"net"}, {}, {"aloop"})), Warn(Cmd({"aloop"}, {}, {"aloop loaded"})),
       Cmd({"net"}, {}, {"java"}), Warn(Cmd({"net"}, {}, {"chrome repo"})),
       Else({"no chrome"}, Cmd({"net", "chrome repo"}, {}, {"chrome"})) >>
    \o When({"no chrome"}, << Cmd({"net"}, {}, {"chrome"}) >>)
    \o << Warn(Cmd({}, {}, {"policies"})), Cmd({"net"}, {}, {"ffmpeg"}) >>

\* Step 7: key and repository only warn, the package lists and the package do
\* not.
JibriPackage ==
    << Warn(Cmd({"net"}, {}, {"key"})), Warn(Cmd({}, {}, {"repo"})), Cmd({"net"}, {}, {"cache"}),
       Cmd({"key", "repo", "net"}, {}, {"package"}), Warn(Cmd({}, {}, {"groups"})) >>

\* Steps 8 to 10: the passwords are kept from an earlier install, if there are
\* any; the configuration is written anew; a failed restart is not looked at, so
\* an old process counts as active.
JibriService ==
    << Note({}, {"secrets"}), Tool({"recording dir"}, {}, {}), Warn(Cmd({}, {}, {"dir"})),
       Cmd({"package"}, {"jibri conf"}, {"jibri conf"}),
       Else({"restart warned"}, Cmd({"package", "jibri conf", "java", "chrome", "ffmpeg"},
                                    {"up", "live", "restart warned"}, {"up", "live"})),
       See({"up"}), Note({}, {"installed"}) >>

JibriInstall ==
    JibriOpening \o JibriProtection \o << Connect >> \o JibriPrerequisites
    \o JibriPackage \o JibriService

\* _prosodyctl_register: an account that exists already is a success, whatever
\* its password.
JibriRegister(account) == Cmd({"prosody"}, {}, {account})

\* run_jibri_jitsi_configure, first half: components and accounts on the Jitsi
\* server, both needed.
JibriAccounts ==
    Missing({"recorder vhost"}, << Cmd({"prosody conf"}, {}, {"recorder vhost"}) >>)
    \o << JibriRegister("jibri account"), JibriRegister("recorder account") >>

\* Second half: the room for Jicofo (needed), three settings of the web client
\* and the restart of the services (none of them looked at).
JibriRooms ==
    Missing({"brewery"}, << Cmd({"jicofo conf"}, {"jicofo conf"}, {"jicofo conf", "brewery"}) >>)
    \o << Else({"not enabled"}, Cmd({"meet conf"}, {"not enabled"}, {"recordings on"})),
          Else({"restart warned"}, Cmd({"prosody"}, {"up", "live", "restart warned"}, {"up", "live"})),
          Warn(See({"up"})), Note({}, {"enabled"}) >>

JibriConfigure ==
    << Tool({"jitsi"}, {}, {}), Tool({"installed"}, {}, {}), Tool({"safe"}, {}, {}),
       Tool({"secrets"}, {}, {}), Tool({"jitsi address"}, {}, {}), Tool({"credential"}, {}, {}),
       Connect >>
    \o JibriAccounts \o JibriRooms

\* configure_smb_mount: an older entry for the directory leaves /etc/fstab before
\* the new one is added; neither is looked at, the mount is.
JibriMount ==
    << Tool({"installed"}, {}, {}), Tool({"share"}, {}, {}), Tool({"safe"}, {}, {}),
       Tool({"recording dir"}, {}, {}), Tool({"guest"}, {}, {}), Tool({"credential"}, {}, {}),
       Connect, Cmd({"net"}, {}, {"cifs"}), Warn(Cmd({}, {}, {"dir"})),
       Cmd({}, {"smb credentials"}, {"smb credentials"}), Warn(Cmd({}, {"fstab"}, {})),
       Warn(Cmd({}, {}, {"fstab"})),
       Cmd({"fstab", "cifs", "dir", "smb credentials", "server"}, {}, {"mounted"}),
       Warn(See({"mounted"})), Note({}, {"smb recorded"}) >>

\* What every call of the REST interface asks for first.
JibriReach == << Tool({"installed"}, {}, {}), Tool({"guest", "address"}, {}, {}),
                 Tool({"credential"}, {}, {}) >>

\* start_recording, start_streaming: the recorder must be idle.
JibriStart ==
    << Tool({"installed"}, {}, {}), Tool({"enabled"}, {}, {}), Tool({"room"}, {}, {}),
       Tool({"guest", "address"}, {}, {}), Tool({"credential"}, {}, {}), Connect,
       See({"up", "idle"}), Cmd({"up", "idle"}, {"idle"}, {"recording"}) >>

\* A stream also asks for the URL it goes to.
JibriStream == << Tool({"rtmp"}, {}, {}) >> \o JibriStart

\* stop_recording, stop_streaming
JibriStop == JibriReach \o << Connect, Cmd({"up"}, {"recording"}, {"idle"}) >>

\* check_jibri_status
JibriStatus == JibriReach \o << Connect, Warn(See({"up"})), Warn(See({"up", "idle"})) >>

\* list_recordings
JibriList == JibriReach \o << Tool({"recording dir"}, {}, {}), Connect, Warn(See({"file"})) >>

\* delete_recording: the name is checked first, the file is looked for.
JibriDelete ==
    << Tool({"safe"}, {}, {}) >> \o JibriReach
    \o << Tool({"recording dir"}, {}, {}), Connect, See({"file"}), Cmd({}, {"file"}, {"deleted"}) >>
=============================================================================
