----------------------------- MODULE AppRoutes -----------------------------
(***************************************************************************)
(* The background jobs each application blueprint offers, read off the     *)
(* POST handlers in routes/<app>.py, and the release checks with           *)
(* auto-upgrade that core/scheduler.py runs for the same applications.     *)
(*                                                                         *)
(* A handler is summarised by what decides whether it may start its job    *)
(* and by what the job leaves behind:                                      *)
(*   refused         the job trackers whose "running" turns the POST away  *)
(*   locked          it takes the process-wide upgrade lock of the app     *)
(*   needsInstalled  it is turned away until <app>_installed is "true"     *)
(*   stores          the job ends by writing its last_* settings           *)
(***************************************************************************)

Route(refused, locked, needsInstalled, stores) ==
    [refused |-> refused, locked |-> locked,
     needsInstalled |-> needsInstalled, stores |-> stores]

MastodonRoutes ==
    [preflight |-> Route({"upgrade", "preflight"}, FALSE, FALSE, FALSE),
     upgrade   |-> Route({}, TRUE, FALSE, TRUE),
     follow    |-> Route({"follow"}, FALSE, FALSE, FALSE)]

GhostRoutes ==
    [preflight |-> Route({"upgrade", "preflight"}, FALSE, FALSE, FALSE),
     upgrade   |-> Route({}, TRUE, FALSE, TRUE)]

PeertubeRoutes ==
    [preflight |-> Route({"upgrade", "install", "preflight"}, FALSE, FALSE, FALSE),
     upgrade   |-> Route({"install"}, TRUE, FALSE, TRUE),
     install   |-> Route({"upgrade", "install"}, FALSE, FALSE, TRUE)]

ElkRoutes ==
    [preflight |-> Route({"upgrade", "install", "preflight"}, FALSE, FALSE, FALSE),
     upgrade   |-> Route({"install"}, TRUE, FALSE, TRUE),
     install   |-> Route({"upgrade", "install"}, FALSE, FALSE, TRUE)]

JitsiJobs ==
    [preflight |-> Route({"upgrade", "install", "preflight"}, FALSE, FALSE, FALSE),
     upgrade   |-> Route({"install"}, TRUE, FALSE, TRUE),
     install   |-> Route({"upgrade", "install"}, FALSE, FALSE, TRUE)]

\* configure-cloudflare and configure-secure-domain
JitsiConfigureJobs ==
    [cf |-> Route({"cf", "upgrade", "install", "sd"}, FALSE, TRUE, TRUE),
     sd |-> Route({"sd", "cf", "upgrade", "install"}, FALSE, TRUE, TRUE)]

JitsiRoutes ==
    [preflight |-> JitsiJobs.preflight, upgrade |-> JitsiJobs.upgrade,
     install |-> JitsiJobs.install,
     cf |-> JitsiConfigureJobs.cf, sd |-> JitsiConfigureJobs.sd]

\* _any_running
HarmonyAnyRunning == {"upgrade", "preflight", "health"}

HarmonyRoutes ==
    [preflight |-> Route(HarmonyAnyRunning, FALSE, FALSE, FALSE),
     health    |-> Route(HarmonyAnyRunning, FALSE, FALSE, TRUE),
     upgrade   |-> Route({"preflight", "health"}, TRUE, FALSE, TRUE)]

PrometheusRoutes ==
    [preflight |-> Route({"install", "upgrade", "preflight"}, FALSE, FALSE, FALSE),
     install   |-> Route({"install", "upgrade", "preflight"}, FALSE, FALSE, TRUE),
     upgrade   |-> Route({"install", "upgrade", "preflight"}, FALSE, FALSE, TRUE)]

UnpollerJobs ==
    [preflight |-> Route({"install", "upgrade", "preflight"}, FALSE, FALSE, FALSE),
     install   |-> Route({"install", "upgrade", "preflight"}, FALSE, FALSE, TRUE),
     upgrade   |-> Route({"install", "upgrade", "preflight"}, FALSE, FALSE, TRUE)]

\* the reconfig job only writes an audit entry when it ends
UnpollerReconfig == Route({"install", "upgrade", "reconfig"}, FALSE, FALSE, FALSE)

UnpollerRoutes ==
    [preflight |-> UnpollerJobs.preflight, install |-> UnpollerJobs.install,
     upgrade |-> UnpollerJobs.upgrade, reconfig |-> UnpollerReconfig]

JibriInstallJobs ==
    [preflight |-> Route({"install", "configure", "preflight"}, FALSE, FALSE, FALSE),
     install   |-> Route({"install", "configure"}, FALSE, FALSE, TRUE)]

\* configure-jitsi and configure-smb
JibriConfigureJobs ==
    [configure |-> Route({"install", "configure"}, FALSE, TRUE, TRUE),
     smb       |-> Route({"install", "smb"}, FALSE, TRUE, FALSE)]

JibriRoutes ==
    [preflight |-> JibriInstallJobs.preflight, install |-> JibriInstallJobs.install,
     configure |-> JibriConfigureJobs.configure, smb |-> JibriConfigureJobs.smb]

AllRoutes ==
    [mastodon |-> MastodonRoutes, ghost |-> GhostRoutes,
     peertube |-> PeertubeRoutes, elk |-> ElkRoutes, jitsi |-> JitsiRoutes,
     harmony |-> HarmonyRoutes, prometheus |-> PrometheusRoutes,
     unpoller |-> UnpollerRoutes, jibri |-> JibriRoutes]

(***************************************************************************)
(* The scheduled release checks.  Each may start an upgrade by itself when *)
(* <app>_auto_upgrade is "true" and a newer release exists.                *)
(***************************************************************************)
Check(locked, needsInstalled, stores) ==
    [locked |-> locked, needsInstalled |-> needsInstalled, stores |-> stores]

MastodonCheck   == Check(TRUE, FALSE, TRUE)
GhostCheck      == Check(TRUE, FALSE, TRUE)
PeertubeCheck   == Check(TRUE, FALSE, TRUE)
ElkCheck        == Check(TRUE, TRUE, TRUE)
HarmonyCheck    == Check(TRUE, TRUE, TRUE)
JitsiCheck      == Check(TRUE, TRUE, TRUE)
PrometheusCheck == Check(FALSE, TRUE, FALSE)
UnpollerCheck   == Check(FALSE, TRUE, FALSE)

AllChecks ==
    [mastodon |-> MastodonCheck, ghost |-> GhostCheck,
     peertube |-> PeertubeCheck, elk |-> ElkCheck, jitsi |-> JitsiCheck,
     harmony |-> HarmonyCheck, prometheus |-> PrometheusCheck,
     unpoller |-> UnpollerCheck]

(***************************************************************************)
(* What POST detect-versions may write into <app>_installed: it probes the *)
(* guest over SSH and records the application as present or as absent.     *)
(***************************************************************************)
PeertubeDetect   == {TRUE, FALSE}
ElkDetect        == {TRUE, FALSE}
JitsiDetect      == {TRUE, FALSE}
PrometheusDetect == {TRUE, FALSE}
UnpollerDetect   == {TRUE, FALSE}
HarmonyDetect    == {TRUE}

AllDetects ==
    [mastodon |-> {}, ghost |-> {}, jibri |-> {},
     peertube |-> PeertubeDetect, elk |-> ElkDetect, jitsi |-> JitsiDetect,
     prometheus |-> PrometheusDetect, unpoller |-> UnpollerDetect,
     harmony |-> HarmonyDetect]
=============================================================================
