------------------------- MODULE HarmonyProcedures -------------------------
(***************************************************************************)
(* apps/harmony.py: the upgrade of a self-hosted Harmony with its operator *)
(* CLI, gated by the CLI's own doctor.  "new" is that the checkout and the *)
(* images are at the newest release.                                       *)
(***************************************************************************)
EXTENDS Steps

\* check_harmony_release: a tag that is not X.Y.Z is refused.
HarmonyReleaseCheck == ReleaseCheck

\* detect_harmony_version and the page's route, which also renews the offer and
\* never marks Harmony as not installed.
HarmonyDetect ==
    Detect({"cli", "on release"}) \o When({"not found"}, << Give >>)
    \o Unless({"new"}, << Note({}, {"behind"}) >>) \o When({"new"}, << Note({"behind"}, {}) >>)
    \o When({"latest"}, Offer)

\* _resolve_target
HarmonyTarget == Opening

\* evaluate_doctor_output and check_realtime_policy: containers, migrations and
\* auth must pass, database and livekit must not fail, and realtime.messages
\* must have a SELECT policy.
HarmonyHealthy == {"up", "migrated", "policy"}

\* run_harmony_health_check, on demand
HarmonyHealth == HarmonyTarget \o << Connect, See(HarmonyHealthy) >>

HarmonyConfigChecks ==
    ConfigChecks(<< Check(Tool({"configured"}, {}, {})), Check(Tool({"safe"}, {}, {})) >>
                 \o When({"backup"}, << Check(Tool({"storage"}, {}, {})) >>)
                 \o When({"latest"}, << Check(Tool({"tag"}, {}, {})) >>))

\* Section C: CLI, .env, Docker Compose, no local change to a tracked file, disk
\* space, a vX.Y.Z release.
HarmonyGuestChecks ==
    << Check(Tool({"credential"}, {}, {})), Refuse("check failed"),
       Check(Tool({"address"}, {}, {})), Refuse("check failed"),
       Check(Connect), Check(See({"cli"})), Check(See({"env"})), Check(See({"compose"})),
       Check([See({"git"}) EXCEPT !.bar = {"edits"}]), Check(See({"space"})),
       Check(See({"cli", "on release"})) >>

HarmonyPreflight ==
    HarmonyConfigChecks \o ProxmoxChecks \o HarmonyGuestChecks \o Verdict

\* _run_protection
HarmonyProtection == Protection

\* _stream_update: `harmony update --version', which refuses a dirty checkout,
\* streamed until it ends or its deadline stops it.  [the CLI is external]
HarmonyUpdate ==
    [Cmd({"cli", "env", "compose", "git", "space", "net"},
         {"version", "up", "live", "migrated"}, {"new", "up", "live", "migrated"})
     EXCEPT !.bar = {"edits"}]

\* Up to three looks, thirty seconds apart, at the version and the health gates.
HarmonyVerify ==
    << Else({"unhealthy"}, See(HarmonyHealthy \cup {"new"})) >>
    \o When({"unhealthy"}, << Warn(Cmd(HarmonyHealthy \cup {"new"}, {"unhealthy"}, {})) >>)
    \o When({"unhealthy"}, << Warn(Cmd(HarmonyHealthy \cup {"new"}, {"unhealthy"}, {})) >>)
    \o << Refuse("unhealthy") >>

\* The version to upgrade to is the one the latest check recorded, and must be
\* above the recorded and the running one.  The CLI's database backup must
\* succeed unless protection is skipped.
HarmonyUpgrade ==
    HarmonyTarget \o << Tool({"latest"}, {}, {}), Tool({"tag"}, {}, {}) >>
    \o When({"current"}, << Tool({"behind"}, {}, {}) >>)
    \o HarmonyProtection \o << Connect, See({"cli", "on release"}), Refuse("new") >>
    \o << Else({"dump failed"}, Cmd({"compose", "space"}, {}, {"dumped"})) >>
    \o Unless({"skip"}, << Refuse("dump failed") >>)
    \o << HarmonyUpdate >> \o HarmonyVerify
    \o << Note({"offer", "behind"}, {"version", "current"}) >>
=============================================================================
