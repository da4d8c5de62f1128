------------------------ MODULE PrometheusProcedures ------------------------
(***************************************************************************)
(* apps/prometheus_app.py and apps/unpoller.py: the Prometheus server and  *)
(* the collector of UniFi metrics beside it.  Both copy one binary, write  *)
(* a unit and start it; both let exporters.py write the scrape jobs.       *)
(***************************************************************************)
EXTENDS ExporterProcedures

PrometheusReleaseCheck == ReleaseCheck

PrometheusDetect == Detect({"binary"}) \o ForgetUnfound

\* Guest, credential and address, and a release: the recorded one, or a check.
PrometheusOpening ==
    << Tool({"configured"}, {}, {}), Tool({"guest"}, {}, {}), Tool({"credential"}, {}, {}),
       Tool({"address"}, {}, {}) >>
PrometheusLatest == Unless({"latest"}, PrometheusReleaseCheck)

\* _snapshot_guest, _backup_guest: no way to skip them here.
PrometheusProtection == When({"backup"}, << Tool({"storage"}, {}, {}) >>) \o << Snapshot >>

\* Binaries, then a bootstrap configuration over the live one, then the unit.
PrometheusFiles ==
    << CopyBinary({"workdir", "user"}), Warn(Cmd({"workdir"}, {}, {"consoles"})),
       Cmd({}, {"scraped", "conf"}, {"conf"}) >> \o ExporterUnit

PrometheusInstall ==
    PrometheusOpening \o PrometheusLatest \o PrometheusProtection
    \o << Connect, Warn(Cmd({}, {}, {"user"})), Cmd({"user"}, {}, {"conf dir"}) >> \o FetchVerified
    \o Recover("files failed", PrometheusFiles, Cleanup)
    \o StartUnit({"binary", "unit", "conf"}) \o << Warn(See({"up"})) >> \o Cleanup
    \o When({"up"}, << Note({}, {"prom up", "promtool"}) >>)
    \o Regenerate({}, {"scraped"})
    \o << Note({"offer", "behind"}, {"installed", "version", "current"}) >>

\* The binary is replaced while the service runs.
ServiceUpgradeHot ==
    << Tool({"latest"}, {}, {}), Tool({"safe"}, {}, {}) >> \o PrometheusProtection
    \o << Connect >> \o FetchVerified
    \o Recover("files failed", << CopyBinary({"workdir"}) >>, Cleanup)
    \o StartUnit({"binary", "unit"}) \o Cleanup
    \o << Note({"offer", "behind"}, {"version", "current"}) >>

\* The service is down from the stop, which is not looked at, to the start; a
\* copy that fails in between leaves it down.
ServiceUpgrade ==
    << Tool({"latest"}, {}, {}), Tool({"safe"}, {}, {}) >> \o PrometheusProtection
    \o << Connect >> \o FetchVerified \o << Warn(Cmd({}, {"up", "live"}, {})) >>
    \o Recover("files failed", << CopyBinary({"workdir"}) >>, Cleanup)
    \o StartUnit({"binary", "unit"}) \o Cleanup
    \o << Note({"offer", "behind"}, {"version", "current"}) >>

PrometheusUpgrade == PrometheusOpening \o ServiceUpgrade

\* Section C of both pre-flights: connection and a tool to download with.
DownloadChecks ==
    << Check(Tool({"credential"}, {}, {})), Check(Tool({"address"}, {}, {})), Check(Connect),
       Check(See({"net"})) >>

PrometheusPreflight ==
    ConfigChecks(<< Check(Tool({"configured"}, {}, {})) >>
                 \o When({"backup"}, << Check(Tool({"storage"}, {}, {})) >>))
    \o ProxmoxChecks \o DownloadChecks \o Verdict

\* unpoller lives on the Prometheus guest and needs an account on the UniFi
\* controller.
UnpollerReleaseCheck == ReleaseCheck

UnpollerDetect == Detect({"binary"})

UnpollerFiles == << Cmd({"conf dir"}, {"conf"}, {"conf"}) >>

\* A configuration that cannot be written leaves the working directory behind.
UnpollerInstall ==
    PrometheusOpening \o << Tool({"unifi"}, {}, {}) >> \o Unless({"latest"}, UnpollerReleaseCheck)
    \o PrometheusProtection
    \o << Connect, Warn(Cmd({}, {}, {"user"})), Cmd({}, {}, {"conf dir"}) >> \o FetchVerified
    \o Recover("files failed", << CopyBinary({"workdir"}) >>, Cleanup)
    \o UnpollerFiles \o Recover("files failed", ExporterUnit, Cleanup)
    \o StartUnit({"binary", "unit", "conf"}) \o << Warn(See({"up"})) >> \o Cleanup
    \o << Note({"offer", "behind"}, {"installed", "version", "current"}) >>
    \o Regenerate({}, {"scraped"})

UnpollerUpgrade == PrometheusOpening \o ServiceUpgrade

UnpollerPreflight ==
    ConfigChecks(<< Check(Tool({"configured"}, {}, {})), Check(Tool({"unifi"}, {}, {})) >>)
    \o << Check(Tool({"guest"}, {}, {})), Refuse("check failed") >>
    \o When({"proxmox host"}, << Check(Tool({"proxmox", "running"}, {}, {})) >>)
    \o DownloadChecks \o << Check(See({"prom up"})) >> \o Verdict

\* run_unpoller_reconfig
UnpollerReconfigure ==
    PrometheusOpening \o << Connect >> \o UnpollerFiles
    \o << Cmd({"binary", "unit", "conf"}, {"up", "live"}, {"up", "live"}) >>
=============================================================================
