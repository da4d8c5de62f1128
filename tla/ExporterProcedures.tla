------------------------- MODULE ExporterProcedures -------------------------
(***************************************************************************)
(* apps/exporters.py: metric exporters on guests and on Proxmox hosts,     *)
(* Mastodon's built-in exporter, and the one generator of the Prometheus   *)
(* configuration.  The row of an exporter has a status: "in progress"      *)
(* ("installing", "uninstalling"), "installed", "removed" or "row failed". *)
(***************************************************************************)
EXTENDS Steps

RowStatus(status) == Note({"in progress", "installed", "removed", "row failed"}, {status})

\* A command on the Prometheus guest, over a connection of its own.
PrometheusCmd(need, del, add) == Tool(need \cup {"prom link"}, del, add)

\* _validate_and_install_prometheus_config: only a file that promtool accepts
\* replaces the live one, and Prometheus must reload it.
InstallPrometheusConfig(del, add) ==
    << Tool({"prom reachable"}, {}, {"prom link"}), PrometheusCmd({}, {}, {"new file"}),
       Else({"rejected"}, PrometheusCmd({"promtool"}, {}, {})) >>
    \o When({"rejected"}, << Warn(PrometheusCmd({}, {"new file"}, {})), Give >>)
    \o << PrometheusCmd({"new file"}, {"new file"}, {}), PrometheusCmd({"prom up"}, del, add) >>

\* _regenerate_prometheus_config: the scrape jobs of every row that says
\* installed.  Without a Prometheus guest there is nothing to do.
Regenerate(del, add) ==
    Unless({"no prometheus"}, << Tool({"prom guest"}, {}, {}), Tool({"prom credential"}, {}, {}) >>
                              \o InstallPrometheusConfig(del, add))

\* check_exporter_release, of a known exporter that is not built in.
ExporterReleaseCheck == << Tool({"known"}, {}, {}), Tool({"net"}, {}, {}), Tool({"tag"}, {}, {}) >>

\* detect_exporter_version
ExporterDetect ==
    << Tool({"known"}, {}, {}), Tool({"credential"}, {}, {}), Tool({"address"}, {}, {}), Connect,
       See({"binary"}) >>

\* _render_env_file and its upload, of which only the first can end the run.
ExporterEnv == When({"settings"}, << Tool({"safe"}, {}, {}), Warn(Cmd({}, {"env"}, {"env"})) >>)

ExporterUnit == << Cmd({}, {"unit"}, {"unit"}) >>

\* Unit started, and looked at with a warning; then the row and the scrape job.
ExporterStart ==
    StartUnit({"binary", "unit"}) \o << Warn(See({"up"})) >>

ExporterInstall ==
    << Tool({"instance"}, {}, {}), Tool({"known"}, {}, {}), Tool({"guest"}, {}, {}),
       Tool({"credential"}, {}, {}), Tool({"address"}, {}, {}) >>
    \o ExporterReleaseCheck \o << RowStatus("in progress") >>
    \o Recover("install failed",
               << Connect, Warn(Cmd({}, {}, {"user"})) >> \o FetchVerified
               \o Recover("files failed",
                          << CopyBinary({"workdir", "user"}) >> \o ExporterEnv \o ExporterUnit,
                          Cleanup)
               \o ExporterStart \o Cleanup,
               << RowStatus("row failed") >>)
    \o << RowStatus("installed"), Note({}, {"version"}) >> \o Regenerate({}, {"scraped"})

\* Neither the stop nor the removal of the files is looked at.
ExporterUninstall ==
    << Tool({"instance"}, {}, {}), Tool({"known"}, {}, {}), Tool({"credential"}, {}, {}),
       RowStatus("in progress") >>
    \o Recover("install failed",
               << Connect, Else({"stop warned"}, Cmd({}, {"up", "live", "served", "stop warned"}, {})),
                  Else({"files warned"}, Cmd({}, {"binary", "unit", "env", "files warned"}, {"gone"})) >>,
               << RowStatus("row failed") >>)
    \o << RowStatus("removed") >> \o Regenerate({"scraped"}, {"unscraped"})

\* _install_host_exporter_release: the working directory is removed before the
\* exit code of cp is looked at.
HostExporterRelease ==
    ExporterReleaseCheck \o FetchVerified
    \o << Else({"files failed"}, CopyBinary({"workdir", "user"})) >> \o Cleanup
    \o << Refuse("files failed") >>

\* The IPMI exporter has a configuration file with the credentials of the BMC.
HostExporterConfig ==
    When({"ipmi"}, << Cmd({}, {}, {"conf dir"}), Cmd({"conf dir"}, {"conf"}, {"conf"}) >>)
    \o Unless({"ipmi"}, ExporterEnv)

HostExporterInstall ==
    << Tool({"instance"}, {}, {}), Tool({"known"}, {}, {}), Tool({"guest"}, {}, {}),
       Tool({"credential"}, {}, {}), RowStatus("in progress") >>
    \o Recover("install failed",
               << Connect, Warn(Cmd({}, {}, {"user"})) >>
               \o When({"ipmi"}, << Warn(Cmd({"net"}, {}, {"tools"})) >>)
               \o HostExporterRelease \o HostExporterConfig \o ExporterUnit \o ExporterStart,
               << RowStatus("row failed") >>)
    \o << RowStatus("installed"), Note({}, {"version"}) >> \o Regenerate({}, {"scraped"})

HostExporterUninstall == ExporterUninstall

\* Mastodon's own exporter: guest, directory, credential, address.
MastodonExporterOpening ==
    << Tool({"guest"}, {}, {}), Tool({"safe"}, {}, {}), Tool({"credential"}, {}, {}),
       Tool({"address"}, {}, {}) >>

\* The old lines leave .env.production, which only warns, and the new ones are
\* added, which must not fail.
MastodonExporterEnv ==
    << Connect, Warn(Cmd({"env file"}, {"exporter env"}, {})),
       Cmd({"env file"}, {}, {"exporter env"}) >>

\* The Mastodon units are restarted one by one; a failure only warns.
MastodonRestart ==
    << Else({"restart warned"}, Cmd({}, {"up", "live", "restart warned"}, {"up", "live"})) >>

\* enable_mastodon_exporter: a row that says installed is taken at its word.
MastodonExporterEnable ==
    << Tool({"guest"}, {}, {}) >> \o When({"installed"}, << Note({}, {"already"}) >>)
    \o Unless({"already"},
              MastodonExporterOpening \o MastodonExporterEnv
              \o When({"external"},
                      << Cmd({}, {"unit"}, {"unit"}), Warn(Cmd({"unit"}, {}, {"collector"})) >>)
              \o Unless({"external"}, << Warn(Cmd({}, {"collector"}, {})) >>)
              \o MastodonRestart \o << Warn(See({"collector"})), RowStatus("installed") >>
              \o Regenerate({}, {"scraped"}))

\* disable_mastodon_exporter: what fails on the guest only warns.
MastodonExporterDisable ==
    MastodonExporterOpening
    \o << Connect, Else({"files warned"}, Cmd({"env file"}, {"exporter env", "files warned"}, {"gone"})),
          Warn(Cmd({}, {"collector", "unit"}, {})) >>
    \o MastodonRestart \o << RowStatus("removed") >> \o Regenerate({"scraped"}, {"unscraped"})

\* reconfigure_mastodon_exporter: of a row that says installed; here the unit is
\* not looked at either.
MastodonExporterReconfigure ==
    << Tool({"guest"}, {}, {}), Tool({"installed"}, {}, {}) >>
    \o MastodonExporterOpening \o MastodonExporterEnv
    \o When({"external"},
            << Warn(Cmd({}, {"unit"}, {"unit"})), Warn(Cmd({"unit"}, {}, {"collector"})) >>)
    \o Unless({"external"}, << Warn(Cmd({}, {"collector", "unit"}, {})) >>)
    \o MastodonRestart \o << Warn(See({"collector"})), Note({}, {"new port"}) >>
    \o Regenerate({"scraped"}, {"scraped", "port scraped"})
=============================================================================
