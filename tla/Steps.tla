------------------------------- MODULE Steps -------------------------------
(***************************************************************************)
(* The vocabulary in which the application procedures of apps/*.py are     *)
(* written down.  A procedure is a straight line of steps.  What is true   *)
(* of the guest, of the tool's records and of the local variables of the   *)
(* run is a set of facts; a step says which facts it needs, which it       *)
(* removes and adds, and what the code does when it fails.                 *)
(*                                                                         *)
(*   when, unless  facts of the `if' around the step                       *)
(*   need, bar     without need, or with bar, the step fails               *)
(*   del, add      the effect of the step                                  *)
(*   halt, mark    a failure returns (False, log), or adds mark and goes   *)
(*                 on to the next step                                     *)
(*   sure          a local assignment or Setting.set: cannot fail          *)
(***************************************************************************)
EXTENDS Naturals, Sequences

\* A call of the tool itself (a look at its database, an HTTP request, a call
\* of the Proxmox API) that returns (False, ...) when it fails.
Tool(need, del, add) ==
    [when |-> {}, unless |-> {}, need |-> need, bar |-> {},
     del |-> del, add |-> add, halt |-> TRUE, mark |-> {}, sure |-> FALSE]

\* ssh.execute_sudo: a lost connection or an expired timeout is not raised, it
\* is an exit code of -1 like any other failure.
Cmd(need, del, add) == Tool(need \cup {"link"}, del, add)

\* A command that only looks: it fails when what it looks for is not there.
See(need) == Cmd(need, {}, {})

\* Local variables and Setting.set.
Note(del, add) == [Tool({}, del, add) EXCEPT !.sure = TRUE]

\* return False, ...: a step nothing can make succeed.
Give == Tool({"never"}, {}, {})

\* An early return when a fact holds.
Refuse(fact) == [Tool({}, {}, {}) EXCEPT !.bar = {fact}]

\* Failures that only log a warning, that are remembered, that are counted by
\* the check() of a pre-flight.
Warn(step)       == [step EXCEPT !.halt = FALSE]
Else(mark, step) == [step EXCEPT !.halt = FALSE, !.mark = mark]
Check(step)      == Else({"check failed"}, step)
Warned(steps)    == [i \in DOMAIN steps |-> Warn(steps[i])]

\* The `if' around a part of a procedure.
When(given, steps) ==
    [i \in DOMAIN steps |-> [steps[i] EXCEPT !.when = @ \cup given]]
Unless(given, steps) ==
    [i \in DOMAIN steps |-> [steps[i] EXCEPT !.unless = @ \cup given]]
\* "already there": the part is left out when a command finds the facts; a
\* command that fails is taken for one that does not find them.
Missing(there, steps) ==
    << Else({"missing"}, See(there)) >> \o When({"missing"}, steps) \o << Note({"missing"}, {}) >>

\* `with SSHClient.from_credential(...)': a failure to connect is raised and
\* ends the run in its except clause.
Connect == Tool({"reachable"}, {}, {"link"})

\* The opening of every procedure: the guest is configured and in the
\* database, the values that reach a shell are valid, there is a credential
\* and an address.
Opening == << Tool({"configured"}, {}, {}), Tool({"guest"}, {}, {}),
              Tool({"safe"}, {}, {}), Tool({"credential"}, {}, {}),
              Tool({"address"}, {}, {}) >>

\* A snapshot or a vzdump backup through the Proxmox API, polled until its
\* task ends, with a deadline.
Snapshot == Tool({"proxmox"}, {}, {"protected"})

\* A snapshot whose failure is only logged.
ProtectionWarning == Unless({"skip"}, << Warn(Snapshot) >>)

\* Protection by the configured kind, unless the super-admin skips it.
Protection == Unless({"skip"}, When({"backup"}, << Tool({"storage"}, {}, {}) >>)
                               \o << Snapshot >>)

\* _fetch_verified_tarball: a private working directory, the download and its
\* checksum; a failure removes the directory again.
FetchVerified ==
    << Else({"no asset"}, Cmd({"net"}, {}, {"workdir"})) >>
    \o When({"no asset"}, << Warn(Cmd({}, {"workdir"}, {})), Give >>)
\* _cleanup_workdir: its exit code is not looked at.
Cleanup == << Warn(Cmd({}, {"workdir"}, {})) >>

\* A try around some steps: where one of them would return, undo comes first.
Recover(failed, steps, undo) ==
    Unless({failed}, [i \in DOMAIN steps |->
                         IF steps[i].halt THEN Else({failed}, steps[i]) ELSE steps[i]])
    \o When({failed}, undo \o << Give >>)

\* systemctl start: a process that ends right away is no failure of the command.
StartUnit(need) ==
    When({"starts"}, << Cmd(need, {"crashed"}, {"up", "live"}) >>)
    \o Unless({"starts"}, << Cmd(need, {}, {"crashed"}) >>)

\* cp of a new binary; the kernel refuses to write to one that is running.
CopyBinary(need) == [Cmd(need, {"binary"}, {"binary"}) EXCEPT !.bar = {"up"}]

\* systemctl is-active; a service that is not active is started once and looked
\* at again before the run gives up on it.
EnsureUp(start) ==
    << Else({"inactive"}, See({"up"})) >>
    \o When({"inactive"}, << Warn(start), Else({"not running"}, See({"up"})) >>)

\* <app>_update_available is renewed: only a recorded version that is behind the
\* newest release makes an offer.
Offer == << Note({"offer"}, {}) >> \o When({"current", "behind"}, << Note({}, {"offer"}) >>)

\* check_<app>_release: the newest release upstream.
ReleaseCheck == << Tool({"net"}, {}, {}), Tool({"tag"}, {}, {"latest"}) >> \o Offer

\* The version is recorded and the offer of an update stays.
RecordVersionOffering(source) ==
    << Else({"not read"}, See(source)) >>
    \o Unless({"not read"}, << Note({"behind"}, {"version", "current"}) >>)

\* The version is read back from the guest; a failure to read it is ignored.
RecordVersion(source) ==
    << Else({"not read"}, See(source)) >>
    \o Unless({"not read"}, << Note({"offer", "behind"}, {"version", "current"}) >>)

\* detect_<app>_version and the page that calls it: the version found is
\* recorded, and the application counts as installed.
Detect(source) ==
    << Tool({"configured"}, {}, {}), Tool({"guest"}, {}, {}),
       Else({"not found"}, Tool({"safe", "credential", "address"}, {}, {})),
       Else({"not found"}, Connect), Else({"not found"}, See(source)) >>
    \o Unless({"not found"}, << Note({}, {"current", "installed"}) >>)
\* Where nothing is detected an application marked as installed is marked as
\* not installed, whatever the reason was.
ForgetUnfound == When({"not found"}, << Note({"installed", "current"}, {}), Give >>)

\* The last line of a pre-flight: all_pass is checks_failed == 0.
Verdict == << Refuse("check failed") >>
\* Section A of a pre-flight ends early when the configuration is incomplete.
ConfigChecks(steps) == steps \o << Refuse("check failed") >>
\* Section B: the guest on its Proxmox host; a guest without one is not
\* looked at, which only warns.
ProxmoxChecks ==
    << Check(Tool({"guest"}, {}, {})), Refuse("check failed") >>
    \o When({"proxmox host"},
            << Check(Tool({"proxmox", "running"}, {}, {})) >>
            \o Unless({"backup"}, << Check(Tool({"snapshots"}, {}, {})) >>))
=============================================================================
