----------------------------- MODULE Deployment -----------------------------
(***************************************************************************)
(* What stays on a host between two runs of the program: the two names of   *)
(* the binary, which `update` replaces one after the other, and the service  *)
(* that `agent install`, `server install` and `agent uninstall` describe to  *)
(* systemd or launchd step by step.  Each of these commands may fail or die  *)
(* at every step; meanwhile the service runs, adds firewall rules and is     *)
(* restarted, and the host reboots.                                          *)
(***************************************************************************)
EXTENDS Integers, Sequences, FiniteSets, SequencesExt

CONSTANTS
    MaxRelease,  \* releases that are published
    Options,     \* what a unit is rendered from: --enforce, --root, or --listen
    MaxFaults    \* bound: failing or dying steps, and changes of the host's backends

Names == <<"breachharbor", "bh">>   \* siblingBinaryNames
ServiceName == Names[1]             \* the name the service was installed by
Candidates == <<"nft", "ipset">>    \* two of Detect's backends, in its order
Absent == "absent"
Torn == "torn"                      \* a part of a unit file
Missing == -1                       \* no file
Broken == 0                         \* a part of a binary, or one whose checksum is wrong
Releases == 1..MaxRelease

ASSUME DeploymentAssumption ==
    /\ MaxRelease \in Nat \ {0} /\ MaxFaults \in Nat
    /\ Absent \notin Options /\ Torn \notin Options

VARIABLES
    file,      \* per name: the release it holds, Broken, or Missing
    update,    \* the running update: where it is, its executable's release, the
               \* release asked for, the downloaded binary, the names still to do
    cut,       \* history: an update ended between the two names, and none was complete since
    kind,      \* the service: "agent" or "server"
    manager,   \* "systemd" or "launchd"
    unit,      \* the unit file or plist: its option, Torn or Absent
    loaded,    \* what the manager has read of it
    enabled,   \* systemd starts it at boot
    daemon,    \* the running service, or NoDaemon
    cmd,       \* the running command: its steps left and, if it installs, its option
    done,      \* the last command's result: an option was installed, or all uninstalled
    usable,    \* backends whose tools the host has
    rules,     \* backends that hold rules of the agent
    survived,  \* history: the last uninstall could not stop the service
    moved,     \* history: Detect's choice has changed since the last boot
    faults     \* bound

binaries == <<file, update, cut>>
host == <<kind, manager>>
service == <<unit, loaded, enabled, daemon>>
command == <<cmd, done, survived>>
firewall == <<usable, rules, moved>>
vars == <<binaries, host, service, command, firewall, faults>>

NoUpdate == [pc |-> "idle", from |-> Broken, rel |-> Broken, image |-> Broken, todo |-> <<>>]
NoCommand == [steps |-> <<>>, option |-> Absent]
Daemons == [option : Options, backend : ToSet(Candidates) \cup {Absent}, release : Releases \cup {Broken}]
NoDaemon == [option |-> Absent, backend |-> Absent, release |-> Broken]
NoResult == [what |-> "none", option |-> Absent]
Uninstalled == [what |-> "uninstalled", option |-> Absent]
Installed(o) == [what |-> "installed", option |-> o]
Steps == {"write", "reload", "enable", "bootout", "bootstrap", "stop", "remove", "flush"}

TypeOK ==
    /\ file \in [ToSet(Names) -> Releases \cup {Broken, Missing}]
    /\ update \in [pc : {"idle", "fetch", "extract", "copy", "rename"}, from : Releases \cup {Broken},
                   rel : Releases \cup {Broken}, image : Releases \cup {Broken},
                   todo : {Names, Tail(Names), <<>>}]
    /\ cut \in BOOLEAN
    /\ kind \in {"agent", "server"} /\ manager \in {"systemd", "launchd"}
    /\ unit \in Options \cup {Torn, Absent} /\ loaded \in Options \cup {Torn, Absent}
    /\ enabled \in BOOLEAN
    /\ daemon \in Daemons \cup {NoDaemon}
    /\ cmd \in [steps : Seq(Steps), option : Options \cup {Absent}]
    /\ done \in {NoResult, Uninstalled} \cup {Installed(o) : o \in Options}
    /\ usable \subseteq ToSet(Candidates) /\ rules \subseteq ToSet(Candidates)
    /\ survived \in BOOLEAN /\ moved \in BOOLEAN
    /\ faults \in 0..MaxFaults

\* install.sh has put one or both names there.
Init ==
    /\ file \in {f \in [ToSet(Names) -> {1, Missing}] : f[ServiceName] = 1}
    /\ update = NoUpdate /\ cut = FALSE
    /\ kind \in {"agent", "server"} /\ manager \in {"systemd", "launchd"}
    /\ unit = Absent /\ loaded = Absent /\ enabled = FALSE /\ daemon = NoDaemon
    /\ cmd = NoCommand /\ done = NoResult /\ survived = FALSE
    /\ usable \in (SUBSET ToSet(Candidates)) \ {{}} /\ rules = {} /\ moved = FALSE
    /\ faults = 0

Faulty == faults < MaxFaults /\ faults' = faults + 1

-----------------------------------------------------------------------------
(* update.                                                                 *)

\* Resolve: the tag of any published release, or the latest.
Resolve == Releases

\* runUpdateCmd, by either name, for any tag that is not its own version.
BeginUpdate(n, rel) ==
    /\ update.pc = "idle"
    /\ file[n] \in Releases
    /\ rel # file[n]
    /\ update' = [NoUpdate EXCEPT !.pc = "fetch", !.from = file[n], !.rel = rel]
    /\ UNCHANGED <<file, cut, host, service, command, firewall, faults>>

\* download: the file, or, with no error, a part or another version of it.
Downloads(rel) == {rel, Broken}

\* verifyChecksum: only the tarball that checksums.txt names passes.
Verified(tarball) == tarball # Broken

\* Fetch, with the tarball that arrives: it is verified ...
Fetch(tarball) ==
    /\ update.pc = "fetch"
    /\ tarball \in Downloads(update.rel)
    /\ update' = IF Verified(tarball) THEN [update EXCEPT !.pc = "extract", !.image = tarball]
                 ELSE NoUpdate
    /\ UNCHANGED <<file, cut, host, service, command, firewall, faults>>

\* ... and the binary is extracted, in whole (otherwise AbortUpdate).
Extract ==
    /\ update.pc = "extract"
    /\ update' = [update EXCEPT !.pc = "copy", !.todo = Names]
    /\ UNCHANGED <<file, cut, host, service, command, firewall, faults>>

\* Plausible bug: the copy goes straight into the target.
CopyInPlace ==
    /\ update.pc = "copy"
    /\ update.todo # <<>> /\ file[Head(update.todo)] # Missing
    /\ file' = [file EXCEPT ![Head(update.todo)] = Broken]
    /\ update' = [update EXCEPT !.pc = "rename"]
    /\ UNCHANGED <<cut, host, service, command, firewall, faults>>

\* Install copies the binary into a temporary file beside the next target,
\* closes it and makes it executable.
Copy ==
    /\ update.pc = "copy"
    /\ update.todo # <<>> /\ file[Head(update.todo)] # Missing
    /\ update' = [update EXCEPT !.pc = "rename"]
    /\ UNCHANGED <<file, cut, host, service, command, firewall, faults>>

Rename ==
    /\ update.pc = "rename"
    /\ file' = [file EXCEPT ![Head(update.todo)] = update.image]
    /\ update' = [update EXCEPT !.pc = "copy", !.todo = Tail(@)]
    /\ UNCHANGED <<cut, host, service, command, firewall, faults>>

\* A sibling that is not there.
Skip ==
    /\ update.pc = "copy"
    /\ update.todo # <<>> /\ file[Head(update.todo)] = Missing
    /\ update' = [update EXCEPT !.todo = Tail(@)]
    /\ UNCHANGED <<file, cut, host, service, command, firewall, faults>>

EndUpdate ==
    /\ update.pc = "copy" /\ update.todo = <<>>
    /\ update' = NoUpdate
    /\ cut' = FALSE
    /\ UNCHANGED <<file, host, service, command, firewall, faults>>

\* A step fails, or the process is killed: at most temporary files are left.
AbortUpdate ==
    /\ update.pc # "idle"
    /\ Faulty
    /\ update' = NoUpdate
    /\ cut' = (cut \/ Len(update.todo) = 1)
    /\ UNCHANGED <<file, host, service, command, firewall>>

-----------------------------------------------------------------------------
(* install and uninstall.                                                  *)

\* Plausible bug: systemd is not told to read the unit again.
InstallWithoutReload == <<"write", "enable">>

\* Systemd.Install and Launchd.Install, of the agent and of the server.
AgentSystemdInstall == <<"write", "reload", "enable">>
AgentLaunchdInstall == <<"write", "bootout", "bootstrap", "enable">>
ServerSystemdInstall == <<"write", "reload", "enable">>
ServerLaunchdInstall == <<"write", "bootout", "bootstrap", "enable">>

\* Systemd.Uninstall and Launchd.Uninstall: nothing if there is no unit.
SystemdUninstall == IF unit = Absent THEN <<>> ELSE <<"stop", "remove", "reload">>
LaunchdUninstall == IF unit = Absent THEN <<>> ELSE <<"bootout", "remove">>

InstallSteps ==
    CASE kind = "agent" /\ manager = "systemd" -> AgentSystemdInstall
      [] kind = "agent" /\ manager = "launchd" -> AgentLaunchdInstall
      [] kind = "server" /\ manager = "systemd" -> ServerSystemdInstall
      [] kind = "server" /\ manager = "launchd" -> ServerLaunchdInstall

\* runAgentInstall, runServerInstall.
BeginInstall(o) ==
    /\ cmd = NoCommand
    /\ cmd' = [steps |-> InstallSteps, option |-> o]
    /\ done' = NoResult
    /\ UNCHANGED <<binaries, host, service, survived, firewall, faults>>

\* Plausible bug: the rules are flushed while the service still runs.
FlushFirst(steps) == <<"flush">> \o steps
\* "Uninstall implies flush."
ThenFlush(steps) == Append(steps, "flush")

\* runAgentUninstall; there is no `server uninstall`.
BeginUninstall ==
    /\ cmd = NoCommand
    /\ kind = "agent"
    /\ cmd' = [steps |-> ThenFlush(IF manager = "systemd" THEN SystemdUninstall ELSE LaunchdUninstall),
               option |-> Absent]
    /\ done' = NoResult
    /\ survived' = (unit = Absent /\ daemon # NoDaemon)
    /\ UNCHANGED <<binaries, host, service, firewall, faults>>

\* Detect: the first backend that is usable.
Detect(backends) ==
    IF \E i \in DOMAIN Candidates : Candidates[i] \in backends
    THEN Candidates[CHOOSE i \in DOMAIN Candidates :
             Candidates[i] \in backends /\ \A j \in 1..(i - 1) : Candidates[j] \notin backends]
    ELSE Absent

\* The manager starts what it has loaded, unless the binary is not there or
\* does not run.
Started(o) ==
    IF o \in Options /\ file[ServiceName] \in Releases
    THEN [option |-> o, backend |-> Detect(usable), release |-> file[ServiceName]]
    ELSE NoDaemon

Advance == [cmd EXCEPT !.steps = Tail(@)]
At(step) == cmd.steps # <<>> /\ Head(cmd.steps) = step

\* os.WriteFile of the rendered unit.
Write ==
    /\ At("write")
    /\ unit' = cmd.option
    /\ UNCHANGED <<loaded, enabled, daemon, rules>>

\* systemctl daemon-reload.
Reload ==
    /\ At("reload")
    /\ loaded' = unit
    /\ UNCHANGED <<unit, enabled, daemon, rules>>

\* systemctl enable --now: a service that runs already goes on as it is;
\* launchctl enable: nothing, for a service nobody disabled.
Enable ==
    /\ At("enable")
    /\ manager = "systemd" => loaded \in Options
    /\ enabled' = (manager = "systemd")
    /\ daemon' = IF daemon = NoDaemon THEN Started(loaded) ELSE daemon
    /\ UNCHANGED <<unit, loaded, rules>>

\* launchctl bootout.
Bootout ==
    /\ At("bootout")
    /\ loaded # Absent
    /\ loaded' = Absent
    /\ daemon' = NoDaemon
    /\ UNCHANGED <<unit, enabled, rules>>

\* launchctl bootstrap: refuses what is loaded already.
Bootstrap ==
    /\ At("bootstrap")
    /\ loaded = Absent /\ unit \in Options
    /\ loaded' = unit
    /\ daemon' = Started(unit)
    /\ UNCHANGED <<unit, enabled, rules>>

\* systemctl disable --now.
Stop ==
    /\ At("stop")
    /\ enabled' = FALSE
    /\ daemon' = NoDaemon
    /\ UNCHANGED <<unit, loaded, rules>>

RemoveUnit ==
    /\ At("remove")
    /\ unit' = Absent
    /\ UNCHANGED <<loaded, enabled, daemon, rules>>

\* Flush of the backend that Detect chooses now, if there is one.
Flush ==
    /\ At("flush")
    /\ rules' = rules \ {Detect(usable)}
    /\ UNCHANGED service

\* A step succeeds; the last one makes the command report success.
Step ==
    /\ Write \/ Reload \/ Enable \/ Bootout \/ Bootstrap \/ Stop \/ RemoveUnit \/ Flush
    /\ cmd' = IF Len(cmd.steps) = 1 THEN NoCommand ELSE Advance
    /\ done' = IF Len(cmd.steps) > 1 THEN NoResult
               ELSE IF cmd.option = Absent THEN Uninstalled ELSE Installed(cmd.option)
    /\ UNCHANGED <<binaries, host, survived, usable, moved, faults>>

\* "Tolerate": `disable` or `bootout` fails, for lack of a service or otherwise.
StepTolerated ==
    /\ At("stop") \/ At("bootout")
    /\ IF loaded = Absent /\ daemon = NoDaemon THEN faults' = faults ELSE Faulty
    /\ cmd' = Advance
    /\ survived' = (survived \/ (cmd.option = Absent /\ daemon # NoDaemon))
    /\ UNCHANGED <<binaries, host, service, done, firewall>>

\* Any other step fails, half done, or the command is killed in any step.
AbortCommand ==
    /\ cmd # NoCommand
    /\ Faulty
    /\ unit' \in IF At("write") THEN {unit, Torn} ELSE {unit}
    /\ enabled' \in IF At("enable") /\ manager = "systemd" /\ loaded \in Options THEN {enabled, TRUE} ELSE {enabled}
    /\ cmd' = NoCommand
    /\ UNCHANGED <<binaries, host, loaded, daemon, done, survived, firewall>>

\* The manager refuses the step that is next: the unit is torn, or launchd
\* still has the old one.
Refused ==
    /\ \/ At("enable") /\ manager = "systemd" /\ loaded \notin Options
       \/ At("bootstrap") /\ (loaded # Absent \/ unit \notin Options)
    /\ cmd' = NoCommand
    /\ UNCHANGED <<binaries, host, service, done, survived, firewall, faults>>

-----------------------------------------------------------------------------
(* The service and its host.                                               *)

\* The running agent blocks an address.
Block ==
    /\ kind = "agent" /\ daemon # NoDaemon
    /\ daemon.backend \in usable
    /\ rules' = rules \cup {daemon.backend}
    /\ UNCHANGED <<binaries, host, service, command, usable, moved, faults>>

\* The service ends: Restart=on-failure, KeepAlive.
Restart ==
    /\ daemon # NoDaemon
    /\ daemon' = Started(loaded)
    /\ UNCHANGED <<binaries, host, unit, loaded, enabled, command, firewall, faults>>

\* A backend's tools are installed, or the backend is switched off.
ChangeBackends(backends) ==
    /\ Faulty
    /\ backends # usable
    /\ usable' = backends
    /\ moved' = (moved \/ Detect(backends) # Detect(usable))
    /\ UNCHANGED <<binaries, host, service, command, rules>>

\* Rules are gone, units are read again.
Reboot ==
    /\ Faulty
    /\ update' = NoUpdate /\ cut' = (cut \/ Len(update.todo) = 1)
    /\ cmd' = NoCommand
    /\ loaded' = IF manager = "launchd" /\ unit = Torn THEN Absent ELSE unit
    /\ daemon' = IF manager = "launchd" \/ enabled THEN Started(unit) ELSE NoDaemon
    /\ rules' = {} /\ moved' = FALSE
    /\ UNCHANGED <<file, host, unit, enabled, done, survived, usable>>

-----------------------------------------------------------------------------
Next ==
    \/ \E n \in ToSet(Names), rel \in Resolve : BeginUpdate(n, rel)
    \/ \E tarball \in Releases \cup {Broken} : Fetch(tarball)
    \/ Extract \/ Copy \/ Rename \/ Skip \/ EndUpdate \/ AbortUpdate
    \/ \E o \in Options : BeginInstall(o)
    \/ BeginUninstall \/ Step \/ StepTolerated \/ AbortCommand \/ Refused
    \/ Block \/ Restart \/ Reboot
    \/ \E backends \in SUBSET ToSet(Candidates) : ChangeBackends(backends)

Spec == Init /\ [][Next]_vars

-----------------------------------------------------------------------------
(* Properties.                                                             *)

\* Both names always hold a whole, verified release, and so does the running
\* service, wherever an update is cut off; and unless one was cut off between
\* the two, they hold the same one.  (Checked together with TypeOK.)
BinariesAgree ==
    /\ TypeOK
    /\ \A n \in ToSet(Names) : file[n] # Broken
    /\ daemon # NoDaemon => daemon.release # Broken
    /\ update.pc = "idle" /\ ~cut =>
        \A m, n \in ToSet(Names) : Missing \notin {file[m], file[n]} => file[m] = file[n]

\* "Idempotent: installing over an existing install just rewrites the unit and
\* re-enables it" (systemd.go:118-120): after an install that reports success
\* the manager has read exactly what was asked for and starts it at every
\* boot, whatever half-done installs came before and whatever restarts come
\* after; under launchd nothing else is running either.  (systemd lets the old
\* process go on with the old options.)
InstallTakesEffect ==
    done.what = "installed" =>
        /\ unit = done.option /\ loaded = done.option
        /\ manager = "systemd" => enabled
        /\ manager = "launchd" /\ daemon # NoDaemon => daemon.option = done.option

\* "Uninstall implies flush - remove every rule this agent ever added"
\* (agent_install.go:80-81): when `uninstall` reports success, no service runs
\* or comes back, and no rule is left or added later; unless stopping it had
\* failed, which is tolerated, or Detect no longer chooses the backend that
\* the agent had been using.
UninstallLeavesNothing ==
    done = Uninstalled /\ ~survived =>
        /\ unit = Absent /\ daemon = NoDaemon
        /\ rules # {} => moved
=============================================================================
