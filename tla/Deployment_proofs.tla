------------------------- MODULE Deployment_proofs -------------------------
(***************************************************************************)
(* What `update`, `install` and `uninstall` leave on a host, for every       *)
(* number of releases, options and faults.  Three arguments, each over the   *)
(* whole history: which names an update has replaced when it is cut off;     *)
(* what a command has achieved when a given step is next; and which backend  *)
(* the rules are in.                                                         *)
(***************************************************************************)
EXTENDS Deployment, SequenceTheorems, TLAPS

-----------------------------------------------------------------------------
(* The sequences.                                                          *)

LEMMA NamesFacts ==
    /\ Names # <<>> /\ Tail(Names) # <<>> /\ Tail(Tail(Names)) = <<>>
    /\ Len(Names) = 2 /\ Len(Tail(Names)) = 1
    /\ Head(Names) = "breachharbor" /\ Head(Tail(Names)) = "bh"
    /\ ToSet(Names) = {"breachharbor", "bh"} /\ ServiceName = "breachharbor"
    BY DEF Names, ToSet, ServiceName

\* The steps of each command from a given one to its end.
EnableOn == <<"enable">>
ReloadOn == <<"reload", "enable">>
WriteReloadOn == <<"write", "reload", "enable">>
BootstrapOn == <<"bootstrap", "enable">>
BootoutOn == <<"bootout", "bootstrap", "enable">>
WriteBootoutOn == <<"write", "bootout", "bootstrap", "enable">>
FlushOn == <<"flush">>
ReloadFlushOn == <<"reload", "flush">>
RemoveReloadOn == <<"remove", "reload", "flush">>
StopOn == <<"stop", "remove", "reload", "flush">>
RemoveFlushOn == <<"remove", "flush">>
BootoutRemoveOn == <<"bootout", "remove", "flush">>

SystemdInstalls == {WriteReloadOn, ReloadOn, EnableOn}
LaunchdInstalls == {WriteBootoutOn, BootoutOn, BootstrapOn, EnableOn}
SystemdUninstalls == {StopOn, RemoveReloadOn, ReloadFlushOn, FlushOn}
LaunchdUninstalls == {BootoutRemoveOn, RemoveFlushOn, FlushOn}

\* What is left of an install is an end of its manager's steps, and so for an
\* uninstall.
Planned ==
    \/ cmd = NoCommand
    \/ cmd.option \in Options /\ manager = "systemd" /\ cmd.steps \in SystemdInstalls
    \/ cmd.option \in Options /\ manager = "launchd" /\ cmd.steps \in LaunchdInstalls
    \/ cmd.option = Absent /\ manager = "systemd" /\ cmd.steps \in SystemdUninstalls
    \/ cmd.option = Absent /\ manager = "launchd" /\ cmd.steps \in LaunchdUninstalls

\* A plan's first step and what comes after it.
IsPlan(plan, first, rest) ==
    plan \in Seq(Steps) /\ plan # <<>> /\ Len(plan) > 1 /\ Head(plan) = first /\ Tail(plan) = rest
IsEnd(plan, last) ==
    plan \in Seq(Steps) /\ plan # <<>> /\ Len(plan) = 1 /\ Head(plan) = last

LEMMA Plans ==
    /\ IsPlan(WriteReloadOn, "write", ReloadOn) /\ IsPlan(ReloadOn, "reload", EnableOn)
    /\ IsPlan(WriteBootoutOn, "write", BootoutOn) /\ IsPlan(BootoutOn, "bootout", BootstrapOn)
    /\ IsPlan(BootstrapOn, "bootstrap", EnableOn) /\ IsEnd(EnableOn, "enable")
    /\ IsPlan(StopOn, "stop", RemoveReloadOn) /\ IsPlan(RemoveReloadOn, "remove", ReloadFlushOn)
    /\ IsPlan(ReloadFlushOn, "reload", FlushOn) /\ IsEnd(FlushOn, "flush")
    /\ IsPlan(BootoutRemoveOn, "bootout", RemoveFlushOn) /\ IsPlan(RemoveFlushOn, "remove", FlushOn)
<1> USE DEF IsPlan, IsEnd, Steps
<1>1. IsEnd(EnableOn, "enable") /\ IsEnd(FlushOn, "flush")
    BY DEF EnableOn, FlushOn
<1>2. IsPlan(ReloadOn, "reload", EnableOn)
    BY DEF ReloadOn, EnableOn
<1>3. IsPlan(WriteReloadOn, "write", ReloadOn)
    BY DEF WriteReloadOn, ReloadOn
<1>4. IsPlan(BootstrapOn, "bootstrap", EnableOn)
    BY DEF BootstrapOn, EnableOn
<1>5. IsPlan(BootoutOn, "bootout", BootstrapOn)
    BY DEF BootoutOn, BootstrapOn
<1>6. IsPlan(WriteBootoutOn, "write", BootoutOn)
    BY DEF WriteBootoutOn, BootoutOn
<1>7. IsPlan(ReloadFlushOn, "reload", FlushOn)
    BY DEF ReloadFlushOn, FlushOn
<1>8. IsPlan(RemoveReloadOn, "remove", ReloadFlushOn)
    BY DEF RemoveReloadOn, ReloadFlushOn
<1>9. IsPlan(StopOn, "stop", RemoveReloadOn)
    BY DEF StopOn, RemoveReloadOn
<1>10. IsPlan(RemoveFlushOn, "remove", FlushOn)
    BY DEF RemoveFlushOn, FlushOn
<1>11. IsPlan(BootoutRemoveOn, "bootout", RemoveFlushOn)
    BY DEF BootoutRemoveOn, RemoveFlushOn
<1> HIDE DEF IsPlan, IsEnd, Steps
<1> QED
    BY <1>1, <1>2, <1>3, <1>4, <1>5, <1>6, <1>7, <1>8, <1>9, <1>10, <1>11

LEMMA AppendFlush ==
    /\ ThenFlush(<<"stop", "remove", "reload">>) = StopOn
    /\ ThenFlush(<<"bootout", "remove">>) = BootoutRemoveOn
    /\ ThenFlush(<<>>) = FlushOn
<1>1. ASSUME NEW s \in Seq(Steps), NEW t \in Seq(Steps), Len(t) = Len(s) + 1,
             \A i \in 1..Len(s) : t[i] = s[i], t[Len(s) + 1] = "flush"
      PROVE  Append(s, "flush") = t
    <2>1. /\ Append(s, "flush") \in Seq(Steps) /\ Len(Append(s, "flush")) = Len(s) + 1
          /\ \A i \in 1..Len(s) : Append(s, "flush")[i] = s[i]
          /\ Append(s, "flush")[Len(s) + 1] = "flush"
        BY AppendProperties DEF Steps
    <2>2. \A i \in 1..Len(t) : Append(s, "flush")[i] = t[i]
        BY <1>1, <2>1
    <2> QED
        BY <1>1, <2>1, <2>2, SeqEqual
<1>2. ThenFlush(<<"stop", "remove", "reload">>) = <<"stop", "remove", "reload", "flush">>
    <2> DEFINE s == <<"stop", "remove", "reload">>
               t == <<"stop", "remove", "reload", "flush">>
    <2>1. s \in Seq(Steps) /\ t \in Seq(Steps) /\ Len(t) = Len(s) + 1
        BY DEF Steps
    <2>2. (\A i \in 1..Len(s) : t[i] = s[i]) /\ t[Len(s) + 1] = "flush"
        OBVIOUS
    <2> HIDE DEF s, t
    <2>3. Append(s, "flush") = t
        BY <1>1, <2>1, <2>2
    <2> QED
        BY <2>3 DEF s, t, ThenFlush
<1>3. ThenFlush(<<"bootout", "remove">>) = <<"bootout", "remove", "flush">>
    <2> DEFINE s == <<"bootout", "remove">>
               t == <<"bootout", "remove", "flush">>
    <2>1. s \in Seq(Steps) /\ t \in Seq(Steps) /\ Len(t) = Len(s) + 1
        BY DEF Steps
    <2>2. (\A i \in 1..Len(s) : t[i] = s[i]) /\ t[Len(s) + 1] = "flush"
        OBVIOUS
    <2> HIDE DEF s, t
    <2>3. Append(s, "flush") = t
        BY <1>1, <2>1, <2>2
    <2> QED
        BY <2>3 DEF s, t, ThenFlush
<1>4. ThenFlush(<<>>) = <<"flush">>
    BY DEF ThenFlush
<1> QED
    BY <1>2, <1>3, <1>4 DEF StopOn, BootoutRemoveOn, FlushOn

\* What comes after each step.
Follows(step, next) == At(step) => Len(cmd.steps) > 1 /\ Head(Tail(cmd.steps)) = next
IsLast(step) == At(step) => Len(cmd.steps) = 1

LEMMA Sequels ==
    ASSUME Planned
    PROVE  /\ At("write") => cmd.option \in Options
           /\ manager = "systemd" => Follows("write", "reload")
           /\ manager = "launchd" => Follows("write", "bootout")
           /\ cmd.option \in Options => Follows("reload", "enable")
           /\ cmd.option \in Options /\ At("reload") => manager = "systemd"
           /\ cmd.option = Absent => Follows("reload", "flush")
           /\ At("enable") => cmd.option \in Options
           /\ IsLast("enable")
           /\ At("bootout") => manager = "launchd"
           /\ cmd.option \in Options => Follows("bootout", "bootstrap")
           /\ cmd.option = Absent => Follows("bootout", "remove")
           /\ At("bootstrap") => manager = "launchd" /\ cmd.option \in Options
           /\ Follows("bootstrap", "enable")
           /\ At("stop") => cmd.option = Absent
           /\ Follows("stop", "remove")
           /\ At("remove") => cmd.option = Absent
           /\ manager = "systemd" => Follows("remove", "reload")
           /\ manager = "launchd" => Follows("remove", "flush")
           /\ At("flush") => cmd.option = Absent
           /\ IsLast("flush")
<1> USE DeploymentAssumption, Plans DEF DeploymentAssumption, At, Follows, IsLast, IsPlan, IsEnd
<1>1. CASE cmd = NoCommand
    BY <1>1 DEF NoCommand
<1>2. CASE cmd.option \in Options /\ manager = "systemd" /\ cmd.steps \in SystemdInstalls
    BY <1>2 DEF SystemdInstalls
<1>3. CASE cmd.option \in Options /\ manager = "launchd" /\ cmd.steps \in LaunchdInstalls
    BY <1>3 DEF LaunchdInstalls
<1>4. CASE cmd.option = Absent /\ manager = "systemd" /\ cmd.steps \in SystemdUninstalls
    BY <1>4 DEF SystemdUninstalls
<1>5. CASE cmd.option = Absent /\ manager = "launchd" /\ cmd.steps \in LaunchdUninstalls
    BY <1>5 DEF LaunchdUninstalls
<1> QED
    BY <1>1, <1>2, <1>3, <1>4, <1>5 DEF Planned

LEMMA AdvancePlan ==
    ASSUME TypeOK, Planned, Len(cmd.steps) # 1, cmd # NoCommand, cmd' = Advance, manager' = manager
    PROVE  Planned' /\ cmd' # NoCommand /\ cmd'.option = cmd.option /\ cmd'.steps = Tail(cmd.steps)
<1>1. cmd'.option = cmd.option /\ cmd'.steps = Tail(cmd.steps)
    BY DEF TypeOK, Advance
<1>0. cmd'.steps # <<>> => cmd' # NoCommand
    BY DEF NoCommand
<1>2. CASE cmd.option \in Options /\ manager = "systemd" /\ cmd.steps \in SystemdInstalls
    <2>1. Tail(cmd.steps) \in SystemdInstalls /\ Tail(cmd.steps) # <<>>
        BY <1>2, Plans DEF SystemdInstalls, IsPlan, IsEnd
    <2> QED
        BY <1>0, <1>1, <1>2, <2>1 DEF Planned
<1>3. CASE cmd.option \in Options /\ manager = "launchd" /\ cmd.steps \in LaunchdInstalls
    <2>1. Tail(cmd.steps) \in LaunchdInstalls /\ Tail(cmd.steps) # <<>>
        BY <1>3, Plans DEF LaunchdInstalls, IsPlan, IsEnd
    <2> QED
        BY <1>0, <1>1, <1>3, <2>1 DEF Planned
<1>4. CASE cmd.option = Absent /\ manager = "systemd" /\ cmd.steps \in SystemdUninstalls
    <2>1. Tail(cmd.steps) \in SystemdUninstalls /\ Tail(cmd.steps) # <<>>
        BY <1>4, Plans DEF SystemdUninstalls, IsPlan, IsEnd
    <2> QED
        BY <1>0, <1>1, <1>4, <2>1 DEF Planned
<1>5. CASE cmd.option = Absent /\ manager = "launchd" /\ cmd.steps \in LaunchdUninstalls
    <2>1. Tail(cmd.steps) \in LaunchdUninstalls /\ Tail(cmd.steps) # <<>>
        BY <1>5, Plans DEF LaunchdUninstalls, IsPlan, IsEnd
    <2> QED
        BY <1>0, <1>1, <1>5, <2>1 DEF Planned
<1> QED
    BY <1>2, <1>3, <1>4, <1>5 DEF Planned

LEMMA InstallPlanned ==
    ASSUME TypeOK, NEW o \in Options, cmd' = [steps |-> InstallSteps, option |-> o], manager' = manager
    PROVE  Planned' /\ cmd' # NoCommand /\ cmd' \in [steps : Seq(Steps), option : Options \cup {Absent}]
           /\ cmd'.option = o /\ Head(cmd'.steps) = "write"
<1> USE Plans DEF IsPlan, IsEnd
<1>0. cmd'.steps # <<>> => cmd' # NoCommand
    BY DEF NoCommand
<1>1. CASE manager = "systemd"
    <2>1. InstallSteps = WriteReloadOn
        BY <1>1 DEF TypeOK, InstallSteps, AgentSystemdInstall, ServerSystemdInstall, WriteReloadOn
    <2> QED
        BY <1>0, <1>1, <2>1 DEF Planned, SystemdInstalls
<1>2. CASE manager = "launchd"
    <2>1. InstallSteps = WriteBootoutOn
        BY <1>2 DEF TypeOK, InstallSteps, AgentLaunchdInstall, ServerLaunchdInstall, WriteBootoutOn
    <2> QED
        BY <1>0, <1>2, <2>1 DEF Planned, LaunchdInstalls
<1> QED
    BY <1>1, <1>2 DEF TypeOK

LEMMA UninstallPlanned ==
    ASSUME TypeOK, BeginUninstall
    PROVE  /\ Planned' /\ cmd' # NoCommand /\ cmd' \in [steps : Seq(Steps), option : Options \cup {Absent}]
           /\ cmd'.option = Absent /\ Head(cmd'.steps) \in {"stop", "bootout", "flush"}
           /\ unit = Absent => Head(cmd'.steps) = "flush"
           /\ unit # Absent => Head(cmd'.steps) # "flush"
<1> USE Plans DEF IsPlan, IsEnd
<1>0. cmd'.steps # <<>> => cmd' # NoCommand
    BY DEF NoCommand
<1>1. manager' = manager /\ cmd'.option = Absent
      /\ cmd' = [steps |-> ThenFlush(IF manager = "systemd" THEN SystemdUninstall ELSE LaunchdUninstall),
                 option |-> Absent]
    BY DEF BeginUninstall, host
<1>2. CASE unit = Absent
    <2>1. cmd'.steps = FlushOn
        BY <1>1, <1>2, AppendFlush DEF SystemdUninstall, LaunchdUninstall
    <2> QED
        BY <1>0, <1>1, <1>2, <2>1 DEF Planned, SystemdUninstalls, LaunchdUninstalls, TypeOK
<1>3. CASE unit # Absent /\ manager = "systemd"
    <2>1. cmd'.steps = StopOn
        BY <1>1, <1>3, AppendFlush DEF SystemdUninstall
    <2> QED
        BY <1>0, <1>1, <1>3, <2>1 DEF Planned, SystemdUninstalls
<1>4. CASE unit # Absent /\ manager = "launchd"
    <2>1. cmd'.steps = BootoutRemoveOn
        BY <1>1, <1>4, AppendFlush DEF LaunchdUninstall
    <2> QED
        BY <1>0, <1>1, <1>4, <2>1 DEF Planned, LaunchdUninstalls
<1> QED
    BY <1>2, <1>3, <1>4 DEF TypeOK

-----------------------------------------------------------------------------
(* Types.                                                                  *)

\* Detect takes the first of the two that is usable.
LEMMA DetectType == \A backends : Detect(backends) \in ToSet(Candidates) \cup {Absent}
<1> SUFFICES ASSUME NEW backends PROVE Detect(backends) \in ToSet(Candidates) \cup {Absent}
    OBVIOUS
<1>1. DOMAIN Candidates = {1, 2}
    BY DEF Candidates
<1>2. ASSUME \E i \in DOMAIN Candidates : Candidates[i] \in backends
      PROVE  \E i \in DOMAIN Candidates :
                 Candidates[i] \in backends /\ \A j \in 1..(i - 1) : Candidates[j] \notin backends
    <2>1. CASE Candidates[1] \in backends
        BY <1>1, <2>1
    <2>2. CASE Candidates[1] \notin backends
        <3>1. Candidates[2] \in backends
            BY <1>1, <1>2, <2>2
        <3>2. \A j \in 1..(2 - 1) : j = 1
            OBVIOUS
        <3> QED
            BY <1>1, <2>2, <3>1, <3>2
    <2> QED
        BY <2>1, <2>2
<1> QED
    BY <1>2 DEF Detect, ToSet

LEMMA StartedType ==
    ASSUME NEW o
    PROVE  /\ Started(o) \in Daemons \cup {NoDaemon}
           /\ Started(o) # NoDaemon => /\ o \in Options /\ Started(o).option = o
                                      /\ Started(o).backend = Detect(usable)
                                      /\ Started(o).release \in Releases
    BY DetectType DEF Started, Daemons

\* The service's parts of TypeOK, and those of the firewall.
ServiceOK ==
    /\ unit \in Options \cup {Torn, Absent} /\ loaded \in Options \cup {Torn, Absent}
    /\ enabled \in BOOLEAN
    /\ daemon \in Daemons \cup {NoDaemon}
    /\ rules \subseteq ToSet(Candidates)
CommandOK ==
    /\ cmd \in [steps : Seq(Steps), option : Options \cup {Absent}]
    /\ done \in {NoResult, Uninstalled} \cup {Installed(o) : o \in Options}
    /\ survived \in BOOLEAN
UpdateOK ==
    /\ file \in [ToSet(Names) -> Releases \cup {Broken, Missing}]
    /\ update \in [pc : {"idle", "fetch", "extract", "copy", "rename"}, from : Releases \cup {Broken},
                   rel : Releases \cup {Broken}, image : Releases \cup {Broken},
                   todo : {Names, Tail(Names), <<>>}]
    /\ cut \in BOOLEAN
HostOK ==
    /\ kind \in {"agent", "server"} /\ manager \in {"systemd", "launchd"}
    /\ usable \subseteq ToSet(Candidates) /\ moved \in BOOLEAN
    /\ faults \in 0..MaxFaults

LEMMA TypeIsParts == TypeOK <=> ServiceOK /\ CommandOK /\ UpdateOK /\ HostOK
    BY DEF TypeOK, ServiceOK, CommandOK, UpdateOK, HostOK

Updating ==
    \/ \E n \in ToSet(Names), rel \in Resolve : BeginUpdate(n, rel)
    \/ \E tarball \in Releases \cup {Broken} : Fetch(tarball)
    \/ Extract \/ Copy \/ Rename \/ Skip \/ EndUpdate \/ AbortUpdate

Changing == \E backends \in SUBSET ToSet(Candidates) : ChangeBackends(backends)

\* What a step of one part of the host leaves alone.
LEMMA Frames ==
    /\ Updating => UNCHANGED <<host, service, command, firewall>>
    /\ (\E o \in Options : BeginInstall(o)) \/ BeginUninstall => UNCHANGED <<binaries, host, service, firewall, faults>>
    /\ Step => UNCHANGED <<binaries, host, survived, usable, moved, faults>>
    /\ StepTolerated => UNCHANGED <<binaries, host, service, done, firewall>>
    /\ AbortCommand => UNCHANGED <<binaries, host, loaded, daemon, done, survived, firewall>>
    /\ Refused => UNCHANGED <<binaries, host, service, done, survived, firewall, faults>>
    /\ Block => UNCHANGED <<binaries, host, service, command, usable, moved, faults>>
    /\ Restart => UNCHANGED <<binaries, host, unit, loaded, enabled, command, firewall, faults>>
    /\ Changing => UNCHANGED <<binaries, host, service, command, rules>>
    /\ Reboot => UNCHANGED <<file, host, unit, enabled, done, survived, usable>>
    BY DEF Updating, Changing, BeginUpdate, Fetch, Extract, Copy, Rename, Skip, EndUpdate, AbortUpdate,
           BeginInstall, BeginUninstall, Step, StepTolerated, AbortCommand, Refused, Block, Restart,
           ChangeBackends, Reboot

\* A rename has a name to do.
HasNext == update.pc = "rename" => update.todo # <<>>

LEMMA UpdateType == UpdateOK /\ HasNext /\ [Next]_vars => UpdateOK'
<1> SUFFICES ASSUME UpdateOK, HasNext, [Next]_vars PROVE UpdateOK'
    OBVIOUS
<1> USE NamesFacts DEF UpdateOK, binaries, NoUpdate
<1>1. ASSUME NEW n \in ToSet(Names), NEW rel \in Resolve, BeginUpdate(n, rel) PROVE UpdateOK'
    BY <1>1 DEF BeginUpdate, Resolve
<1>2. ASSUME NEW tarball \in Releases \cup {Broken}, Fetch(tarball) PROVE UpdateOK'
    BY <1>2 DEF Fetch
<1>3. ASSUME Extract \/ Copy PROVE UpdateOK'
    BY <1>3 DEF Extract, Copy
<1>4. ASSUME Skip PROVE UpdateOK'
    <2>1. update' = [update EXCEPT !.todo = Tail(@)] /\ file' = file /\ cut' = cut
        BY <1>4 DEF Skip
    <2>2. Tail(update.todo) \in {Names, Tail(Names), <<>>}
        BY <1>4 DEF Skip
    <2> QED
        BY <2>1, <2>2
<1>9. ASSUME EndUpdate PROVE UpdateOK'
    BY <1>9 DEF EndUpdate
<1>5. ASSUME Rename PROVE UpdateOK'
    <2>1. update.todo \in {Names, Tail(Names)} /\ update.image \in Releases \cup {Broken}
        BY <1>5 DEF Rename, HasNext
    <2>2. file' \in [ToSet(Names) -> Releases \cup {Broken, Missing}]
        BY <1>5, <2>1 DEF Rename
    <2>3. update' = [update EXCEPT !.pc = "copy", !.todo = Tail(@)] /\ cut' = cut
        BY <1>5 DEF Rename
    <2>4. Tail(update.todo) \in {Names, Tail(Names), <<>>}
        BY <2>1
    <2> QED
        BY <2>2, <2>3, <2>4
<1>8. ASSUME AbortUpdate PROVE UpdateOK'
    <2>1. update' = NoUpdate /\ file' = file /\ cut' = (cut \/ Len(update.todo) = 1)
        BY <1>8 DEF AbortUpdate
    <2> QED
        BY <2>1
<1>6. ASSUME Reboot PROVE UpdateOK'
    BY <1>6 DEF Reboot
<1>7. UNCHANGED binaries => UpdateOK'
    OBVIOUS
<1> QED
    BY <1>1, <1>2, <1>3, <1>4, <1>5, <1>6, <1>7, <1>8, <1>9, Frames DEF Next, Updating, Changing, vars

LEMMA HostType == HostOK /\ [Next]_vars => HostOK'
<1> SUFFICES ASSUME HostOK, [Next]_vars PROVE HostOK'
    OBVIOUS
<1>1. faults' = faults \/ Faulty
    BY DEF Next, vars, BeginUpdate, Fetch, Extract, Copy, Rename, Skip, EndUpdate, AbortUpdate, BeginInstall,
           BeginUninstall, Step, StepTolerated, AbortCommand, Refused, Block, Restart, ChangeBackends, Reboot
<1>2. faults' \in 0..MaxFaults
    BY <1>1, DeploymentAssumption DEF DeploymentAssumption, HostOK, Faulty
<1>3. UNCHANGED host /\ usable' \subseteq ToSet(Candidates) /\ moved' \in BOOLEAN
    <2> USE DEF HostOK, firewall
    <2>1. ASSUME NEW backends \in SUBSET ToSet(Candidates), ChangeBackends(backends)
          PROVE  UNCHANGED host /\ usable' = backends /\ moved' \in BOOLEAN
        <3>1. UNCHANGED host /\ usable' = backends /\ moved' = (moved \/ Detect(backends) # Detect(usable))
            BY <2>1 DEF ChangeBackends
        <3> QED
            BY <3>1
    <2>2. Reboot => UNCHANGED <<host, usable>> /\ moved' = FALSE
        BY DEF Reboot
    <2>3. ~Reboot /\ ~Changing => UNCHANGED <<host, usable, moved>>
        BY Frames DEF Next, Updating, Changing, vars
    <2> QED
        BY <2>1, <2>2, <2>3 DEF Changing
<1> QED
    BY <1>2, <1>3 DEF HostOK, host

LEMMA CommandType == TypeOK /\ [Next]_vars => CommandOK'
<1> SUFFICES ASSUME TypeOK, [Next]_vars PROVE CommandOK'
    OBVIOUS
<1>0. CommandOK
    BY TypeIsParts
<1> USE DEF CommandOK, command
<1>1. NoCommand \in [steps : Seq(Steps), option : Options \cup {Absent}]
    BY DEF NoCommand
<1>2. cmd.steps # <<>> => Advance \in [steps : Seq(Steps), option : Options \cup {Absent}]
    BY <1>0, HeadTailProperties DEF Advance
<1>3. ASSUME NEW o \in Options, BeginInstall(o) PROVE CommandOK'
    <2>1. cmd' \in [steps : Seq(Steps), option : Options \cup {Absent}]
        BY <1>3, InstallPlanned DEF BeginInstall, host
    <2> QED
        BY <1>0, <1>3, <2>1 DEF BeginInstall
<1>4. ASSUME BeginUninstall PROVE CommandOK'
    <2>1. cmd' \in [steps : Seq(Steps), option : Options \cup {Absent}]
        BY <1>4, UninstallPlanned
    <2> QED
        BY <1>0, <1>4, <2>1 DEF BeginUninstall
<1>5. ASSUME Step PROVE CommandOK'
    <2>1. cmd.steps # <<>> /\ cmd' \in {NoCommand, Advance} /\ survived' = survived
        BY <1>5 DEF Step, At, Write, Reload, Enable, Bootout, Bootstrap, Stop, RemoveUnit, Flush
    <2>2. done' \in {NoResult, Uninstalled} \cup {Installed(o) : o \in Options}
        BY <1>0, <1>5 DEF Step
    <2> QED
        BY <1>0, <1>1, <1>2, <2>1, <2>2
<1>6. ASSUME StepTolerated PROVE CommandOK'
    BY <1>0, <1>2, <1>6 DEF StepTolerated, At
<1>7. ASSUME AbortCommand \/ Refused \/ Reboot PROVE CommandOK'
    BY <1>0, <1>1, <1>7 DEF AbortCommand, Refused, Reboot
<1>8. UNCHANGED command => CommandOK'
    BY <1>0
<1> QED
    BY <1>3, <1>4, <1>5, <1>6, <1>7, <1>8, Frames DEF Next, Updating, Changing, vars

LEMMA ServiceType == TypeOK /\ [Next]_vars => ServiceOK'
<1> SUFFICES ASSUME TypeOK, [Next]_vars PROVE ServiceOK'
    OBVIOUS
<1>0. ServiceOK /\ CommandOK
    BY TypeIsParts
<1> USE DEF ServiceOK, service
<1>1. ASSUME Step PROVE ServiceOK'
    <2>1. ASSUME Write \/ Reload \/ RemoveUnit PROVE ServiceOK'
        BY <1>0, <2>1 DEF CommandOK, Write, Reload, RemoveUnit
    <2>2. ASSUME Enable PROVE ServiceOK'
        BY <1>0, <2>2, StartedType DEF Enable
    <2>3. ASSUME Bootout \/ Bootstrap PROVE ServiceOK'
        BY <1>0, <2>3, StartedType DEF Bootout, Bootstrap
    <2>4. ASSUME Stop \/ Flush PROVE ServiceOK'
        BY <1>0, <2>4 DEF Stop, Flush
    <2> QED
        BY <1>1, <2>1, <2>2, <2>3, <2>4 DEF Step
<1>2. ASSUME AbortCommand PROVE ServiceOK'
    BY <1>0, <1>2 DEF AbortCommand, firewall
<1>3. ASSUME Block PROVE ServiceOK'
    <2>1. daemon.backend \in ToSet(Candidates)
        BY <1>3, TypeIsParts DEF Block, HostOK
    <2> QED
        BY <1>0, <1>3, <2>1 DEF Block
<1>4. ASSUME Restart PROVE ServiceOK'
    BY <1>0, <1>4, StartedType DEF Restart, firewall
<1>5. ASSUME Reboot PROVE ServiceOK'
    BY <1>0, <1>5, StartedType DEF Reboot
<1>6. UNCHANGED <<service, rules>> => ServiceOK'
    BY <1>0
<1> QED
    BY <1>1, <1>2, <1>3, <1>4, <1>5, <1>6, Frames DEF Next, Updating, Changing, vars, firewall

LEMMA TypeStep == TypeOK /\ HasNext /\ [Next]_vars => TypeOK'
    BY TypeIsParts, UpdateType, HostType, CommandType, ServiceType
    DEF TypeOK, ServiceOK, CommandOK, UpdateOK, HostOK

-----------------------------------------------------------------------------
(* Updates.                                                                *)

\* All names that are there hold the release r; the names that are there agree.
AllAre(names, r) == \A n \in names : file[n] \in {r, Missing}
Agree == \A m, n \in ToSet(Names) : Missing \notin {file[m], file[n]} => file[m] = file[n]

\* Every name holds a whole release, and so does what is to be copied; before
\* its first name an update has changed nothing, after it that one is replaced,
\* after the second all are.
Updates ==
    /\ HasNext
    /\ \A n \in ToSet(Names) : file[n] # Broken
    /\ update.pc = "fetch" => update.rel # Broken
    /\ update.pc \notin {"idle", "fetch"} => update.image # Broken
    /\ update.pc \in {"idle", "fetch", "extract"} => update.todo = <<>>
    /\ update.pc \in {"idle", "fetch", "extract"} \/ update.todo = Names => cut \/ Agree
    /\ update.todo = Tail(Names) => AllAre({"breachharbor"}, update.image)
    /\ update.pc \in {"copy", "rename"} /\ update.todo = <<>> => AllAre(ToSet(Names), update.image)

LEMMA AllAgree == ASSUME NEW r, AllAre(ToSet(Names), r) PROVE Agree
    BY DEF AllAre, Agree

LEMMA UpdatesStep ==
    ASSUME TypeOK, Updates, [Next]_vars
    PROVE  Updates'
<1>0. UpdateOK
    BY TypeIsParts
<1> USE NamesFacts DEF Updates, HasNext, binaries
<1>1. ASSUME NEW n \in ToSet(Names), NEW rel \in Resolve, BeginUpdate(n, rel) PROVE Updates'
    <2>1. rel # Broken
        BY DEF Resolve, Releases, Broken
    <2>2. /\ UNCHANGED <<file, cut>> /\ update.pc = "idle"
          /\ update'.pc = "fetch" /\ update'.rel = rel /\ update'.todo = <<>>
        BY <1>1 DEF BeginUpdate, NoUpdate
    <2> QED
        BY <2>1, <2>2 DEF Agree
<1>2. ASSUME NEW tarball \in Releases \cup {Broken}, Fetch(tarball) PROVE Updates'
    <2>1. UNCHANGED <<file, cut>> /\ update.pc = "fetch"
        BY <1>2 DEF Fetch
    <2>2. CASE Verified(tarball)
        <3>1. update'.pc = "extract" /\ update'.image # Broken /\ update'.todo = <<>>
            BY <1>0, <1>2, <2>2 DEF Fetch, Verified, UpdateOK
        <3> QED
            BY <2>1, <3>1 DEF Agree
    <2>3. CASE ~Verified(tarball)
        <3>1. update'.pc = "idle" /\ update'.todo = <<>>
            BY <1>2, <2>3 DEF Fetch, NoUpdate
        <3> QED
            BY <2>1, <3>1 DEF Agree
    <2> QED
        BY <2>2, <2>3
<1>3. ASSUME Extract PROVE Updates'
    <2>1. /\ UNCHANGED <<file, cut>> /\ update.pc = "extract"
          /\ update'.pc = "copy" /\ update'.image = update.image /\ update'.todo = Names
        BY <1>0, <1>3 DEF Extract, UpdateOK
    <2> QED
        BY <2>1 DEF Agree
<1>4. ASSUME Copy PROVE Updates'
    <2>1. /\ UNCHANGED <<file, cut>> /\ update.pc = "copy" /\ update.todo # <<>>
          /\ update'.pc = "rename" /\ update'.image = update.image /\ update'.todo = update.todo
        BY <1>0, <1>4 DEF Copy, UpdateOK
    <2> QED
        BY <2>1 DEF Agree, AllAre
<1>5. ASSUME Rename PROVE Updates'
    <2>1. /\ file' = [file EXCEPT ![Head(update.todo)] = update.image] /\ cut' = cut /\ update.pc = "rename"
          /\ update'.pc = "copy" /\ update'.image = update.image /\ update'.todo = Tail(update.todo)
        BY <1>0, <1>5 DEF Rename, UpdateOK
    <2>2. /\ file'[Head(update.todo)] = update.image
          /\ \A n \in ToSet(Names) \ {Head(update.todo)} : file'[n] = file[n]
        BY <1>0, <2>1 DEF UpdateOK
    <2>3. CASE update.todo = Names
        BY <2>1, <2>2, <2>3 DEF AllAre
    <2>4. CASE update.todo = Tail(Names)
        BY <2>1, <2>2, <2>4 DEF AllAre
    <2> QED
        BY <1>0, <2>1, <2>3, <2>4 DEF UpdateOK
<1>6. ASSUME Skip PROVE Updates'
    <2>1. /\ UNCHANGED <<file, cut>> /\ update.pc = "copy" /\ update.todo # <<>>
          /\ file[Head(update.todo)] = Missing
          /\ update'.pc = "copy" /\ update'.image = update.image /\ update'.todo = Tail(update.todo)
        BY <1>0, <1>6 DEF Skip, UpdateOK
    <2>2. CASE update.todo = Names
        BY <2>1, <2>2 DEF AllAre
    <2>3. CASE update.todo = Tail(Names)
        BY <2>1, <2>3 DEF AllAre
    <2> QED
        BY <1>0, <2>1, <2>2, <2>3 DEF UpdateOK
<1> DEFINE Ended == /\ file' = file /\ update'.pc = "idle" /\ update'.todo = <<>>
                    /\ cut' \/ Agree
<1>7. Ended => Updates'
    BY DEF Agree
<1>8. ASSUME EndUpdate PROVE Ended
    BY <1>8, AllAgree DEF EndUpdate, NoUpdate
<1>9. ASSUME file' = file, update' = NoUpdate, cut' = (cut \/ Len(update.todo) = 1) PROVE Ended
    <2>1. CASE update.todo = Tail(Names)
        BY <1>9, <2>1 DEF NoUpdate
    <2>2. CASE update.todo = Names
        BY <1>9, <2>2 DEF NoUpdate
    <2>3. CASE update.todo = <<>> /\ update.pc \in {"idle", "fetch", "extract"}
        BY <1>9, <2>3 DEF NoUpdate
    <2>4. CASE update.todo = <<>> /\ update.pc \in {"copy", "rename"}
        BY <1>9, <2>4, AllAgree DEF NoUpdate
    <2> QED
        BY <1>0, <2>1, <2>2, <2>3, <2>4 DEF UpdateOK
<1>10. ASSUME AbortUpdate PROVE Ended
    BY <1>9, <1>10 DEF AbortUpdate
<1>11. ASSUME Reboot PROVE Ended
    BY <1>9, <1>11 DEF Reboot
<1>12. UNCHANGED binaries => Updates'
    BY DEF AllAre, Agree
<1> QED
    BY <1>1, <1>2, <1>3, <1>4, <1>5, <1>6, <1>7, <1>8, <1>10, <1>11, <1>12, Frames
    DEF Next, Updating, Changing, vars

-----------------------------------------------------------------------------
(* Commands.                                                               *)

\* A service runs from a whole binary.
Whole == daemon # NoDaemon => daemon.release # Broken

\* A command follows its plan, and has no result until its last step.
Commands == Planned /\ (cmd # NoCommand => done = NoResult)

\* What an install has achieved when a given step is next ...
InstallProgress ==
    cmd.option \in Options =>
        /\ At("reload") \/ At("bootout") \/ At("bootstrap") \/ At("enable") => unit = cmd.option
        /\ At("enable") => /\ loaded = cmd.option
                           /\ manager = "launchd" /\ daemon # NoDaemon => daemon.option = cmd.option

\* ... and an uninstall.
UninstallProgress ==
    cmd # NoCommand /\ cmd.option = Absent =>
        /\ ~At("stop") /\ ~At("bootout") /\ ~survived => daemon = NoDaemon
        /\ At("reload") \/ At("flush") => unit = Absent

\* Until Detect's choice changes it is the backend of the service and of all rules.
Chosen ==
    ~moved => /\ rules \subseteq {Detect(usable)}
              /\ daemon # NoDaemon => daemon.backend = Detect(usable)

Inv ==
    /\ TypeOK /\ Updates /\ Whole
    /\ Commands /\ InstallProgress /\ UninstallProgress /\ Chosen
    /\ InstallTakesEffect /\ UninstallLeavesNothing

\* Nothing is next when no command runs.
LEMMA Idle == cmd = NoCommand => \A step : ~At(step)
    BY DEF NoCommand, At

LEMMA ReleasesAreWhole == Broken \notin Releases
    BY DEF Broken, Releases

LEMMA WholeStep ==
    ASSUME TypeOK, Whole, [Next]_vars
    PROVE  Whole'
<1> DEFINE Kept == daemon' \in {daemon, NoDaemon} \cup {Started(o) : o \in Options \cup {Torn, Absent}}
<1>0. ServiceOK
    BY TypeIsParts
<1>1. Step => Kept
    BY <1>0 DEF Step, Write, Reload, Enable, Bootout, Bootstrap, Stop, RemoveUnit, Flush, ServiceOK, service
<1>2. Restart \/ Reboot => Kept
    BY <1>0 DEF Restart, Reboot, ServiceOK
<1>3. ~Step /\ ~Restart /\ ~Reboot => Kept
    BY Frames DEF Next, Updating, Changing, vars, service
<1>4. Kept => Whole'
    BY StartedType, ReleasesAreWhole DEF Whole
<1> QED
    BY <1>1, <1>2, <1>3, <1>4

LEMMA CommandsStep ==
    ASSUME TypeOK, Commands, [Next]_vars
    PROVE  Commands'
<1> USE DEF Commands
<1>0. manager' = manager
    BY Frames DEF Next, Updating, Changing, vars, host, Reboot
<1>1. ASSUME NEW o \in Options, BeginInstall(o) PROVE Commands'
    BY <1>0, <1>1, InstallPlanned DEF BeginInstall
<1>2. ASSUME BeginUninstall PROVE Commands'
    BY <1>2, UninstallPlanned DEF BeginUninstall
<1>3. cmd' = NoCommand => Commands'
    BY DEF Planned
<1>4. ASSUME Step PROVE Commands'
    <2>1. cmd # NoCommand /\ cmd.steps # <<>>
        BY <1>4, Idle DEF Step, Write, Reload, Enable, Bootout, Bootstrap, Stop, RemoveUnit, Flush, At
    <2>2. CASE Len(cmd.steps) = 1
        BY <1>3, <1>4, <2>2 DEF Step
    <2>3. CASE Len(cmd.steps) # 1
        <3>1. Len(cmd.steps) > 1
            <4>1. cmd.steps \in Seq(Steps)
                BY DEF TypeOK
            <4>2. Len(cmd.steps) \in Nat /\ Len(cmd.steps) # 0
                BY <2>1, <4>1, EmptySeq
            <4>3. \A n \in Nat : n # 0 /\ n # 1 => n > 1
                OBVIOUS
            <4> QED
                BY <2>3, <4>2, <4>3
        <3>2. cmd' = Advance /\ done' = NoResult
            BY <1>4, <2>3, <3>1 DEF Step
        <3> QED
            BY <1>0, <2>1, <2>3, <3>2, AdvancePlan
    <2> QED
        BY <2>2, <2>3
<1>5. ASSUME StepTolerated PROVE Commands'
    <2>1. At("stop") \/ At("bootout")
        BY <1>5 DEF StepTolerated
    <2>2. cmd # NoCommand
        BY <2>1, Idle
    <2>3. cmd.option \in Options \cup {Absent}
        BY DEF TypeOK
    <2>4. Len(cmd.steps) \in Nat /\ Len(cmd.steps) > 1
        BY <2>1, <2>3, Sequels DEF Follows, TypeOK
    <2>5. cmd' = Advance /\ done' = done
        BY <1>5 DEF StepTolerated
    <2>6. Len(cmd.steps) # 1
        <3>1. \A n \in Nat : n > 1 => n # 1
            OBVIOUS
        <3> QED
            BY <2>4, <3>1
    <2> QED
        BY <1>0, <2>2, <2>5, <2>6, AdvancePlan
<1>6. AbortCommand \/ Refused \/ Reboot => Commands'
    BY <1>3 DEF AbortCommand, Refused, Reboot
<1>7. UNCHANGED command => Commands'
    BY <1>0 DEF Planned, command
<1> QED
    BY <1>1, <1>2, <1>4, <1>5, <1>6, <1>7, Frames DEF Next, Updating, Changing, vars

\* A step moves the command on to what follows, or ends it.
LEMMA StepsOn ==
    ASSUME TypeOK, Planned, NEW step, NEW next, At(step), Follows(step, next), Step \/ StepTolerated
    PROVE  cmd'.option = cmd.option /\ Head(cmd'.steps) = next /\ done' \in {done, NoResult}
<1>1. Len(cmd.steps) > 1 /\ Head(Tail(cmd.steps)) = next /\ cmd.steps \in Seq(Steps)
    BY DEF Follows, TypeOK
<1>2. \A n \in Nat : n > 1 => n # 1
    OBVIOUS
<1>3. Len(cmd.steps) # 1
    BY <1>1, <1>2
<1>4. cmd' = Advance /\ done' \in {done, NoResult}
    BY <1>1, <1>3 DEF Step, StepTolerated
<1> QED
    BY <1>1, <1>4 DEF Advance, TypeOK

\* Which step it is.
LEMMA StepIs ==
    ASSUME Step
    PROVE  \/ Write /\ At("write")
           \/ Reload /\ At("reload")
           \/ Enable /\ At("enable")
           \/ Bootout /\ At("bootout")
           \/ Bootstrap /\ At("bootstrap")
           \/ Stop /\ At("stop")
           \/ RemoveUnit /\ At("remove")
           \/ Flush /\ At("flush")
<1>1. (Write => At("write")) /\ (Reload => At("reload")) /\ (Enable => At("enable"))
    BY DEF Write, Reload, Enable
<1>2. (Bootout => At("bootout")) /\ (Bootstrap => At("bootstrap")) /\ (Stop => At("stop"))
    BY DEF Bootout, Bootstrap, Stop
<1>3. (RemoveUnit => At("remove")) /\ (Flush => At("flush"))
    BY DEF RemoveUnit, Flush
<1>4. Write \/ Reload \/ Enable \/ Bootout \/ Bootstrap \/ Stop \/ RemoveUnit \/ Flush
    BY Zenon DEF Step
<1> QED
    BY <1>1, <1>2, <1>3, <1>4

\* A command's last step ends it.
LEMMA LastStep ==
    ASSUME Step, Len(cmd.steps) = 1
    PROVE  cmd' = NoCommand /\ done' = IF cmd.option = Absent THEN Uninstalled ELSE Installed(cmd.option)
    BY DEF Step

LEMMA InstallProgressStep ==
    ASSUME TypeOK, Planned, InstallProgress, [Next]_vars
    PROVE  InstallProgress'
<1> USE DeploymentAssumption DEF DeploymentAssumption, InstallProgress
<1>0. manager \in {"systemd", "launchd"} /\ manager' = manager
    BY Frames DEF Next, Updating, Changing, vars, host, Reboot, TypeOK
<1>1. cmd' = NoCommand => InstallProgress'
    BY DEF NoCommand
<1>2. cmd' # NoCommand /\ cmd'.option = Absent => InstallProgress'
    OBVIOUS
<1>3. ASSUME NEW o \in Options, BeginInstall(o) PROVE InstallProgress'
    <2>1. Head(cmd'.steps) = "write"
        BY <1>3, InstallPlanned DEF BeginInstall, host
    <2> QED
        BY <2>1 DEF At
<1>4. BeginUninstall => InstallProgress'
    BY UninstallPlanned
<1>5. ASSUME Step, cmd.option \in Options PROVE InstallProgress'
    <2> USE Sequels, StepsOn
    <2>1. ASSUME Write, At("write"), manager = "systemd" PROVE InstallProgress'
        <3>1. cmd'.option = cmd.option /\ Head(cmd'.steps) = "reload"
            BY <1>5, <2>1
        <3> QED
            BY <2>1, <3>1 DEF Write, At
    <2>2. ASSUME Write, At("write"), manager = "launchd" PROVE InstallProgress'
        <3>1. cmd'.option = cmd.option /\ Head(cmd'.steps) = "bootout"
            BY <1>5, <2>2
        <3> QED
            BY <2>2, <3>1 DEF Write, At
    <2>3. ASSUME Reload, At("reload") PROVE InstallProgress'
        <3>1. cmd'.option = cmd.option /\ Head(cmd'.steps) = "enable"
            BY <1>5, <2>3
        <3> QED
            BY <1>0, <2>3, <3>1 DEF Reload, At
    <2>4. ASSUME Bootout, At("bootout") PROVE InstallProgress'
        <3>1. cmd'.option = cmd.option /\ Head(cmd'.steps) = "bootstrap"
            BY <1>5, <2>4
        <3> QED
            BY <2>4, <3>1 DEF Bootout, At
    <2>5. ASSUME Bootstrap, At("bootstrap") PROVE InstallProgress'
        <3>1. cmd'.option = cmd.option /\ Head(cmd'.steps) = "enable"
            BY <1>5, <2>5
        <3>2. unit' = unit /\ loaded' = unit /\ (daemon' # NoDaemon => daemon'.option = unit)
            BY <2>5, StartedType DEF Bootstrap
        <3> QED
            BY <2>5, <3>1, <3>2
    <2>6. At("enable") => InstallProgress'
        BY <1>1, <1>5, LastStep DEF IsLast
    <2> QED
        BY <1>0, <1>5, <2>1, <2>2, <2>3, <2>4, <2>5, <2>6, StepIs
<1>6. ASSUME StepTolerated, cmd.option \in Options PROVE InstallProgress'
    <2>1. At("bootout")
        BY <1>6, Sequels DEF StepTolerated
    <2>2. cmd'.option = cmd.option /\ Head(cmd'.steps) = "bootstrap"
        BY <1>6, <2>1, Sequels, StepsOn
    <2> QED
        BY <1>6, <2>1, <2>2 DEF StepTolerated, service, At
<1>7. ASSUME Step \/ StepTolerated, cmd.option = Absent PROVE InstallProgress'
    <2>1. cmd' \in {NoCommand, Advance}
        BY <1>7 DEF Step, StepTolerated
    <2>2. Advance.option = cmd.option
        BY DEF Advance, TypeOK
    <2> QED
        BY <1>1, <1>7, <2>1, <2>2
<1>8. AbortCommand \/ Refused \/ Reboot => InstallProgress'
    BY <1>1 DEF AbortCommand, Refused, Reboot
<1>9. ASSUME Restart PROVE InstallProgress'
    BY <1>0, <1>9, StartedType DEF Restart, command, At
<1>10. UNCHANGED <<service, command>> => InstallProgress'
    BY <1>0 DEF service, command, At
<1> QED
    BY <1>3, <1>4, <1>5, <1>6, <1>7, <1>8, <1>9, <1>10, Frames DEF Next, Updating, Changing, vars, TypeOK

LEMMA UninstallProgressStep ==
    ASSUME TypeOK, Planned, UninstallProgress, [Next]_vars
    PROVE  UninstallProgress'
<1> USE DeploymentAssumption DEF DeploymentAssumption, UninstallProgress
<1>0. manager \in {"systemd", "launchd"} /\ manager' = manager
    BY Frames DEF Next, Updating, Changing, vars, host, Reboot, TypeOK
<1>1. cmd' = NoCommand => UninstallProgress'
    OBVIOUS
<1>3. (\E o \in Options : BeginInstall(o)) => UninstallProgress'
    BY InstallPlanned DEF BeginInstall, host
<1>4. ASSUME BeginUninstall PROVE UninstallProgress'
    <2>1. /\ Head(cmd'.steps) \in {"stop", "bootout", "flush"} /\ cmd' # NoCommand
          /\ Head(cmd'.steps) = "flush" => unit = Absent
        BY <1>4, UninstallPlanned
    <2>2. UNCHANGED service /\ survived' = (unit = Absent /\ daemon # NoDaemon)
        BY <1>4 DEF BeginUninstall
    <2>3. cmd'.steps # <<>>
        BY <1>4, UninstallPlanned, Plans
        DEF Planned, SystemdInstalls, LaunchdInstalls, SystemdUninstalls, LaunchdUninstalls, IsPlan, IsEnd
    <2> QED
        BY <2>1, <2>2, <2>3 DEF At, service
<1>5. ASSUME Step, cmd # NoCommand, cmd.option = Absent PROVE UninstallProgress'
    <2> USE Sequels, StepsOn
    <2>0. survived' = survived
        BY <1>5 DEF Step
    <2>1. ASSUME Bootout, At("bootout") PROVE UninstallProgress'
        <3>1. Head(cmd'.steps) = "remove"
            BY <1>5, <2>1
        <3> QED
            BY <2>1, <3>1 DEF Bootout, At
    <2>2. ASSUME Stop, At("stop") PROVE UninstallProgress'
        <3>1. Head(cmd'.steps) = "remove"
            BY <1>5, <2>2
        <3> QED
            BY <2>2, <3>1 DEF Stop, At
    <2>3. ASSUME RemoveUnit, At("remove") PROVE UninstallProgress'
        <3>1. Head(cmd'.steps) \in {"reload", "flush"}
            BY <1>0, <1>5, <2>3
        <3>2. unit' = Absent /\ daemon' = daemon
            BY <2>3 DEF RemoveUnit
        <3> QED
            BY <1>5, <2>0, <2>3, <3>1, <3>2 DEF At
    <2>4. ASSUME Reload, At("reload") PROVE UninstallProgress'
        <3>1. Head(cmd'.steps) = "flush"
            BY <1>5, <2>4
        <3>2. unit' = unit /\ daemon' = daemon
            BY <2>4 DEF Reload
        <3> QED
            BY <1>5, <2>0, <2>4, <3>1, <3>2 DEF At
    <2>5. At("flush") => UninstallProgress'
        BY <1>1, <1>5, LastStep DEF IsLast
    <2>6. ~At("write") /\ ~At("enable") /\ ~At("bootstrap")
        BY <1>5
    <2> QED
        BY <1>5, <2>1, <2>2, <2>3, <2>4, <2>5, <2>6, StepIs
<1>6. ASSUME StepTolerated, cmd.option = Absent PROVE UninstallProgress'
    <2>1. Head(cmd'.steps) = "remove"
        BY <1>6, Sequels, StepsOn DEF StepTolerated
    <2>2. daemon' = daemon /\ survived' = (survived \/ daemon # NoDaemon)
        BY <1>6 DEF StepTolerated, service
    <2> QED
        BY <2>1, <2>2 DEF At
<1>7. ASSUME Step \/ StepTolerated, cmd.option \in Options PROVE UninstallProgress'
    <2>1. cmd' \in {NoCommand, Advance}
        BY <1>7 DEF Step, StepTolerated
    <2>2. Advance.option = cmd.option
        BY DEF Advance, TypeOK
    <2> QED
        BY <1>1, <1>7, <2>1, <2>2
<1>8. AbortCommand \/ Refused \/ Reboot => UninstallProgress'
    BY <1>1 DEF AbortCommand, Refused, Reboot
<1>9. ASSUME Restart PROVE UninstallProgress'
    BY <1>9 DEF Restart, command, At
<1>10. UNCHANGED <<service, command>> => UninstallProgress'
    BY DEF service, command, At
<1>11. Step => cmd # NoCommand
    BY StepIs, Idle
<1> QED
    BY <1>3, <1>4, <1>5, <1>6, <1>7, <1>8, <1>9, <1>10, <1>11, Frames DEF Next, Updating, Changing, vars, TypeOK

LEMMA TakesEffectStep ==
    ASSUME TypeOK, Commands, InstallProgress, InstallTakesEffect, [Next]_vars
    PROVE  InstallTakesEffect'
<1> USE DeploymentAssumption DEF DeploymentAssumption, InstallTakesEffect
<1>0. manager \in {"systemd", "launchd"} /\ manager' = manager
    BY Frames DEF Next, Updating, Changing, vars, host, Reboot, TypeOK
<1>1. done'.what # "installed" => InstallTakesEffect'
    OBVIOUS
<1>2. NoResult.what # "installed" /\ Uninstalled.what # "installed"
    BY DEF NoResult, Uninstalled
<1>3. done.what = "installed" => cmd = NoCommand /\ done.option \in Options
    BY <1>2 DEF Commands, TypeOK, Installed
<1>4. done' = done /\ UNCHANGED service => InstallTakesEffect'
    BY <1>0 DEF service
<1>5. (\E o \in Options : BeginInstall(o)) \/ BeginUninstall => InstallTakesEffect'
    BY <1>2 DEF BeginInstall, BeginUninstall
<1>6. ASSUME Step PROVE InstallTakesEffect'
    <2>1. CASE Len(cmd.steps) > 1
        BY <1>2, <1>6, <2>1 DEF Step
    <2>2. CASE cmd.option = Absent
        BY <1>2, <1>6, <2>2 DEF Step
    <2>3. CASE ~(Len(cmd.steps) > 1) /\ cmd.option \in Options
        <3>1. Enable /\ At("enable")
            BY <1>0, <1>6, <2>3, StepIs, Sequels DEF Commands, Follows
        <3>2. done' = Installed(cmd.option) /\ done'.option = cmd.option
            BY <1>6, <2>3 DEF Step, Installed
        <3>3. unit = cmd.option /\ loaded = cmd.option
              /\ (manager = "launchd" /\ daemon # NoDaemon => daemon.option = cmd.option)
            BY <2>3, <3>1 DEF InstallProgress
        <3>4. UNCHANGED <<unit, loaded>> /\ enabled' = (manager = "systemd")
              /\ daemon' = IF daemon = NoDaemon THEN Started(loaded) ELSE daemon
            BY <3>1 DEF Enable
        <3> QED
            BY <1>0, <3>2, <3>3, <3>4, StartedType
    <2> QED
        BY <2>1, <2>2, <2>3 DEF TypeOK
<1>7. StepTolerated \/ Refused => InstallTakesEffect'
    BY <1>4 DEF StepTolerated, Refused
<1>8. AbortCommand => InstallTakesEffect'
    BY <1>3 DEF AbortCommand
<1>9. ASSUME Restart PROVE InstallTakesEffect'
    BY <1>0, <1>9, StartedType DEF Restart, command
<1>10. ASSUME Reboot PROVE InstallTakesEffect'
    <2>1. done' = done /\ UNCHANGED <<unit, enabled>>
          /\ loaded' \in {unit, Absent} /\ (unit # Torn => loaded' = unit)
          /\ daemon' \in {NoDaemon, Started(unit)}
        BY <1>10 DEF Reboot
    <2> QED
        BY <1>0, <1>3, <2>1, StartedType
<1>11. UNCHANGED <<service, command>> => InstallTakesEffect'
    BY <1>4 DEF command
<1> QED
    BY <1>5, <1>6, <1>7, <1>8, <1>9, <1>10, <1>11, Frames DEF Next, Updating, Changing, vars

LEMMA ChosenStep ==
    ASSUME TypeOK, Chosen, [Next]_vars
    PROVE  Chosen'
<1> USE DEF Chosen
<1> DEFINE Kept == daemon' \in {daemon, NoDaemon} \cup {Started(o) : o \in Options \cup {Torn, Absent}}
<1>0. ServiceOK
    BY TypeIsParts
<1>1. ASSUME UNCHANGED <<usable, moved>>, rules' \subseteq rules, Kept PROVE Chosen'
    BY <1>1, StartedType
<1>2. Step => UNCHANGED <<usable, moved>> /\ rules' \subseteq rules /\ Kept
    BY <1>0 DEF Step, Write, Reload, Enable, Bootout, Bootstrap, Stop, RemoveUnit, Flush, ServiceOK, service
<1>3. Restart => UNCHANGED <<usable, moved>> /\ rules' = rules /\ Kept
    BY <1>0 DEF Restart, ServiceOK, firewall
<1>4. UNCHANGED <<service, firewall>> => UNCHANGED <<usable, moved>> /\ rules' = rules /\ Kept
    BY DEF service, firewall
<1>5. ASSUME Block PROVE Chosen'
    BY <1>5 DEF Block, service
<1>6. ASSUME NEW backends \in SUBSET ToSet(Candidates), ChangeBackends(backends) PROVE Chosen'
    <2>1. /\ usable' = backends /\ moved' = (moved \/ Detect(backends) # Detect(usable))
          /\ UNCHANGED <<daemon, rules>>
        BY <1>6 DEF ChangeBackends, service
    <2> QED
        BY <2>1
<1>7. ASSUME Reboot PROVE Chosen'
    <2>1. rules' = {} /\ usable' = usable /\ daemon' \in {NoDaemon, Started(unit)}
        BY <1>7 DEF Reboot
    <2> QED
        BY <2>1, StartedType
<1>8. UNCHANGED <<service, firewall>> \/ Step \/ AbortCommand \/ Restart \/ Block \/ Changing \/ Reboot
    BY Frames DEF Next, Updating, Changing, vars
<1>9. ASSUME AbortCommand PROVE Chosen'
    BY <1>1, <1>9 DEF AbortCommand, firewall
<1> QED
    BY <1>1, <1>2, <1>3, <1>4, <1>5, <1>6, <1>7, <1>8, <1>9 DEF Changing

LEMMA LeavesNothingStep ==
    ASSUME TypeOK, Commands, UninstallProgress, Chosen, UninstallLeavesNothing, [Next]_vars
    PROVE  UninstallLeavesNothing'
<1> USE DeploymentAssumption DEF DeploymentAssumption, UninstallLeavesNothing
<1>0. manager \in {"systemd", "launchd"} /\ manager' = manager
    BY Frames DEF Next, Updating, Changing, vars, host, Reboot, TypeOK
<1>2. NoResult # Uninstalled /\ \A o : Installed(o) # Uninstalled
    BY DEF NoResult, Uninstalled, Installed
<1>3. done = Uninstalled => cmd = NoCommand
    BY <1>2 DEF Commands
<1>4. (\E o \in Options : BeginInstall(o)) \/ BeginUninstall => UninstallLeavesNothing'
    BY <1>2 DEF BeginInstall, BeginUninstall
<1>5. ASSUME Step PROVE UninstallLeavesNothing'
    <2>1. CASE Len(cmd.steps) > 1 \/ cmd.option # Absent
        BY <1>2, <1>5, <2>1 DEF Step
    <2>2. CASE ~(Len(cmd.steps) > 1) /\ cmd.option = Absent
        <3>1. Flush /\ At("flush")
            BY <1>0, <1>5, <2>2, StepIs, Sequels DEF Commands, Follows
        <3>2. cmd # NoCommand /\ ~At("stop") /\ ~At("bootout")
            BY <3>1, Idle DEF At
        <3>3. unit = Absent /\ (~survived => daemon = NoDaemon)
            BY <2>2, <3>1, <3>2 DEF UninstallProgress
        <3>4. UNCHANGED <<unit, daemon, survived, moved>> /\ rules' = rules \ {Detect(usable)}
            BY <1>5, <3>1 DEF Flush, Step, service
        <3> QED
            BY <3>3, <3>4 DEF Chosen
    <2> QED
        BY <2>1, <2>2
<1>6. StepTolerated \/ AbortCommand \/ Refused => UninstallLeavesNothing'
    <2>1. StepTolerated \/ AbortCommand \/ Refused => cmd # NoCommand /\ done' = done
        BY Idle DEF StepTolerated, AbortCommand, Refused
    <2> QED
        BY <1>3, <2>1
<1>7. ASSUME Block \/ Restart PROVE UninstallLeavesNothing'
    BY <1>7 DEF Block, Restart, service, command, firewall
<1>8. ASSUME Reboot PROVE UninstallLeavesNothing'
    <2>1. done' = done /\ unit' = unit /\ survived' = survived /\ rules' = {}
          /\ daemon' \in {NoDaemon, Started(unit)}
        BY <1>8 DEF Reboot
    <2> QED
        BY <2>1, StartedType
<1>9. ASSUME NEW backends \in SUBSET ToSet(Candidates), ChangeBackends(backends) PROVE UninstallLeavesNothing'
    BY <1>9 DEF ChangeBackends, service, command
<1>10. UNCHANGED <<service, command, firewall>> => UninstallLeavesNothing'
    BY DEF service, command, firewall
<1> QED
    BY <1>4, <1>5, <1>6, <1>7, <1>8, <1>9, <1>10, Frames DEF Next, Updating, Changing, vars

-----------------------------------------------------------------------------
(* The invariant.                                                          *)

LEMMA InvInit == Init => Inv
<1> SUFFICES ASSUME Init PROVE Inv
    OBVIOUS
<1> USE DeploymentAssumption DEF DeploymentAssumption
<1>1. TypeOK
    <2>1. ServiceOK /\ CommandOK
        <3>1. <<>> \in Seq(Steps)
            OBVIOUS
        <3>2. CommandOK
            BY <3>1 DEF Init, CommandOK, NoCommand
        <3>3. ServiceOK
            BY DEF Init, ServiceOK
        <3> QED
            BY <3>2, <3>3
    <2>2. UpdateOK
        <3>1. 1 \in Releases
            BY DEF Releases
        <3> QED
            BY <3>1, NamesFacts DEF Init, UpdateOK, NoUpdate
    <2>3. HostOK
        <3>1. 0 \in 0..MaxFaults
            OBVIOUS
        <3>2. kind \in {"agent", "server"} /\ manager \in {"systemd", "launchd"} /\ moved = FALSE /\ faults = 0
            BY DEF Init
        <3>3. usable \in SUBSET ToSet(Candidates)
            BY DEF Init
        <3> QED
            BY <3>1, <3>2, <3>3 DEF HostOK
    <2> QED
        BY <2>1, <2>2, <2>3, TypeIsParts
<1>2. Updates
    BY NamesFacts DEF Init, Updates, HasNext, NoUpdate, Agree, AllAre, Broken, Missing
<1>3. Whole /\ Commands /\ Chosen
    BY DEF Init, Whole, Commands, Planned, Chosen
<1>4. InstallProgress /\ UninstallProgress
    BY DEF Init, InstallProgress, UninstallProgress, NoCommand
<1>5. InstallTakesEffect /\ UninstallLeavesNothing
    BY DEF Init, InstallTakesEffect, UninstallLeavesNothing, NoResult, Uninstalled
<1> QED
    BY <1>1, <1>2, <1>3, <1>4, <1>5 DEF Inv

LEMMA InvStep == Inv /\ [Next]_vars => Inv'
<1> SUFFICES ASSUME Inv, [Next]_vars PROVE Inv'
    OBVIOUS
<1>1. TypeOK' /\ Updates' /\ Whole'
    BY TypeStep, UpdatesStep, WholeStep DEF Inv, Updates
<1>2. Commands' /\ InstallProgress' /\ UninstallProgress'
    BY CommandsStep, InstallProgressStep, UninstallProgressStep DEF Inv, Commands
<1>3. Chosen' /\ InstallTakesEffect' /\ UninstallLeavesNothing'
    BY ChosenStep, TakesEffectStep, LeavesNothingStep DEF Inv
<1> QED
    BY <1>1, <1>2, <1>3 DEF Inv

LEMMA Invariance == Spec => []Inv
    BY InvInit, InvStep, PTL DEF Spec

\* Wherever `update` is cut off, both names and the running service hold whole,
\* verified releases, and unless it was between the two names, the same one.
THEOREM NamesAgree == Spec => []BinariesAgree
<1>1. Inv => BinariesAgree
    <2> SUFFICES ASSUME Inv PROVE BinariesAgree
        OBVIOUS
    <2>1. TypeOK /\ Updates /\ Whole
        BY DEF Inv
    <2> QED
        BY <2>1 DEF BinariesAgree, Updates, Agree, Whole
<1> QED
    BY <1>1, Invariance, PTL

\* An install that reports success holds for the manager and at every boot,
\* whatever half-done commands came before.
THEOREM InstallHolds == Spec => []InstallTakesEffect
<1>1. Inv => InstallTakesEffect
    BY DEF Inv
<1> QED
    BY <1>1, Invariance, PTL

\* After an uninstall that reports success nothing runs, comes back or is
\* blocked, but for what a failed stop or a change of Detect's choice leaves.
THEOREM UninstallIsClean == Spec => []UninstallLeavesNothing
<1>1. Inv => UninstallLeavesNothing
    BY DEF Inv
<1> QED
    BY <1>1, Invariance, PTL
=============================================================================
