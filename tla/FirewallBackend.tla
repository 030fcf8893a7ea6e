-------------------------- MODULE FirewallBackend --------------------------
(***************************************************************************)
(* The firewall backends: nftables, iptables+ipset, iptables-nft, ufw, pf. *)
(* Init, Block and Flush run commands on the host's firewall, some behind   *)
(* a probe that asks whether an object is there already.  Any command may   *)
(* fail on its own (a lock that is held, a cancelled context), which ends   *)
(* the call with an error and leaves what it did in place.                  *)
(*                                                                         *)
(* An object of the host's firewall is <<kind, owner>>: owner is an        *)
(* address family for what a backend makes once per family, an address for *)
(* a blocked address, "all" otherwise.  How the host answers a command     *)
(* (Needs, HeldBy, Inside) is external.  Calls do not overlap; List is     *)
(* part of ufw's Flush; Status and Available change nothing.               *)
(***************************************************************************)
EXTENDS Sequences, FiniteSets, SequencesExt

CONSTANTS
    Backends,     \* the backends a host may have chosen, see Detect
    V4, V6        \* addresses of the two families that the agent blocks

ASSUME BackendAssumption ==
    /\ Backends \subseteq {"nft", "ipset", "iptables-nft", "ufw", "pf"}
    /\ V4 \cap V6 = {}
    /\ IsFiniteSet(V4) /\ IsFiniteSet(V6)

VARIABLES
    backend,      \* the backend this host uses
    blind,        \* on this host a probe may fail although its object is there
    here,         \* objects of the host's firewall
    twice,        \* iptables rules present in two copies
    call,         \* the call under way: "init", "block", "flush" or "none"
    target,       \* the address of the block call under way or made last
    todo,         \* the parts it has left
    doing,        \* the commands left of the part it is in
    last,         \* the call that ended last and how
    initialized,  \* the agent has seen Init return nil
    armed,        \* history: that happened after the last Flush began
    dropped,      \* history: addresses whose Block returned nil while armed
    disturbed     \* history: a command or probe of the last call failed on its own

host == <<backend, blind>>
vars == <<host, here, twice, call, target, todo, doing, last, initialized, armed,
          dropped, disturbed>>

Addrs == V4 \cup V6
Families == {"ip4", "ip6"}
Family(a) == IF a \in V4 THEN "ip4" ELSE "ip6"

Table == <<"table", "all">>
Chain(f) == <<"chain", f>>
Set(f) == <<"set", f>>
Drop(f) == <<"drop", f>>
Jump(f) == <<"jump", f>>
Blocked(a) == <<"blocked", a>>
Enabled == <<"enabled", "all">>

Elements(f) == {Blocked(a) : a \in {b \in Addrs : Family(b) = f}}
Rules == {Drop(f) : f \in Families} \cup {Jump(f) : f \in Families}
Objects ==
    {Table, Enabled, Chain("all"), Drop("all")} \cup Rules
        \cup {Chain(f) : f \in Families} \cup {Set(f) : f \in Families}
        \cup {Blocked(a) : a \in Addrs}

-----------------------------------------------------------------------------
\* What a call consists of: commands, in parts that run always, or only if a
\* probe finds an object missing, or present; in the order of the code.
Add(os) == [do |-> "add", on |-> os]
Delete(o) == [do |-> "delete", on |-> {o}]
Empty(o) == [do |-> "empty", on |-> {o}]
Query == [do |-> "query", on |-> {}]
ListTagged == [do |-> "list", on |-> {}]
Commands == [do : {"add", "delete", "empty", "query", "list"}, on : SUBSET Objects]

Always(commands) == [when |-> "always", probed |-> {}, run |-> commands]
IfMissing(o, commands) == [when |-> "missing", probed |-> {o}, run |-> commands]
IfPresent(o, commands) == [when |-> "present", probed |-> {o}, run |-> commands]
Parts == [when : {"always", "missing", "present"}, probed : SUBSET Objects, run : Seq(Commands)]

NftInit ==
    <<IfMissing(Table,
        <<Add({Table}), Add({Set("ip4")}), Add({Set("ip6")}), Add({Chain("all")}),
          Add({Drop("ip4")}), Add({Drop("ip6")})>>)>>
NftFlush == <<IfPresent(Table, <<Delete(Table)>>)>>

\* Plausible bug: a chain that is there is taken for a family that is ready.
IpsetInitFamilyOnce(f) ==
    <<IfMissing(Chain(f), <<Add({Chain(f)}), Add({Drop(f)}), Add({Jump(f)})>>)>>
IpsetInitFamily(f) ==
    <<IfMissing(Chain(f), <<Add({Chain(f)})>>), IfMissing(Drop(f), <<Add({Drop(f)})>>),
      IfMissing(Jump(f), <<Add({Jump(f)})>>)>>
IpsetInit ==
    <<IfMissing(Set("ip4"), <<Add({Set("ip4")})>>), IfMissing(Set("ip6"), <<Add({Set("ip6")})>>)>>
        \o IpsetInitFamily("ip4") \o IpsetInitFamily("ip6")

\* Plausible bug: the set is destroyed while the drop rule still uses it.
IpsetFlushFamilySetFirst(f) ==
    <<IfPresent(Jump(f), <<Delete(Jump(f))>>), IfPresent(Set(f), <<Delete(Set(f))>>),
      IfPresent(Chain(f), <<Empty(Chain(f)), Delete(Chain(f))>>)>>
IpsetFlushFamily(f) ==
    <<IfPresent(Jump(f), <<Delete(Jump(f))>>),
      IfPresent(Chain(f), <<Empty(Chain(f)), Delete(Chain(f))>>),
      IfPresent(Set(f), <<Delete(Set(f))>>)>>
IpsetFlush == IpsetFlushFamily("ip4") \o IpsetFlushFamily("ip6")

IptNftInitFamily(f) ==
    <<IfMissing(Chain(f), <<Add({Chain(f)})>>), IfMissing(Jump(f), <<Add({Jump(f)})>>)>>
IptNftInit == IptNftInitFamily("ip4") \o IptNftInitFamily("ip6")

\* Plausible bug: the chain is left behind when the jump to it is gone.
IptNftFlushFamilyByJump(f) ==
    <<IfPresent(Jump(f), <<Delete(Jump(f)), Empty(Chain(f)), Delete(Chain(f))>>)>>
IptNftFlushFamily(f) ==
    <<IfPresent(Jump(f), <<Delete(Jump(f))>>),
      IfPresent(Chain(f), <<Empty(Chain(f)), Delete(Chain(f))>>)>>
IptNftFlush == IptNftFlushFamily("ip4") \o IptNftFlushFamily("ip6")

UfwFlush == <<Always(<<ListTagged>>)>>

PfInit ==
    <<Always(<<Query>>), IfMissing(Enabled, <<Add({Enabled})>>),
      IfMissing(Table, <<Add({Table, Drop("all")})>>)>>
PfFlush == <<IfPresent(Table, <<Empty(Chain("all")), Delete(Table)>>)>>

InitParts ==
    CASE backend = "nft" -> NftInit
      [] backend = "ipset" -> IpsetInit
      [] backend = "iptables-nft" -> IptNftInit
      [] backend = "ufw" -> <<>>
      [] backend = "pf" -> PfInit

\* iptables-nft has no -exist, it probes first; pfctl -T add makes the table.
BlockParts(a) ==
    <<CASE backend = "iptables-nft" -> IfMissing(Blocked(a), <<Add({Blocked(a)})>>)
        [] backend = "pf" -> Always(<<Add({Table, Blocked(a)})>>)
        [] OTHER -> Always(<<Add({Blocked(a)})>>)>>

FlushParts ==
    CASE backend = "nft" -> NftFlush
      [] backend = "ipset" -> IpsetFlush
      [] backend = "iptables-nft" -> IptNftFlush
      [] backend = "ufw" -> UfwFlush
      [] backend = "pf" -> PfFlush

-----------------------------------------------------------------------------
\* The host's firewall: what must be there before o can be added.
Needs(o) ==
    LET f == o[2]
    IN  CASE o[1] = "set" /\ backend = "nft" -> {Table}
          [] o[1] = "chain" /\ backend = "nft" -> {Table}
          [] o[1] = "drop" /\ backend = "nft" -> {Chain("all"), Set(f)}
          [] o[1] = "drop" /\ backend = "ipset" -> {Chain(f), Set(f)}
          [] o[1] = "jump" -> {Chain(f)}
          [] o[1] = "blocked" /\ backend \in {"nft", "ipset"} -> {Set(Family(o[2]))}
          [] o[1] = "blocked" /\ backend = "iptables-nft" -> {Chain(Family(o[2]))}
          [] OTHER -> {}

\* What disappears with o, and what must be gone before o can be deleted.
Inside(o) ==
    CASE o[1] = "table" /\ backend = "nft" -> Objects
      [] o[1] = "table" /\ backend = "pf" -> {Blocked(a) : a \in Addrs}
      [] o[1] = "set" -> Elements(o[2])
      [] o[1] = "chain" -> {Drop(o[2])} \cup
            (IF backend = "iptables-nft" THEN Elements(o[2]) ELSE {})
      [] OTHER -> {}
HeldBy(o) ==
    CASE o[1] = "chain" -> {Jump(o[2])} \cup Inside(o)
      [] o[1] = "set" -> {Drop(o[2])}
      [] OTHER -> {}

IsRule(o) == o \in Rules \/ (o[1] = "blocked" /\ backend = "iptables-nft")
IsIptables == backend \in {"ipset", "iptables-nft"}

\* Packets from a meet every object of a drop.
Path(a) ==
    LET f == Family(a)
    IN  CASE backend = "nft" -> {Table, Set(f), Chain("all"), Drop(f), Blocked(a)}
          [] backend = "ipset" -> {Set(f), Chain(f), Drop(f), Jump(f), Blocked(a)}
          [] backend = "iptables-nft" -> {Chain(f), Jump(f), Blocked(a)}
          [] backend = "ufw" -> {Blocked(a)}
          [] backend = "pf" -> {Enabled, Table, Drop("all"), Blocked(a)}
Drops(a) == Path(a) \subseteq here

\* Everything the backend ever adds; pf itself is left enabled.
Ours == here \ {Enabled}

TypeOK ==
    /\ backend \in Backends
    /\ blind \in BOOLEAN
    /\ here \subseteq Objects
    /\ twice \subseteq here
    /\ call \in {"none", "init", "block", "flush"}
    /\ target \in Addrs
    /\ todo \in Seq(Parts) /\ doing \in Seq(Commands)
    /\ call = "none" => todo = <<>> /\ doing = <<>>
    /\ last \in {"none", "init", "block", "flush"} \X {"ok", "error"}
    /\ initialized \in BOOLEAN
    /\ armed \in BOOLEAN
    /\ armed => initialized
    /\ dropped \subseteq Addrs
    /\ disturbed \in BOOLEAN

-----------------------------------------------------------------------------
Init ==
    /\ backend \in Backends
    /\ blind \in BOOLEAN
    /\ here \in {{}, {Enabled}}
    /\ backend # "pf" => here = {}
    /\ twice = {}
    /\ call = "none"
    /\ target \in Addrs
    /\ todo = <<>> /\ doing = <<>>
    /\ last = <<"none", "ok">>
    /\ initialized = FALSE
    /\ armed = FALSE
    /\ dropped = {}
    /\ disturbed = FALSE

Begin(name, parts) ==
    /\ call = "none"
    /\ call' = name
    /\ todo' = parts
    /\ disturbed' = FALSE
    /\ UNCHANGED <<host, here, twice, doing, last, initialized>>

\* Run and reconcileState call Init when enforcement is on, at any time.
BeginInit ==
    /\ Begin("init", InitParts)
    /\ UNCHANGED <<target, armed, dropped>>

\* block: only an agent that has seen Init succeed gets here.
BeginBlock(a) ==
    /\ initialized
    /\ Begin("block", BlockParts(a))
    /\ target' = a
    /\ UNCHANGED <<armed, dropped>>

\* `agent flush` and `agent uninstall` call Flush from another process.
BeginFlush ==
    /\ Begin("flush", FlushParts)
    /\ armed' = FALSE
    /\ dropped' = {}
    /\ UNCHANGED target

Return(how) ==
    /\ call' = "none"
    /\ todo' = <<>> /\ doing' = <<>>
    /\ last' = <<call, how>>
    /\ initialized' = (initialized \/ (call = "init" /\ how = "ok"))
    /\ armed' = (armed \/ (call = "init" /\ how = "ok"))
    /\ dropped' = IF call = "block" /\ how = "ok" /\ armed
                     THEN dropped \cup {target} ELSE dropped

Calling == <<call, last, initialized, armed, dropped>>

\* All is done: nil.
ReturnNil ==
    /\ call # "none"
    /\ todo = <<>> /\ doing = <<>>
    /\ Return("ok")
    /\ UNCHANGED <<host, here, twice, target, disturbed>>

\* A part without a probe.
Enter ==
    /\ doing = <<>>
    /\ todo # <<>> /\ Head(todo).when = "always"
    /\ doing' = Head(todo).run
    /\ todo' = Tail(todo)
    /\ UNCHANGED <<host, here, twice, target, disturbed, Calling>>

\* A probe that fails is an answer: the object is not there.
Probe ==
    /\ doing = <<>>
    /\ todo # <<>> /\ Head(todo).when # "always"
    /\ LET probed == Head(todo).probed
       IN  \E found \in BOOLEAN :
              /\ found => probed \subseteq here
              /\ ~found => \/ probed \cap here = {}
                           \/ blind /\ probed \cap twice = {} /\ probed # {Enabled}
              /\ doing' = IF found = (Head(todo).when = "present") THEN Head(todo).run ELSE <<>>
              /\ disturbed' = (disturbed \/ found # (probed \subseteq here))
    /\ todo' = Tail(todo)
    /\ UNCHANGED <<host, here, twice, target, Calling>>

\* ufw lists its tagged rules and deletes each; a rule is the same in any order.
ListRules ==
    /\ doing # <<>> /\ Head(doing) = ListTagged
    /\ doing' = SetToSeq({Delete(o) : o \in {Blocked(a) : a \in Addrs} \cap here})
    /\ UNCHANGED <<host, here, twice, todo, target, disturbed, Calling>>

\* The host accepts a command; the rules of pf's anchor can always be emptied.
Accepts(s) ==
    CASE s.do = "add" -> \A o \in s.on : /\ Needs(o) \subseteq here \cup s.on
                                         /\ IsIptables /\ o[1] = "chain" => o \notin here
      [] s.do = "delete" -> s.on \subseteq here /\ \A o \in s.on : HeldBy(o) \cap here = {}
      [] s.do = "empty" -> s.on \subseteq here \/ backend = "pf"
      [] s.do = "query" -> TRUE
      [] OTHER -> FALSE

\* An iptables rule that is added again is there twice and deleted once.
Obey(s) ==
    CASE s.do = "add" ->
            /\ here' = here \cup s.on
            /\ twice' = twice \cup (IF IsIptables THEN {o \in s.on \cap here : IsRule(o)} ELSE {})
      [] s.do = "delete" ->
            /\ here' = here \ {o \in s.on \cup UNION {Inside(o) : o \in s.on} : o \notin twice}
            /\ twice' = twice \ s.on
      [] s.do = "empty" ->
            /\ here' = here \ UNION {Inside(o) : o \in s.on}
            /\ twice' = twice \ UNION {Inside(o) : o \in s.on}
      [] OTHER -> UNCHANGED <<here, twice>>

RunCommand ==
    /\ doing # <<>>
    /\ Accepts(Head(doing))
    /\ Obey(Head(doing))
    /\ doing' = Tail(doing)
    /\ UNCHANGED <<host, todo, target, disturbed, Calling>>

\* A command fails, on its own or because the host refuses it: the call ends.
CommandFails ==
    /\ doing # <<>>
    /\ Return("error")
    /\ disturbed' = (disturbed \/ Accepts(Head(doing)) \/ Head(doing) = ListTagged)
    /\ UNCHANGED <<host, here, twice, target>>

Next ==
    \/ BeginInit
    \/ \E a \in Addrs : BeginBlock(a)
    \/ BeginFlush
    \/ ReturnNil
    \/ Enter
    \/ Probe
    \/ ListRules
    \/ RunCommand
    \/ CommandFails

Spec == Init /\ [][Next]_vars

-----------------------------------------------------------------------------
\* Between calls, an address whose Block returned nil after Init returned nil,
\* with no Flush begun since, is dropped: however many calls failed half way
\* before, Init has put right what they left ("Idempotent").
BlockDrops ==
    call = "none" /\ armed => \A a \in dropped : Drops(a)

\* The backends that probe for each object keep that promise, also where probes
\* themselves fail.  (Checked together with TypeOK.)
ProbedBlockDrops == TypeOK /\ (backend \in {"ipset", "iptables-nft", "ufw"} => BlockDrops)

\* A Flush that returns nil has removed everything the backend ever added,
\* whatever earlier calls left half done, unless probes fail on this host.
FlushRemovesAll ==
    call = "none" /\ last = <<"flush", "ok">> /\ ~blind => Ours = {}

\* Init and Flush recover from anything earlier calls left: one in which
\* nothing fails on its own is never refused by the host, unless probes fail.
NeverStuck ==
    call = "none" /\ last \in {<<"init", "error">>, <<"flush", "error">>} /\ ~blind
        => disturbed
=============================================================================
