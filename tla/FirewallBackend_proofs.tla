----------------------- MODULE FirewallBackend_proofs -----------------------
(***************************************************************************)
(* What the calls of every backend leave in the host's firewall, for all    *)
(* addresses, whatever calls failed half way before.  The arguments are      *)
(* about what a call has still to do: an object it must add is there or      *)
(* still to come, and one it must remove is gone or still to come; and       *)
(* about the order, since objects need, contain and hold each other.         *)
(***************************************************************************)
EXTENDS FirewallBackend, SequenceTheorems, FiniteSetTheorems, FunctionTheorems, TLAPS

-----------------------------------------------------------------------------
(* The invariant.                                                          *)

AllBlocked == {Blocked(a) : a \in Addrs}
Sets == {Set("ip4"), Set("ip6")}
Chains == {Chain("ip4"), Chain("ip6")}
Drop2 == {Drop("ip4"), Drop("ip6")}
Jumps == {Jump("ip4"), Jump("ip6")}

\* What Init of the two iptables backends makes, object by object.
Required ==
    IF backend = "ipset" THEN Sets \cup Chains \cup Drop2 \cup Jumps
    ELSE IF backend = "iptables-nft" THEN Chains \cup Jumps ELSE {}
Make(o) == IfMissing(o, <<Add({o})>>)

\* Parts that make objects, and those that remove them, are in an order that
\* the host accepts.
MadeInOrder(parts) ==
    \A i, j \in DOMAIN parts : i < j => \A o \in parts[i].probed : Needs(o) \cap parts[j].probed = {}
Follows(o, before) ==
    \/ \E f \in Families : o = Chain(f) /\ before = Jump(f)
    \/ \E f \in Families : o = Set(f) /\ before = Chain(f)
RemovedInOrder(parts) ==
    \A i, j \in DOMAIN parts : i < j =>
        \A o \in parts[i].probed, before \in parts[j].probed : ~Follows(o, before)

\* Init: every object is there, being made, or still to come ...
IptInit ==
    call = "init" /\ IsIptables =>
        /\ todo \in Seq({Make(o) : o \in Required})
        /\ doing \in {<<>>} \cup {<<Add({o})>> : o \in Required}
        /\ \A o \in Required : \/ o \in here \/ doing = <<Add({o})>>
                               \/ \E i \in DOMAIN todo : todo[i] = Make(o)
        /\ MadeInOrder(todo)
        /\ ~blind => \A o \in Required : doing = <<Add({o})>> => o \notin here /\ Needs(o) \subseteq here
\* ... nftables makes its table and all that is in it at once.
NftMade == {Table, Chain("all")} \cup Sets \cup Drop2
NftIniting ==
    call = "init" /\ backend = "nft" =>
        \/ todo = NftInit /\ doing = <<>>
        \/ /\ todo = <<>>
           /\ doing \in Seq({Add({o}) : o \in NftMade})
           /\ \A i \in DOMAIN doing : \A o \in doing[i].on : \A n \in Needs(o) :
                  n \in here \/ \E j \in 1..(i - 1) : n \in doing[j].on
PfPart2 == IfMissing(Enabled, <<Add({Enabled})>>)
PfPart3 == IfMissing(Table, <<Add({Table, Drop("all")})>>)
OtherInit ==
    call = "init" =>
        /\ backend = "pf" =>
              /\ todo \in Seq({Always(<<Query>>), PfPart2, PfPart3})
              /\ doing \in {<<>>, <<Query>>, <<Add({Enabled})>>, <<Add({Table, Drop("all")})>>}
        /\ backend = "ufw" => todo = <<>> /\ doing = <<>>

\* Block is one command, on iptables-nft behind a probe.
BlockCommand(a) == IF backend = "pf" THEN Add({Table, Blocked(a)}) ELSE Add({Blocked(a)})
Blocking ==
    call = "block" =>
        \/ todo = BlockParts(target) /\ doing = <<>>
        \/ /\ todo = <<>> /\ doing = <<BlockCommand(target)>>
           /\ backend = "iptables-nft" /\ ~blind => Blocked(target) \notin here
        \/ todo = <<>> /\ doing = <<>> /\ Blocked(target) \in here

\* What Init and Block have promised stays until a Flush begins.
Promise ==
    /\ armed => call # "flush" /\ Required \subseteq here
    /\ dropped # {} => armed
    /\ \A a \in dropped : Blocked(a) \in here

\* Where probes do not fail no rule is there twice, and objects are only there
\* with the one that contains them.
Contained ==
    /\ twice = {}
    /\ backend = "nft" /\ here # {} => Table \in here
    /\ backend = "ipset" =>
          /\ here \subseteq Sets \cup Chains \cup Drop2 \cup Jumps \cup AllBlocked
          /\ \A f \in Families : Drop(f) \in here => Chain(f) \in here
          /\ \A a \in Addrs : Blocked(a) \in here => Set(Family(a)) \in here
    /\ backend = "iptables-nft" =>
          /\ here \subseteq Chains \cup Jumps \cup AllBlocked
          /\ \A a \in Addrs : Blocked(a) \in here => Chain(Family(a)) \in here
    /\ backend = "ufw" => here \subseteq AllBlocked
    /\ backend = "pf" =>
          /\ here \subseteq {Enabled, Table, Drop("all")} \cup AllBlocked
          /\ Ours # {} => Table \in here

\* Flush: every object that contains others is gone or still to come.
Roots == IF backend = "ipset" THEN Sets \cup Chains \cup Jumps ELSE Chains \cup Jumps
Clearing(o) == IF o \in Chains THEN <<Empty(o), Delete(o)>> ELSE <<Delete(o)>>
Clear(o) == IfPresent(o, Clearing(o))
IptFlush ==
    call = "flush" /\ IsIptables =>
        /\ todo \in Seq({Clear(o) : o \in Roots})
        /\ RemovedInOrder(todo)
        /\ doing \in {<<>>} \cup {Clearing(o) : o \in Roots} \cup {<<Delete(o)>> : o \in Roots}
        /\ \A o \in Roots :
              /\ o \in here => \/ doing = Clearing(o) \/ doing = <<Delete(o)>>
                               \/ \E i \in DOMAIN todo : todo[i] = Clear(o)
              /\ doing = Clearing(o) \/ doing = <<Delete(o)>> =>
                     o \in here /\ HeldBy(o) \cap here \subseteq Inside(o)
              /\ doing = <<Delete(o)>> => HeldBy(o) \cap here = {}
OtherFlush ==
    call = "flush" =>
        /\ backend = "nft" =>
              \/ todo = NftFlush /\ doing = <<>>
              \/ todo = <<>> /\ doing = <<Delete(Table)>> /\ Table \in here
              \/ todo = <<>> /\ doing = <<>> /\ here = {}
        /\ backend = "pf" =>
              \/ todo = PfFlush /\ doing = <<>>
              \/ todo = <<>> /\ doing = <<Empty(Chain("all")), Delete(Table)>> /\ Table \in here
              \/ todo = <<>> /\ doing = <<Delete(Table)>> /\ Table \in here /\ Drop("all") \notin here
              \/ todo = <<>> /\ doing = <<>> /\ Ours = {}
        /\ backend = "ufw" =>
              \/ todo = UfwFlush /\ doing = <<>>
              \/ todo = <<>> /\ doing = <<ListTagged>>
              \/ /\ todo = <<>> /\ doing \in Seq({Delete(o) : o \in here})
                 /\ \A i, j \in DOMAIN doing : doing[i] = doing[j] => i = j
                 /\ \A o \in here : \E i \in DOMAIN doing : doing[i] = Delete(o)

\* Which parts hold although probes may fail, and which need that they do not.
Inv ==
    /\ TypeOK
    /\ IptInit /\ NftIniting /\ OtherInit /\ Blocking /\ Promise
    /\ ~blind => /\ Contained /\ IptFlush /\ OtherFlush
                 /\ call # "none" => ~disturbed
    /\ FlushRemovesAll /\ NeverStuck

-----------------------------------------------------------------------------
(* Sequences and sets.                                                     *)

\* A sequence that has an element has a first one, and the others.
LEMMA Unfold ==
    ASSUME NEW S, NEW s \in Seq(S), s # <<>>
    PROVE  /\ Head(s) \in S /\ Head(s) = s[1] /\ 1 \in DOMAIN s
           /\ Tail(s) \in Seq(S)
           /\ DOMAIN s = 1..Len(s) /\ Len(s) \in Nat \ {0}
           /\ DOMAIN Tail(s) = 1..(Len(s) - 1)
           /\ \A i \in DOMAIN Tail(s) : i + 1 \in DOMAIN s /\ Tail(s)[i] = s[i + 1]
           /\ \A i \in DOMAIN s : i # 1 => i - 1 \in DOMAIN Tail(s) /\ Tail(s)[i - 1] = s[i]
<1>1. /\ Head(s) \in S /\ Tail(s) \in Seq(S) /\ Len(Tail(s)) = Len(s) - 1
      /\ \A i \in 1..Len(Tail(s)) : Tail(s)[i] = s[i + 1]
    BY HeadTailProperties
<1>2. DOMAIN s = 1..Len(s) /\ Len(s) \in Nat \ {0}
    BY LenProperties, EmptySeq
<1>3. DOMAIN Tail(s) = 1..(Len(s) - 1)
    BY <1>1, <1>2, LenProperties
<1>4. Head(s) = s[1]
    OBVIOUS
<1> QED
    BY <1>1, <1>2, <1>3, <1>4

\* A sequence is one over whatever holds its elements.
LEMMA Elementwise ==
    ASSUME NEW S, NEW T, NEW s \in Seq(S), \A i \in DOMAIN s : s[i] \in T
    PROVE  s \in Seq(T)
<1>1. \E n \in Nat : s \in [1..n -> S]
    BY SeqDef
<1>2. PICK n \in Nat : s \in [1..n -> S]
    BY <1>1
<1>3. s \in [1..n -> T]
    BY <1>2
<1> QED
    BY <1>3, SeqDef

\* A concatenation, element by element.
LEMMA ConcatIs ==
    ASSUME NEW S, NEW s \in Seq(S), NEW t \in Seq(S), NEW u \in Seq(S),
           Len(u) = Len(s) + Len(t),
           \A i \in 1..Len(s) : u[i] = s[i],
           \A i \in 1..Len(t) : u[Len(s) + i] = t[i]
    PROVE  s \o t = u
<1>1. /\ s \o t \in Seq(S) /\ Len(s \o t) = Len(s) + Len(t)
      /\ \A i \in 1..(Len(s) + Len(t)) : (s \o t)[i] = IF i <= Len(s) THEN s[i] ELSE t[i - Len(s)]
    BY ConcatProperties
<1>2. Len(s) \in Nat /\ Len(t) \in Nat
    OBVIOUS
<1>3. ASSUME NEW i \in 1..Len(u) PROVE (s \o t)[i] = u[i]
    <2>1. CASE i <= Len(s)
        BY <1>1, <1>2, <2>1
    <2>2. CASE ~(i <= Len(s))
        <3>1. i - Len(s) \in 1..Len(t) /\ Len(s) + (i - Len(s)) = i
            BY <1>2, <2>2
        <3>2. u[Len(s) + (i - Len(s))] = t[i - Len(s)]
            BY <3>1
        <3> QED
            BY <1>1, <1>2, <2>2, <3>1, <3>2
    <2> QED
        BY <2>1, <2>2
<1> QED
    BY <1>1, <1>3, SeqEqual

\* SetToSeq lists every element of a finite set once.
LEMMA Listing ==
    ASSUME NEW S, IsFiniteSet(S)
    PROVE  /\ SetToSeq(S) \in Seq(S)
           /\ \A i, j \in DOMAIN SetToSeq(S) : SetToSeq(S)[i] = SetToSeq(S)[j] => i = j
           /\ \A x \in S : \E i \in DOMAIN SetToSeq(S) : SetToSeq(S)[i] = x
<1> DEFINE n == Cardinality(S)
<1>1. n \in Nat /\ \E f : f \in Bijection(1..n, S)
    BY FS_CardinalityType DEF ExistsBijection
<1>2. SetToSeq(S) \in [1..n -> S] /\ IsInjective(SetToSeq(S))
    <2>1. \E f \in [1..n -> S] : IsInjective(f)
        BY <1>1 DEF Bijection, Injection
    <2> QED
        BY <2>1 DEF SetToSeq
<1>3. SetToSeq(S) \in Injection(1..n, S)
    BY <1>2 DEF Injection
<1>4. Cardinality(1..n) = n
    BY <1>1, FS_Interval
<1>5. SetToSeq(S) \in Surjection(1..n, S)
    BY <1>3, <1>4, FS_Injection
<1> QED
    BY <1>1, <1>2, <1>5, SeqDef DEF Surjection, IsInjective

\* The list of rules that ufw deletes.
Tagged == {Delete(o) : o \in {Blocked(a) : a \in Addrs} \cap here}

LEMMA TaggedFinite == IsFiniteSet(Tagged)
<1>1. IsFiniteSet(Addrs)
    BY BackendAssumption, FS_Union DEF BackendAssumption, Addrs
<1> DEFINE D == {a \in Addrs : Blocked(a) \in here}
           F == [a \in D |-> Delete(Blocked(a))]
<1>2. IsFiniteSet(D)
    BY <1>1, FS_Subset
<1>3. F \in [D -> Tagged] /\ \A t \in Tagged : \E a \in D : F[a] = t
    BY DEF Tagged
<1>4. F \in Surjection(D, Tagged)
    BY <1>3 DEF Surjection
<1> QED
    BY <1>2, <1>4, FS_Surjection

-----------------------------------------------------------------------------
(* Objects and plans.                                                      *)

\* Which kinds are which.
LEMMA Kinds ==
    /\ Table[1] = "table" /\ Table[2] = "all"
    /\ Enabled[1] = "enabled"
    /\ \A f : Chain(f)[1] = "chain" /\ Chain(f)[2] = f
    /\ \A f : Set(f)[1] = "set" /\ Set(f)[2] = f
    /\ \A f : Drop(f)[1] = "drop" /\ Drop(f)[2] = f
    /\ \A f : Jump(f)[1] = "jump" /\ Jump(f)[2] = f
    /\ \A a : Blocked(a)[1] = "blocked" /\ Blocked(a)[2] = a
    BY DEF Table, Enabled, Chain, Set, Drop, Jump, Blocked

LEMMA AreObjects ==
    /\ {Table, Enabled, Chain("all"), Drop("all")} \subseteq Objects
    /\ Sets \cup Chains \cup Drop2 \cup Jumps \cup AllBlocked \subseteq Objects
    BY DEF Objects, Rules, Families, Sets, Chains, Drop2, Jumps, AllBlocked

LEMMA Typed ==
    /\ \A os \in SUBSET Objects : Add(os) \in Commands
    /\ \A o \in Objects : Delete(o) \in Commands /\ Empty(o) \in Commands
    /\ Query \in Commands /\ ListTagged \in Commands
    /\ \A c \in Seq(Commands) : Always(c) \in Parts
    /\ \A o \in Objects : \A c \in Seq(Commands) : IfMissing(o, c) \in Parts /\ IfPresent(o, c) \in Parts
    BY DEF Add, Delete, Empty, Query, ListTagged, Commands, Always, IfMissing, IfPresent, Parts

LEMMA MakeTyped == \A o \in Objects : Make(o) \in Parts /\ <<Add({o})>> \in Seq(Commands)
<1>1. \A o \in Objects : <<Add({o})>> \in Seq(Commands)
    BY Typed
<1> QED
    BY <1>1, Typed DEF Make

LEMMA ClearTyped == \A o \in Objects : Clear(o) \in Parts /\ Clearing(o) \in Seq(Commands)
<1>1. \A o \in Objects : <<Empty(o), Delete(o)>> \in Seq(Commands) /\ <<Delete(o)>> \in Seq(Commands)
    BY Typed
<1> QED
    BY <1>1, Typed DEF Clear, Clearing

\* The concatenations of the plans.
LEMMA Concat22 ==
    ASSUME NEW a, NEW b, NEW c, NEW d
    PROVE  <<a, b>> \o <<c, d>> = <<a, b, c, d>>
<1> DEFINE S == {a, b, c, d}
           s == <<a, b>>
           t == <<c, d>>
           u == <<a, b, c, d>>
<1>1. s \in Seq(S) /\ t \in Seq(S) /\ u \in Seq(S) /\ Len(u) = Len(s) + Len(t)
    OBVIOUS
<1>2. (\A i \in 1..Len(s) : u[i] = s[i]) /\ (\A i \in 1..Len(t) : u[Len(s) + i] = t[i])
    OBVIOUS
<1> HIDE DEF s, t, u, S
<1>3. s \o t = u
    BY <1>1, <1>2, ConcatIs
<1> QED
    BY <1>3 DEF s, t, u

LEMMA Concat23 ==
    ASSUME NEW a, NEW b, NEW c, NEW d, NEW e
    PROVE  <<a, b>> \o <<c, d, e>> = <<a, b, c, d, e>>
<1> DEFINE S == {a, b, c, d, e}
           s == <<a, b>>
           t == <<c, d, e>>
           u == <<a, b, c, d, e>>
<1>1. s \in Seq(S) /\ t \in Seq(S) /\ u \in Seq(S) /\ Len(u) = Len(s) + Len(t)
    OBVIOUS
<1>2. (\A i \in 1..Len(s) : u[i] = s[i]) /\ (\A i \in 1..Len(t) : u[Len(s) + i] = t[i])
    OBVIOUS
<1> HIDE DEF s, t, u, S
<1>3. s \o t = u
    BY <1>1, <1>2, ConcatIs
<1> QED
    BY <1>3 DEF s, t, u

LEMMA Concat33 ==
    ASSUME NEW a, NEW b, NEW c, NEW d, NEW e, NEW f
    PROVE  <<a, b, c>> \o <<d, e, f>> = <<a, b, c, d, e, f>>
<1> DEFINE S == {a, b, c, d, e, f}
           s == <<a, b, c>>
           t == <<d, e, f>>
           u == <<a, b, c, d, e, f>>
<1>1. s \in Seq(S) /\ t \in Seq(S) /\ u \in Seq(S) /\ Len(u) = Len(s) + Len(t)
    OBVIOUS
<1>2. (\A i \in 1..Len(s) : u[i] = s[i]) /\ (\A i \in 1..Len(t) : u[Len(s) + i] = t[i])
    OBVIOUS
<1> HIDE DEF s, t, u, S
<1>3. s \o t = u
    BY <1>1, <1>2, ConcatIs
<1> QED
    BY <1>3 DEF s, t, u

LEMMA Concat53 ==
    ASSUME NEW a, NEW b, NEW c, NEW d, NEW e, NEW f, NEW g, NEW h
    PROVE  <<a, b, c, d, e>> \o <<f, g, h>> = <<a, b, c, d, e, f, g, h>>
<1> DEFINE S == {a, b, c, d, e, f, g, h}
           s == <<a, b, c, d, e>>
           t == <<f, g, h>>
           u == <<a, b, c, d, e, f, g, h>>
<1>1. s \in Seq(S) /\ t \in Seq(S) /\ u \in Seq(S) /\ Len(u) = Len(s) + Len(t)
    OBVIOUS
<1>2. (\A i \in 1..Len(s) : u[i] = s[i]) /\ (\A i \in 1..Len(t) : u[Len(s) + i] = t[i])
    OBVIOUS
<1> HIDE DEF s, t, u, S
<1>3. s \o t = u
    BY <1>1, <1>2, ConcatIs
<1> QED
    BY <1>3 DEF s, t, u

\* The plans of the iptables backends, in one piece.
LEMMA IptPlans ==
    /\ IpsetInit = <<Make(Set("ip4")), Make(Set("ip6")),
                     Make(Chain("ip4")), Make(Drop("ip4")), Make(Jump("ip4")),
                     Make(Chain("ip6")), Make(Drop("ip6")), Make(Jump("ip6"))>>
    /\ IptNftInit = <<Make(Chain("ip4")), Make(Jump("ip4")), Make(Chain("ip6")), Make(Jump("ip6"))>>
    /\ IpsetFlush = <<Clear(Jump("ip4")), Clear(Chain("ip4")), Clear(Set("ip4")),
                      Clear(Jump("ip6")), Clear(Chain("ip6")), Clear(Set("ip6"))>>
    /\ IptNftFlush = <<Clear(Jump("ip4")), Clear(Chain("ip4")), Clear(Jump("ip6")), Clear(Chain("ip6"))>>
<1>1. ASSUME NEW f \in Families
      PROVE  /\ IpsetInitFamily(f) = <<Make(Chain(f)), Make(Drop(f)), Make(Jump(f))>>
             /\ IptNftInitFamily(f) = <<Make(Chain(f)), Make(Jump(f))>>
    BY DEF IpsetInitFamily, IptNftInitFamily, Make
<1>2. ASSUME NEW f \in Families
      PROVE  /\ IpsetFlushFamily(f) = <<Clear(Jump(f)), Clear(Chain(f)), Clear(Set(f))>>
             /\ IptNftFlushFamily(f) = <<Clear(Jump(f)), Clear(Chain(f))>>
    <2>1. Chain(f) \in Chains /\ Jump(f) \notin Chains /\ Set(f) \notin Chains
        BY Kinds DEF Chains, Families
    <2> QED
        BY <2>1 DEF IpsetFlushFamily, IptNftFlushFamily, Clear, Clearing
<1>3. "ip4" \in Families /\ "ip6" \in Families
    BY DEF Families
<1>4. IpsetInit = <<Make(Set("ip4")), Make(Set("ip6")),
                    Make(Chain("ip4")), Make(Drop("ip4")), Make(Jump("ip4")),
                    Make(Chain("ip6")), Make(Drop("ip6")), Make(Jump("ip6"))>>
    <2>1. IpsetInit = (<<Make(Set("ip4")), Make(Set("ip6"))>> \o IpsetInitFamily("ip4")) \o IpsetInitFamily("ip6")
        BY DEF IpsetInit, Make
    <2>2. IpsetInitFamily("ip4") = <<Make(Chain("ip4")), Make(Drop("ip4")), Make(Jump("ip4"))>>
        BY <1>1, <1>3
    <2>3. IpsetInitFamily("ip6") = <<Make(Chain("ip6")), Make(Drop("ip6")), Make(Jump("ip6"))>>
        BY <1>1, <1>3
    <2>4. <<Make(Set("ip4")), Make(Set("ip6"))>> \o <<Make(Chain("ip4")), Make(Drop("ip4")), Make(Jump("ip4"))>>
          = <<Make(Set("ip4")), Make(Set("ip6")), Make(Chain("ip4")), Make(Drop("ip4")), Make(Jump("ip4"))>>
        BY Concat23
    <2>5. <<Make(Set("ip4")), Make(Set("ip6")), Make(Chain("ip4")), Make(Drop("ip4")), Make(Jump("ip4"))>>
              \o <<Make(Chain("ip6")), Make(Drop("ip6")), Make(Jump("ip6"))>>
          = <<Make(Set("ip4")), Make(Set("ip6")), Make(Chain("ip4")), Make(Drop("ip4")), Make(Jump("ip4")),
              Make(Chain("ip6")), Make(Drop("ip6")), Make(Jump("ip6"))>>
        BY Concat53
    <2> QED
        BY <2>1, <2>2, <2>3, <2>4, <2>5, Zenon
<1>5. IptNftInit = <<Make(Chain("ip4")), Make(Jump("ip4")), Make(Chain("ip6")), Make(Jump("ip6"))>>
    BY <1>1, <1>3, Concat22 DEF IptNftInit
<1>6. IpsetFlush = <<Clear(Jump("ip4")), Clear(Chain("ip4")), Clear(Set("ip4")),
                     Clear(Jump("ip6")), Clear(Chain("ip6")), Clear(Set("ip6"))>>
    <2>1. IpsetFlush = IpsetFlushFamily("ip4") \o IpsetFlushFamily("ip6")
        BY DEF IpsetFlush
    <2>2. IpsetFlushFamily("ip4") = <<Clear(Jump("ip4")), Clear(Chain("ip4")), Clear(Set("ip4"))>>
        BY <1>2, <1>3
    <2>3. IpsetFlushFamily("ip6") = <<Clear(Jump("ip6")), Clear(Chain("ip6")), Clear(Set("ip6"))>>
        BY <1>2, <1>3
    <2>4. <<Clear(Jump("ip4")), Clear(Chain("ip4")), Clear(Set("ip4"))>>
              \o <<Clear(Jump("ip6")), Clear(Chain("ip6")), Clear(Set("ip6"))>>
          = <<Clear(Jump("ip4")), Clear(Chain("ip4")), Clear(Set("ip4")),
              Clear(Jump("ip6")), Clear(Chain("ip6")), Clear(Set("ip6"))>>
        BY Concat33
    <2> QED
        BY <2>1, <2>2, <2>3, <2>4, Zenon
<1>7. IptNftFlush = <<Clear(Jump("ip4")), Clear(Chain("ip4")), Clear(Jump("ip6")), Clear(Chain("ip6"))>>
    BY <1>2, <1>3, Concat22 DEF IptNftFlush
<1> QED
    BY <1>4, <1>5, <1>6, <1>7

LEMMA IptNeeds ==
    ASSUME IsIptables
    PROVE  /\ \A f : Needs(Set(f)) = {} /\ Needs(Chain(f)) = {} /\ Needs(Jump(f)) = {Chain(f)}
           /\ backend = "ipset" => \A f : Needs(Drop(f)) = {Chain(f), Set(f)}
           /\ backend = "ipset" => \A a : Needs(Blocked(a)) = {Set(Family(a))}
           /\ backend = "iptables-nft" => \A a : Needs(Blocked(a)) = {Chain(Family(a))}
    BY Kinds DEF IsIptables, Needs

\* The objects of the two families are all different.
LEMMA Different ==
    /\ Set("ip4") # Set("ip6") /\ Chain("ip4") # Chain("ip6") /\ Jump("ip4") # Jump("ip6") /\ Drop("ip4") # Drop("ip6")
    /\ \A f, g : Set(f) # Chain(g) /\ Set(f) # Jump(g) /\ Set(f) # Drop(g)
    /\ \A f, g : Chain(f) # Jump(g) /\ Chain(f) # Drop(g) /\ Jump(f) # Drop(g)
    BY Kinds

LEMMA InitPlan ==
    ASSUME IsIptables
    PROVE  /\ InitParts \in Seq({Make(o) : o \in Required})
           /\ \A o \in Required : \E i \in DOMAIN InitParts : InitParts[i] = Make(o)
           /\ MadeInOrder(InitParts)
<1>0. \A o : Make(o).probed = {o}
    BY DEF Make, IfMissing
<1>1. CASE backend = "ipset"
    <2> DEFINE P == <<Make(Set("ip4")), Make(Set("ip6")),
                      Make(Chain("ip4")), Make(Drop("ip4")), Make(Jump("ip4")),
                      Make(Chain("ip6")), Make(Drop("ip6")), Make(Jump("ip6"))>>
    <2>1. InitParts = P
        BY <1>1, IptPlans DEF InitParts
    <2>2. Required = {Set("ip4"), Set("ip6"), Chain("ip4"), Chain("ip6"),
                      Drop("ip4"), Drop("ip6"), Jump("ip4"), Jump("ip6")}
        BY <1>1 DEF Required, Sets, Chains, Drop2, Jumps
    <2>3. P \in Seq({Make(o) : o \in Required})
        BY <2>2
    <2>4. DOMAIN P = 1..8
        OBVIOUS
    <2>5. \A o \in Required : \E i \in 1..8 : P[i] = Make(o)
        BY <2>2
    <2>6. MadeInOrder(P)
        <3>1. /\ P[1].probed = {Set("ip4")} /\ P[2].probed = {Set("ip6")}
              /\ P[3].probed = {Chain("ip4")} /\ P[4].probed = {Drop("ip4")} /\ P[5].probed = {Jump("ip4")}
              /\ P[6].probed = {Chain("ip6")} /\ P[7].probed = {Drop("ip6")} /\ P[8].probed = {Jump("ip6")}
            BY <1>0
        <3> HIDE DEF P
        <3>2. /\ Needs(Set("ip4")) = {} /\ Needs(Set("ip6")) = {} /\ Needs(Chain("ip4")) = {} /\ Needs(Chain("ip6")) = {}
              /\ Needs(Drop("ip4")) = {Chain("ip4"), Set("ip4")} /\ Needs(Drop("ip6")) = {Chain("ip6"), Set("ip6")}
              /\ Needs(Jump("ip4")) = {Chain("ip4")} /\ Needs(Jump("ip6")) = {Chain("ip6")}
            BY <1>1, IptNeeds
        <3>3. ASSUME NEW i \in 1..8, NEW j \in 1..8, i < j, NEW o \in P[i].probed
              PROVE  Needs(o) \cap P[j].probed = {}
            <4>1. CASE i \in {1, 2, 3, 6}
                BY <3>1, <3>2, <3>3, <4>1
            <4>2. CASE i \in {4, 5}
                <5>1. j \in {5, 6, 7, 8}
                    BY <3>3, <4>2
                <5> QED
                    BY <3>1, <3>2, <3>3, <4>2, <5>1, Different
            <4>3. CASE i = 7
                <5>1. j = 8
                    BY <3>3, <4>3
                <5> QED
                    BY <3>1, <3>2, <3>3, <4>3, <5>1, Different
            <4>4. i # 8
                BY <3>3
            <4>5. i \in {1, 2, 3, 6, 4, 5, 7}
                BY <4>4
            <4> QED
                BY <4>1, <4>2, <4>3, <4>5
        <3> QED
            BY <2>4, <3>3 DEF MadeInOrder
    <2> HIDE DEF P
    <2> QED
        BY <2>1, <2>3, <2>4, <2>5, <2>6
<1>2. CASE backend = "iptables-nft"
    <2> DEFINE P == <<Make(Chain("ip4")), Make(Jump("ip4")), Make(Chain("ip6")), Make(Jump("ip6"))>>
    <2>1. InitParts = P
        BY <1>2, IptPlans DEF InitParts
    <2>2. Required = {Chain("ip4"), Chain("ip6"), Jump("ip4"), Jump("ip6")}
        BY <1>2 DEF Required, Chains, Jumps
    <2>3. P \in Seq({Make(o) : o \in Required})
        BY <2>2
    <2>4. DOMAIN P = 1..4
        OBVIOUS
    <2>5. \A o \in Required : \E i \in 1..4 : P[i] = Make(o)
        BY <2>2
    <2>6. MadeInOrder(P)
        <3>1. /\ P[1].probed = {Chain("ip4")} /\ P[2].probed = {Jump("ip4")}
              /\ P[3].probed = {Chain("ip6")} /\ P[4].probed = {Jump("ip6")}
            BY <1>0
        <3> HIDE DEF P
        <3>2. /\ Needs(Chain("ip4")) = {} /\ Needs(Chain("ip6")) = {}
              /\ Needs(Jump("ip4")) = {Chain("ip4")} /\ Needs(Jump("ip6")) = {Chain("ip6")}
            BY IptNeeds
        <3>3. ASSUME NEW i \in 1..4, NEW j \in 1..4, i < j, NEW o \in P[i].probed
              PROVE  Needs(o) \cap P[j].probed = {}
            <4>1. CASE i \in {1, 3}
                BY <3>1, <3>2, <3>3, <4>1
            <4>2. CASE i = 2
                <5>1. j \in {3, 4}
                    BY <3>3, <4>2
                <5> QED
                    BY <3>1, <3>2, <3>3, <4>2, <5>1, Different
            <4>3. i # 4
                BY <3>3
            <4>4. i \in {1, 3, 2}
                BY <4>3
            <4> QED
                BY <4>1, <4>2, <4>4
        <3> QED
            BY <2>4, <3>3 DEF MadeInOrder
    <2> HIDE DEF P
    <2> QED
        BY <2>1, <2>3, <2>4, <2>5, <2>6
<1> QED
    BY <1>1, <1>2 DEF IsIptables

LEMMA FlushPlan ==
    ASSUME IsIptables
    PROVE  /\ FlushParts \in Seq({Clear(o) : o \in Roots})
           /\ \A o \in Roots : \E i \in DOMAIN FlushParts : FlushParts[i] = Clear(o)
           /\ RemovedInOrder(FlushParts)
<1>0. \A o : Clear(o).probed = {o}
    BY DEF Clear, IfPresent
<1>3. ASSUME NEW o, NEW before, Follows(o, before)
      PROVE  \/ o = Chain("ip4") /\ before = Jump("ip4")
             \/ o = Chain("ip6") /\ before = Jump("ip6")
             \/ o = Set("ip4") /\ before = Chain("ip4")
             \/ o = Set("ip6") /\ before = Chain("ip6")
    BY <1>3 DEF Follows, Families
<1>1. CASE backend = "ipset"
    <2> DEFINE P == <<Clear(Jump("ip4")), Clear(Chain("ip4")), Clear(Set("ip4")),
                      Clear(Jump("ip6")), Clear(Chain("ip6")), Clear(Set("ip6"))>>
    <2>1. FlushParts = P
        BY <1>1, IptPlans DEF FlushParts
    <2>2. Roots = {Set("ip4"), Set("ip6"), Chain("ip4"), Chain("ip6"), Jump("ip4"), Jump("ip6")}
        BY <1>1 DEF Roots, Sets, Chains, Jumps
    <2>3. P \in Seq({Clear(o) : o \in Roots})
        BY <2>2
    <2>4. DOMAIN P = 1..6
        OBVIOUS
    <2>5. \A o \in Roots : \E i \in 1..6 : P[i] = Clear(o)
        BY <2>2
    <2>6. RemovedInOrder(P)
        <3>1. /\ P[1].probed = {Jump("ip4")} /\ P[2].probed = {Chain("ip4")} /\ P[3].probed = {Set("ip4")}
              /\ P[4].probed = {Jump("ip6")} /\ P[5].probed = {Chain("ip6")} /\ P[6].probed = {Set("ip6")}
            BY <1>0
        <3> HIDE DEF P
        <3>2. ASSUME NEW i \in 1..6, NEW j \in 1..6, i < j,
                     NEW o \in P[i].probed, NEW before \in P[j].probed, Follows(o, before)
              PROVE  FALSE
            <4>1. CASE o = Chain("ip4") /\ before = Jump("ip4")
                <5>1. i = 2 /\ j = 1
                    BY <3>1, <4>1, Different
                <5> QED
                    BY <3>2, <5>1
            <4>2. CASE o = Chain("ip6") /\ before = Jump("ip6")
                <5>1. i = 5 /\ j = 4
                    BY <3>1, <4>2, Different
                <5> QED
                    BY <3>2, <5>1
            <4>3. CASE o = Set("ip4") /\ before = Chain("ip4")
                <5>1. i = 3 /\ j = 2
                    BY <3>1, <4>3, Different
                <5> QED
                    BY <3>2, <5>1
            <4>4. CASE o = Set("ip6") /\ before = Chain("ip6")
                <5>1. i = 6 /\ j = 5
                    BY <3>1, <4>4, Different
                <5> QED
                    BY <3>2, <5>1
            <4> QED
                BY <1>3, <3>2, <4>1, <4>2, <4>3, <4>4
        <3> QED
            BY <2>4, <3>2 DEF RemovedInOrder
    <2> HIDE DEF P
    <2> QED
        BY <2>1, <2>3, <2>4, <2>5, <2>6
<1>2. CASE backend = "iptables-nft"
    <2> DEFINE P == <<Clear(Jump("ip4")), Clear(Chain("ip4")), Clear(Jump("ip6")), Clear(Chain("ip6"))>>
    <2>1. FlushParts = P
        BY <1>2, IptPlans DEF FlushParts
    <2>2. Roots = {Chain("ip4"), Chain("ip6"), Jump("ip4"), Jump("ip6")}
        BY <1>2 DEF Roots, Chains, Jumps
    <2>3. P \in Seq({Clear(o) : o \in Roots})
        BY <2>2
    <2>4. DOMAIN P = 1..4
        OBVIOUS
    <2>5. \A o \in Roots : \E i \in 1..4 : P[i] = Clear(o)
        BY <2>2
    <2>6. RemovedInOrder(P)
        <3>1. /\ P[1].probed = {Jump("ip4")} /\ P[2].probed = {Chain("ip4")}
              /\ P[3].probed = {Jump("ip6")} /\ P[4].probed = {Chain("ip6")}
            BY <1>0
        <3> HIDE DEF P
        <3>2. ASSUME NEW i \in 1..4, NEW j \in 1..4, i < j,
                     NEW o \in P[i].probed, NEW before \in P[j].probed, Follows(o, before)
              PROVE  FALSE
            <4>1. CASE o = Chain("ip4") /\ before = Jump("ip4")
                <5>1. i = 2 /\ j = 1
                    BY <3>1, <4>1, Different
                <5> QED
                    BY <3>2, <5>1
            <4>2. CASE o = Chain("ip6") /\ before = Jump("ip6")
                <5>1. i = 4 /\ j = 3
                    BY <3>1, <4>2, Different
                <5> QED
                    BY <3>2, <5>1
            <4>3. CASE o \in Sets
                BY <3>1, <4>3, Different DEF Sets
            <4> QED
                BY <1>3, <3>2, <4>1, <4>2, <4>3 DEF Sets
        <3> QED
            BY <2>4, <3>2 DEF RemovedInOrder
    <2> HIDE DEF P
    <2> QED
        BY <2>1, <2>3, <2>4, <2>5, <2>6
<1> QED
    BY <1>1, <1>2 DEF IsIptables

-----------------------------------------------------------------------------
(* Types.                                                                  *)

LEMMA PlanTypes ==
    ASSUME backend \in Backends
    PROVE  /\ InitParts \in Seq(Parts) /\ FlushParts \in Seq(Parts)
           /\ \A a \in Addrs : BlockParts(a) \in Seq(Parts)
<1> DEFINE Plans == InitParts \in Seq(Parts) /\ FlushParts \in Seq(Parts)
<1> USE Typed, AreObjects
<1>0. backend \in {"nft", "ipset", "iptables-nft", "ufw", "pf"}
    BY BackendAssumption DEF BackendAssumption
<1>1. ASSUME IsIptables PROVE Plans
    <2>1. \A o \in Required \cup Roots : o \in Objects
        BY DEF Required, Roots
    <2>2. {Make(o) : o \in Required} \subseteq Parts /\ {Clear(o) : o \in Roots} \subseteq Parts
        BY <2>1, MakeTyped, ClearTyped
    <2> QED
        BY <1>1, <2>2, InitPlan, FlushPlan, SeqMonotonic
<1>2. ASSUME backend = "nft" PROVE Plans
    <2>1. /\ Add({Table}) \in Commands /\ Add({Set("ip4")}) \in Commands /\ Add({Set("ip6")}) \in Commands
          /\ Add({Chain("all")}) \in Commands /\ Add({Drop("ip4")}) \in Commands /\ Add({Drop("ip6")}) \in Commands
        BY DEF Sets, Drop2
    <2>2. NftInit \in Seq(Parts)
        <3>1. <<Add({Table}), Add({Set("ip4")}), Add({Set("ip6")}), Add({Chain("all")}),
                Add({Drop("ip4")}), Add({Drop("ip6")})>> \in Seq(Commands)
            BY <2>1
        <3> DEFINE c == <<Add({Table}), Add({Set("ip4")}), Add({Set("ip6")}), Add({Chain("all")}),
                          Add({Drop("ip4")}), Add({Drop("ip6")})>>
        <3> HIDE DEF c
        <3>2. IfMissing(Table, c) \in Parts
            BY <3>1 DEF c
        <3>3. NftInit = <<IfMissing(Table, c)>>
            BY DEF NftInit, c
        <3> QED
            BY <3>2, <3>3
    <2>3. NftFlush \in Seq(Parts)
        <3>1. <<Delete(Table)>> \in Seq(Commands)
            OBVIOUS
        <3>2. IfPresent(Table, <<Delete(Table)>>) \in Parts
            BY <3>1
        <3> QED
            BY <3>2 DEF NftFlush
    <2> QED
        BY <1>2, <2>2, <2>3 DEF InitParts, FlushParts, IsIptables
<1>3. ASSUME backend = "ufw" PROVE Plans
    <2>1. UfwFlush \in Seq(Parts)
        <3>1. <<ListTagged>> \in Seq(Commands)
            OBVIOUS
        <3>2. Always(<<ListTagged>>) \in Parts
            BY <3>1
        <3> QED
            BY <3>2 DEF UfwFlush
    <2>2. <<>> \in Seq(Parts)
        OBVIOUS
    <2> QED
        BY <1>3, <2>1, <2>2 DEF InitParts, FlushParts, IsIptables
<1>4. ASSUME backend = "pf" PROVE Plans
    <2>1. PfInit \in Seq(Parts)
        <3>1. <<Query>> \in Seq(Commands) /\ <<Add({Enabled})>> \in Seq(Commands)
              /\ <<Add({Table, Drop("all")})>> \in Seq(Commands)
            OBVIOUS
        <3>2. /\ Always(<<Query>>) \in Parts /\ IfMissing(Enabled, <<Add({Enabled})>>) \in Parts
              /\ IfMissing(Table, <<Add({Table, Drop("all")})>>) \in Parts
            BY <3>1
        <3> QED
            BY <3>2 DEF PfInit
    <2>2. PfFlush \in Seq(Parts)
        <3>1. <<Empty(Chain("all")), Delete(Table)>> \in Seq(Commands)
            OBVIOUS
        <3>2. IfPresent(Table, <<Empty(Chain("all")), Delete(Table)>>) \in Parts
            BY <3>1
        <3> QED
            BY <3>2 DEF PfFlush
    <2> QED
        BY <1>4, <2>1, <2>2 DEF InitParts, FlushParts, IsIptables
<1>5. ASSUME NEW a \in Addrs PROVE BlockParts(a) \in Seq(Parts)
    <2>1. Blocked(a) \in Objects
        BY DEF AllBlocked
    <2>2. <<Add({Table, Blocked(a)})>> \in Seq(Commands) /\ <<Add({Blocked(a)})>> \in Seq(Commands)
        BY <2>1
    <2>3. /\ IfMissing(Blocked(a), <<Add({Blocked(a)})>>) \in Parts
          /\ Always(<<Add({Table, Blocked(a)})>>) \in Parts /\ Always(<<Add({Blocked(a)})>>) \in Parts
        BY <2>1, <2>2
    <2> QED
        BY <2>3 DEF BlockParts
<1> QED
    BY <1>0, <1>1, <1>2, <1>3, <1>4, <1>5 DEF IsIptables

LEMMA TaggedType == SetToSeq(Tagged) \in Seq(Commands)
<1>1. Tagged \subseteq Commands
    BY Typed, AreObjects DEF Tagged, AllBlocked
<1> QED
    BY <1>1, TaggedFinite, Listing, SeqMonotonic

\* A command leaves a firewall of known objects.
LEMMA ObeyType ==
    ASSUME NEW s \in Commands, here \subseteq Objects, twice \subseteq here, Obey(s)
    PROVE  here' \subseteq Objects /\ twice' \subseteq here'
<1>1. s.on \subseteq Objects
    BY DEF Commands
<1>2. CASE s.do = "add"
    BY <1>1, <1>2 DEF Obey
<1>3. CASE s.do = "delete"
    BY <1>1, <1>3 DEF Obey
<1>4. CASE s.do = "empty"
    BY <1>1, <1>4 DEF Obey
<1>5. CASE s.do \notin {"add", "delete", "empty"}
    BY <1>5 DEF Obey
<1> QED
    BY <1>2, <1>3, <1>4, <1>5

LEMMA TypeStep == TypeOK /\ [Next]_vars => TypeOK'
<1> SUFFICES ASSUME TypeOK, [Next]_vars PROVE TypeOK'
    OBVIOUS
<1>0. <<>> \in Seq(Parts) /\ <<>> \in Seq(Commands)
    OBVIOUS
<1>1. ASSUME BeginInit PROVE TypeOK'
    BY <1>1, PlanTypes DEF BeginInit, Begin, TypeOK, host
<1>2. ASSUME NEW a \in Addrs, BeginBlock(a) PROVE TypeOK'
    BY <1>2, PlanTypes DEF BeginBlock, Begin, TypeOK, host
<1>3. ASSUME BeginFlush PROVE TypeOK'
    BY <1>3, PlanTypes DEF BeginFlush, Begin, TypeOK, host
<1>4. ASSUME NEW how \in {"ok", "error"}, call # "none", Return(how), UNCHANGED <<host, here, twice, target>>,
             disturbed' \in BOOLEAN
      PROVE  TypeOK'
    <2>1. last' \in {"none", "init", "block", "flush"} \X {"ok", "error"}
        BY <1>4 DEF Return, TypeOK
    <2>2. initialized' \in BOOLEAN /\ armed' \in BOOLEAN /\ (armed' => initialized') /\ dropped' \subseteq Addrs
        BY <1>4 DEF Return, TypeOK
    <2> QED
        BY <1>0, <1>4, <2>1, <2>2 DEF Return, TypeOK, host
<1>5. ASSUME ReturnNil PROVE TypeOK'
    BY <1>4, <1>5 DEF ReturnNil, TypeOK
<1>6. ASSUME CommandFails PROVE TypeOK'
    <2>1. call # "none"
        BY <1>6 DEF CommandFails, TypeOK
    <2>2. disturbed' \in BOOLEAN
        BY <1>6 DEF CommandFails, TypeOK
    <2> QED
        BY <1>4, <1>6, <2>1, <2>2 DEF CommandFails
<1> DEFINE Rest == /\ UNCHANGED <<host, target, Calling>> /\ call # "none"
                   /\ todo' \in Seq(Parts) /\ doing' \in Seq(Commands) /\ disturbed' \in BOOLEAN
                   /\ here' \subseteq Objects /\ twice' \subseteq here'
<1>7. Rest => TypeOK'
    BY DEF TypeOK, host, Calling
<1>8. ASSUME Enter \/ Probe PROVE Rest
    <2>1. todo # <<>> /\ call # "none"
        BY <1>8 DEF Enter, Probe, TypeOK
    <2>2. Head(todo).run \in Seq(Commands) /\ Tail(todo) \in Seq(Parts)
        <3>1. todo \in Seq(Parts)
            BY DEF TypeOK
        <3>2. Head(todo) \in Parts /\ Tail(todo) \in Seq(Parts)
            BY <2>1, <3>1, Unfold
        <3> QED
            BY <3>2 DEF Parts
    <2>3. todo' = Tail(todo) /\ doing' \in {Head(todo).run, <<>>} /\ UNCHANGED <<host, here, twice, target, Calling>>
          /\ disturbed' \in BOOLEAN
        BY <1>8 DEF Enter, Probe, TypeOK
    <2> QED
        BY <1>0, <2>1, <2>2, <2>3 DEF TypeOK
<1>9. ASSUME ListRules PROVE Rest
    BY <1>9, TaggedType DEF ListRules, Tagged, TypeOK
<1>10. ASSUME RunCommand PROVE Rest
    <2>1. doing # <<>> /\ call # "none"
        BY <1>10 DEF RunCommand, TypeOK
    <2>2. Head(doing) \in Commands /\ Tail(doing) \in Seq(Commands)
        BY <2>1, Unfold DEF TypeOK
    <2> QED
        BY <1>10, <2>1, <2>2, ObeyType DEF RunCommand, TypeOK
<1>11. UNCHANGED vars => TypeOK'
    BY DEF vars, host, TypeOK
<1> QED
    BY <1>1, <1>2, <1>3, <1>5, <1>6, <1>7, <1>8, <1>9, <1>10, <1>11 DEF Next

-----------------------------------------------------------------------------
(* Init and Block.                                                         *)

Growing == IptInit /\ NftIniting /\ OtherInit /\ Blocking

\* Init and Block only add.
LEMMA OnlyAdds ==
    ASSUME TypeOK, Growing, call \in {"init", "block"}, doing # <<>>
    PROVE  Head(doing).do \in {"add", "query"}
<1>0. backend \in {"nft", "ipset", "iptables-nft", "ufw", "pf"}
    BY BackendAssumption DEF BackendAssumption, TypeOK
<1> USE DEF Add, Query
<1>1. CASE call = "block"
    BY <1>1 DEF Growing, Blocking, BlockCommand
<1>2. CASE call = "init" /\ IsIptables
    BY <1>2 DEF Growing, IptInit
<1>3. CASE call = "init" /\ backend = "nft"
    <2>1. doing \in Seq({Add({o}) : o \in NftMade})
        BY <1>3 DEF Growing, NftIniting
    <2> QED
        BY <2>1, Unfold
<1>4. CASE call = "init" /\ backend = "pf"
    BY <1>4 DEF Growing, OtherInit
<1>5. CASE call = "init" /\ backend = "ufw"
    BY <1>5 DEF Growing, OtherInit
<1> QED
    BY <1>0, <1>1, <1>2, <1>3, <1>4, <1>5 DEF IsIptables

LEMMA Grows ==
    ASSUME TypeOK, Growing, call \in {"init", "block"}, RunCommand
    PROVE  here \subseteq here'
<1>1. doing # <<>> /\ Obey(Head(doing))
    BY DEF RunCommand
<1> QED
    BY <1>1, OnlyAdds DEF Obey

LEMMA ListsInFlush == ASSUME TypeOK, Growing, ListRules PROVE call = "flush"
<1>1. doing # <<>> /\ Head(doing).do = "list"
    BY DEF ListRules, ListTagged
<1> QED
    BY <1>1, OnlyAdds DEF TypeOK

\* What the steps within a call leave alone, and that a call returns.
Within == Enter \/ Probe \/ ListRules \/ RunCommand
Returning == ReturnNil \/ CommandFails
LEMMA Kept ==
    /\ Within => UNCHANGED <<host, target, call, last, initialized, armed, dropped>>
    /\ Enter \/ Probe \/ ListRules \/ Returning => UNCHANGED <<host, here, twice, target>>
    /\ Returning => call' = "none" /\ todo' = <<>> /\ doing' = <<>>
    /\ BeginInit \/ (\E a \in Addrs : BeginBlock(a)) \/ BeginFlush =>
           UNCHANGED <<host, here, twice, doing, last, initialized>> /\ call = "none"
    BY DEF Within, Returning, Enter, Probe, ListRules, RunCommand, ReturnNil, CommandFails, Return,
           BeginInit, BeginBlock, BeginFlush, Begin, Calling

LEMMA PromiseStep ==
    ASSUME TypeOK, Growing, Promise, [Next]_vars
    PROVE  Promise'
<1> USE DEF Promise
<1>0. backend' = backend /\ Required' = Required
    BY Kept DEF Next, Within, Returning, vars, host, Required
<1>1. ASSUME BeginInit \/ (\E a \in Addrs : BeginBlock(a)) \/ BeginFlush PROVE Promise'
    <2>1. here' = here
        BY <1>1, Kept
    <2>2. CASE BeginFlush
        BY <2>2 DEF BeginFlush
    <2>3. CASE BeginInit \/ (\E a \in Addrs : BeginBlock(a))
        <3>1. UNCHANGED <<armed, dropped>> /\ call' # "flush"
            BY <2>3 DEF BeginInit, BeginBlock, Begin
        <3> QED
            BY <1>0, <2>1, <3>1
    <2> QED
        BY <1>1, <2>2, <2>3
<1>2. ASSUME ReturnNil PROVE Promise'
    <2>1. /\ todo = <<>> /\ doing = <<>> /\ here' = here /\ call' = "none"
          /\ armed' = (armed \/ call = "init")
          /\ dropped' = IF call = "block" /\ armed THEN dropped \cup {target} ELSE dropped
        BY <1>2 DEF ReturnNil, Return
    <2>2. call = "init" => Required \subseteq here
        <3>1. call = "init" /\ IsIptables => Required \subseteq here
            BY <2>1 DEF Growing, IptInit
        <3> QED
            BY <3>1 DEF Required, IsIptables
    <2>3. call = "block" => Blocked(target) \in here
        <3>1. BlockParts(target) # <<>>
            BY DEF BlockParts
        <3> QED
            BY <2>1, <3>1 DEF Growing, Blocking
    <2> QED
        BY <1>0, <2>1, <2>2, <2>3
<1>3. ASSUME CommandFails PROVE Promise'
    BY <1>0, <1>3 DEF CommandFails, Return
<1>4. ASSUME Enter \/ Probe \/ ListRules PROVE Promise'
    BY <1>0, <1>4, Kept DEF Within
<1>5. ASSUME RunCommand PROVE Promise'
    <2>1. UNCHANGED <<call, armed, dropped>> /\ doing # <<>>
        BY <1>5 DEF RunCommand, Calling
    <2>2. armed => call \in {"init", "block"}
        BY <2>1 DEF TypeOK
    <2>3. armed => here \subseteq here'
        BY <1>5, <2>2, Grows
    <2> QED
        BY <1>0, <2>1, <2>3
<1>6. UNCHANGED vars => Promise'
    BY <1>0 DEF vars
<1> QED
    BY <1>1, <1>2, <1>3, <1>4, <1>5, <1>6 DEF Next

LEMMA BlockingStep ==
    ASSUME TypeOK, Growing, [Next]_vars
    PROVE  Blocking'
<1> USE DEF Blocking
<1>1. ASSUME NEW a \in Addrs, BeginBlock(a) PROVE Blocking'
    <2>1. /\ todo' = BlockParts(a) /\ target' = a /\ UNCHANGED <<backend, doing>> /\ call = "none"
        BY <1>1 DEF BeginBlock, Begin, host
    <2>2. BlockParts(a)' = BlockParts(a)
        BY <2>1 DEF BlockParts
    <2>3. doing' = <<>>
        BY <2>1 DEF TypeOK
    <2> QED
        BY <2>1, <2>2, <2>3 DEF BlockParts
<1>2. BeginInit \/ BeginFlush \/ Returning => Blocking'
    BY Kept DEF BeginInit, BeginFlush, Begin
<1>3. ASSUME Within, call = "block" PROVE Blocking'
    <2>0. UNCHANGED <<backend, blind, target>>
        BY <1>3, Kept DEF host
    <2>1. CASE todo = BlockParts(target) /\ doing = <<>>
        <3>1. Enter \/ Probe
            BY <1>3, <2>1 DEF Within, ListRules, RunCommand
        <3>2. todo' = <<>> /\ here' = here
            BY <2>1, <3>1 DEF Enter, Probe, BlockParts
        <3>3. CASE backend = "iptables-nft"
            <4>1. /\ Head(todo).when = "missing" /\ Head(todo).probed = {Blocked(target)}
                  /\ Head(todo).run = <<BlockCommand(target)>>
                BY <2>1, <3>3 DEF BlockParts, BlockCommand, IfMissing
            <4>2. Probe
                BY <3>1, <4>1 DEF Enter
            <4>3. PICK found \in BOOLEAN :
                     /\ found => Blocked(target) \in here
                     /\ ~found /\ ~blind => Blocked(target) \notin here
                     /\ doing' = IF found THEN <<>> ELSE <<BlockCommand(target)>>
                BY <4>1, <4>2 DEF Probe
            <4> QED
                BY <2>0, <3>2, <3>3, <4>3 DEF BlockCommand
        <3>4. CASE backend # "iptables-nft"
            <4>1. Head(todo).when = "always" /\ Head(todo).run = <<BlockCommand(target)>>
                BY <2>1, <3>4 DEF BlockParts, BlockCommand, Always
            <4>2. doing' = <<BlockCommand(target)>>
                BY <3>1, <4>1 DEF Enter, Probe
            <4> QED
                BY <2>0, <3>2, <3>4, <4>2 DEF BlockCommand
        <3> QED
            BY <3>3, <3>4
    <2>2. CASE todo = <<>> /\ doing = <<BlockCommand(target)>>
        <3>1. Head(doing) = BlockCommand(target) /\ Tail(doing) = <<>> /\ doing # <<>>
            BY <2>2
        <3>2. BlockCommand(target).do = "add" /\ Blocked(target) \in BlockCommand(target).on
            BY DEF BlockCommand, Add
        <3>3. RunCommand
            BY <1>3, <3>1, <3>2, <2>2 DEF Within, Enter, Probe, ListRules, ListTagged
        <3>4. doing' = <<>> /\ todo' = <<>> /\ Blocked(target) \in here'
            BY <2>2, <3>1, <3>2, <3>3 DEF RunCommand, Obey
        <3> QED
            BY <2>0, <3>4
    <2>3. CASE todo = <<>> /\ doing = <<>>
        BY <1>3, <2>3 DEF Within, Enter, Probe, ListRules, RunCommand
    <2> QED
        BY <1>3, <2>1, <2>2, <2>3 DEF Growing
<1>4. ASSUME Within, call # "block" PROVE Blocking'
    BY <1>4, Kept
<1>5. UNCHANGED vars => Blocking'
    BY DEF vars, host, Growing, BlockParts, BlockCommand
<1> QED
    BY <1>1, <1>2, <1>3, <1>4, <1>5 DEF Next, Within, Returning

LEMMA NeedsRequired ==
    ASSUME IsIptables, NEW o \in Required
    PROVE  Needs(o) \subseteq Required /\ o \notin Needs(o)
<1>1. CASE backend = "ipset"
    BY <1>1, IptNeeds, Different DEF Required, Sets, Chains, Drop2, Jumps
<1>2. CASE backend = "iptables-nft"
    BY <1>2, IptNeeds, Different DEF Required, Chains, Jumps
<1> QED
    BY <1>1, <1>2 DEF IsIptables

LEMMA OneCommand ==
    /\ \A o, p : <<Add({o})>> = <<Add({p})>> => o = p
    /\ \A o : Make(o).when = "missing" /\ Make(o).probed = {o} /\ Make(o).run = <<Add({o})>>
    /\ \A o, p : Make(o) = Make(p) => o = p
<1>1. \A o : Add({o}).on = {o}
    BY DEF Add
<1>2. \A o, p : <<Add({o})>> = <<Add({p})>> => o = p
    <2>1. \A o : <<Add({o})>>[1] = Add({o})
        OBVIOUS
    <2> QED
        BY <1>1, <2>1
<1>3. \A o : Make(o).when = "missing" /\ Make(o).probed = {o} /\ Make(o).run = <<Add({o})>>
    BY DEF Make, IfMissing
<1>4. \A o, p : {o} = {p} => o = p
    OBVIOUS
<1>5. \A o, p : Make(o) = Make(p) => o = p
    BY <1>3, <1>4
<1> HIDE DEF Make
<1> QED
    BY <1>2, <1>3, <1>5

LEMMA OrderOfTail ==
    ASSUME NEW S, NEW s \in Seq(S), s # <<>>
    PROVE  /\ MadeInOrder(s) => MadeInOrder(Tail(s))
           /\ RemovedInOrder(s) => RemovedInOrder(Tail(s))
<1>1. /\ DOMAIN s = 1..Len(s) /\ Len(s) \in Nat \ {0} /\ DOMAIN Tail(s) = 1..(Len(s) - 1)
      /\ \A i \in DOMAIN Tail(s) : i + 1 \in DOMAIN s /\ Tail(s)[i] = s[i + 1]
    BY Unfold
<1>2. ASSUME NEW i \in DOMAIN Tail(s), NEW j \in DOMAIN Tail(s), i < j
      PROVE  i + 1 \in DOMAIN s /\ j + 1 \in DOMAIN s /\ i + 1 < j + 1 /\ Tail(s)[i] = s[i + 1] /\ Tail(s)[j] = s[j + 1]
    BY <1>1, <1>2
<1>3. MadeInOrder(s) => MadeInOrder(Tail(s))
    BY <1>2 DEF MadeInOrder
<1>4. RemovedInOrder(s) => RemovedInOrder(Tail(s))
    BY <1>2 DEF RemovedInOrder
<1> QED
    BY <1>3, <1>4

LEMMA IptInitStep ==
    ASSUME TypeOK, Growing, [Next]_vars
    PROVE  IptInit'
<1> USE DEF IptInit
<1>1. ASSUME BeginInit, IsIptables PROVE IptInit'
    <2>1. /\ todo' = InitParts /\ doing' = doing /\ call = "none" /\ UNCHANGED <<backend, blind, here>>
        BY <1>1 DEF BeginInit, Begin, host
    <2>2. doing' = <<>>
        BY <2>1 DEF TypeOK
    <2>3. Required' = Required /\ MadeInOrder(todo)' = MadeInOrder(InitParts)
        BY <2>1 DEF Required, MadeInOrder, Needs
    <2>4. \A o : <<>> # <<Add({o})>>
        OBVIOUS
    <2> QED
        BY <1>1, <2>1, <2>2, <2>3, <2>4, InitPlan
<1>2. (\E a \in Addrs : BeginBlock(a)) \/ BeginFlush \/ Returning => IptInit'
    BY Kept DEF BeginBlock, BeginFlush, Begin
<1>3. ASSUME Within, call = "init", IsIptables PROVE IptInit'
    <2>0. UNCHANGED <<backend, blind>> /\ Required' = Required /\ IsIptables'
        BY <1>3, Kept DEF host, Required, IsIptables
    <2>1. /\ todo \in Seq({Make(o) : o \in Required})
          /\ doing \in {<<>>} \cup {<<Add({o})>> : o \in Required}
          /\ MadeInOrder(todo)
        BY <1>3 DEF Growing
    <2>3. CASE doing = <<>>
        <3>1. todo # <<>> /\ (Enter \/ Probe) /\ todo' = Tail(todo) /\ here' = here
            BY <1>3, <2>3, Kept DEF Within, Enter, Probe, ListRules, RunCommand
        <3>2. PICK o \in Required : Head(todo) = Make(o)
            BY <2>1, <3>1, Unfold
        <3>3. Probe
            BY <3>1, <3>2, OneCommand DEF Enter
        <3>4. PICK found \in BOOLEAN :
                 /\ found => o \in here
                 /\ ~found /\ ~blind => o \notin here
                 /\ doing' = IF found THEN <<>> ELSE <<Add({o})>>
            BY <3>2, <3>3, OneCommand DEF Probe
        <3>5. /\ Tail(todo) \in Seq({Make(p) : p \in Required}) /\ MadeInOrder(Tail(todo))
              /\ \A i \in DOMAIN todo : i # 1 => \E j \in DOMAIN Tail(todo) : Tail(todo)[j] = todo[i]
            BY <2>1, <3>1, Unfold, OrderOfTail
        <3>6. MadeInOrder(todo)'
            BY <2>0, <3>1, <3>5 DEF MadeInOrder, Needs
        <3>7. ASSUME NEW p \in Required
              PROVE  p \in here' \/ doing' = <<Add({p})>> \/ \E j \in DOMAIN todo' : todo'[j] = Make(p)
            <4>1. p \in here \/ \E i \in DOMAIN todo : todo[i] = Make(p)
                BY <1>3, <2>3, OneCommand DEF Growing
            <4>2. CASE p = o
                BY <3>1, <3>4, <4>2
            <4>3. CASE p # o
                <5>1. todo[1] # Make(p)
                    BY <2>1, <3>1, <3>2, <4>3, Unfold, OneCommand
                <5> QED
                    BY <3>1, <3>5, <4>1, <5>1
            <4> QED
                BY <4>2, <4>3
        <3>8. ASSUME ~blind, NEW p \in Required, doing' = <<Add({p})>>
              PROVE  p \notin here' /\ Needs(p)' \subseteq here'
            <4>1. ~found /\ p = o /\ o \notin here
                <5>1. <<>> # <<Add({p})>>
                    OBVIOUS
                <5>2. ~found /\ <<Add({o})>> = <<Add({p})>>
                    BY <3>4, <3>8, <5>1
                <5>3. p = o
                    BY <5>2, OneCommand
                <5> QED
                    BY <3>4, <3>8, <5>2, <5>3
            <4>2. ASSUME NEW n \in Needs(o), n \notin here PROVE FALSE
                <5>1. n \in Required /\ n # o
                    BY <1>3, NeedsRequired
                <5>2. PICK i \in DOMAIN todo : todo[i] = Make(n)
                    BY <1>3, <2>3, <4>2, <5>1, OneCommand DEF Growing
                <5>3. i # 1 /\ 1 \in DOMAIN todo /\ todo[1] = Make(o) /\ DOMAIN todo = 1..Len(todo)
                    BY <2>1, <3>1, <3>2, <5>1, <5>2, Unfold, OneCommand
                <5>4. 1 < i
                    BY <5>3
                <5> QED
                    BY <2>1, <5>2, <5>3, <5>4, OneCommand DEF MadeInOrder
            <4>3. Needs(o)' = Needs(o)
                BY <2>0 DEF Needs
            <4> QED
                BY <3>1, <4>1, <4>2, <4>3
        <3>9. doing' \in {<<>>} \cup {<<Add({p})>> : p \in Required}
            BY <3>4
        <3> QED
            BY <2>0, <3>1, <3>5, <3>6, <3>7, <3>8, <3>9
    <2>4. CASE doing # <<>>
        <3>1. PICK o \in Required : doing = <<Add({o})>>
            BY <2>1, <2>4
        <3>2. Head(doing) = Add({o}) /\ Tail(doing) = <<>>
            BY <3>1
        <3>3. Add({o}).do = "add" /\ Add({o}).on = {o} /\ ListTagged.do = "list"
            BY DEF Add, ListTagged
        <3>4. RunCommand
            BY <1>3, <2>4, <3>2, <3>3 DEF Within, Enter, Probe, ListRules
        <3>5. doing' = <<>> /\ todo' = todo /\ here' = here \cup {o}
            BY <3>2, <3>3, <3>4 DEF RunCommand, Obey
        <3>6. MadeInOrder(todo)'
            BY <2>0, <2>1, <3>5 DEF MadeInOrder, Needs
        <3>7. \A p \in Required : p \in here' \/ \E j \in DOMAIN todo' : todo'[j] = Make(p)
            BY <1>3, <3>1, <3>5, OneCommand DEF Growing
        <3>8. \A p : doing' # <<Add({p})>>
            BY <3>5
        <3> QED
            BY <2>0, <2>1, <3>5, <3>6, <3>7, <3>8
    <2> QED
        BY <2>3, <2>4
<1>4. ASSUME Within, ~(call = "init" /\ IsIptables) PROVE IptInit'
    BY <1>4, Kept DEF host, IsIptables
<1>5. ASSUME BeginInit, ~IsIptables PROVE IptInit'
    BY <1>5, Kept DEF host, IsIptables
<1>6. ASSUME UNCHANGED vars PROVE IptInit'
    <2>1. UNCHANGED <<backend, blind, call, todo, doing, here>>
        BY <1>6 DEF vars, host
    <2> QED
        BY <2>1 DEF Growing, Required, IsIptables, MadeInOrder, Needs
<1> QED
    BY <1>1, <1>2, <1>3, <1>4, <1>5, <1>6 DEF Next, Within, Returning

LEMMA NftNeeds ==
    ASSUME backend = "nft"
    PROVE  /\ Needs(Table) = {} /\ Needs(Chain("all")) = {Table}
           /\ \A f : Needs(Set(f)) = {Table} /\ Needs(Drop(f)) = {Chain("all"), Set(f)}
           /\ \A a : Needs(Blocked(a)) = {Set(Family(a))}
    BY Kinds DEF Needs

NftCommands == <<Add({Table}), Add({Set("ip4")}), Add({Set("ip6")}), Add({Chain("all")}),
                 Add({Drop("ip4")}), Add({Drop("ip6")})>>

LEMMA NftPlan ==
    ASSUME backend = "nft"
    PROVE  /\ NftInit = <<IfMissing(Table, NftCommands)>>
           /\ NftCommands \in Seq({Add({o}) : o \in NftMade})
           /\ \A i \in DOMAIN NftCommands : \A o \in NftCommands[i].on : \A n \in Needs(o) :
                  \E j \in 1..(i - 1) : n \in NftCommands[j].on
<1>1. NftInit = <<IfMissing(Table, NftCommands)>>
    BY DEF NftInit, NftCommands
<1>2. NftCommands \in Seq({Add({o}) : o \in NftMade})
    BY DEF NftCommands, NftMade, Sets, Drop2
<1>3. DOMAIN NftCommands = 1..6
    BY DEF NftCommands
<1>4. /\ NftCommands[1].on = {Table} /\ NftCommands[2].on = {Set("ip4")} /\ NftCommands[3].on = {Set("ip6")}
      /\ NftCommands[4].on = {Chain("all")} /\ NftCommands[5].on = {Drop("ip4")} /\ NftCommands[6].on = {Drop("ip6")}
    BY DEF NftCommands, Add
<1>5. ASSUME NEW i \in 1..6, NEW o \in NftCommands[i].on, NEW n \in Needs(o)
      PROVE  \E j \in 1..(i - 1) : n \in NftCommands[j].on
    <2>1. CASE i = 1
        BY <1>4, <1>5, <2>1, NftNeeds
    <2>2. CASE i \in {2, 3, 4}
        <3>1. n \in NftCommands[1].on /\ 1 \in 1..(i - 1)
            BY <1>4, <1>5, <2>2, NftNeeds
        <3> QED
            BY <3>1
    <2>3. CASE i = 5
        <3>1. 4 \in 1..(i - 1) /\ 2 \in 1..(i - 1) /\ n \in {Chain("all"), Set("ip4")}
            BY <1>4, <1>5, <2>3, NftNeeds
        <3> QED
            BY <1>4, <3>1
    <2>4. CASE i = 6
        <3>1. 4 \in 1..(i - 1) /\ 3 \in 1..(i - 1) /\ n \in {Chain("all"), Set("ip6")}
            BY <1>4, <1>5, <2>4, NftNeeds
        <3> QED
            BY <1>4, <3>1
    <2> QED
        BY <2>1, <2>2, <2>3, <2>4
<1> QED
    BY <1>1, <1>2, <1>3, <1>5

LEMMA NftInitingStep ==
    ASSUME TypeOK, Growing, [Next]_vars
    PROVE  NftIniting'
<1> USE DEF NftIniting
<1>1. ASSUME BeginInit PROVE NftIniting'
    BY <1>1 DEF BeginInit, Begin, host, InitParts, TypeOK
<1>2. (\E a \in Addrs : BeginBlock(a)) \/ BeginFlush \/ Returning => NftIniting'
    BY Kept DEF BeginBlock, BeginFlush, Begin
<1>3. ASSUME Within, call = "init", backend = "nft" PROVE NftIniting'
    <2>0. backend' = backend /\ \A o : Needs(o)' = Needs(o)
        BY <1>3, Kept DEF host, Needs
    <2>1. CASE todo = NftInit /\ doing = <<>>
        <3>1. Enter \/ Probe
            BY <1>3, <2>1 DEF Within, ListRules, RunCommand
        <3>2. Head(todo) = IfMissing(Table, NftCommands) /\ Tail(todo) = <<>>
            <4> DEFINE part == IfMissing(Table, NftCommands)
            <4>1. todo = <<part>>
                BY <1>3, <2>1, NftPlan
            <4> HIDE DEF part
            <4>2. Head(todo) = part /\ Tail(todo) = <<>>
                BY <4>1
            <4> QED
                BY <4>2 DEF part
        <3>3. todo' = <<>> /\ here' = here /\ doing' \in {<<>>, NftCommands}
            BY <3>1, <3>2 DEF Enter, Probe, IfMissing
        <3>4. CASE doing' = <<>>
            BY <2>0, <3>3, <3>4
        <3>5. CASE doing' = NftCommands
            BY <1>3, <2>0, <3>3, <3>5, NftPlan
        <3> QED
            BY <3>3, <3>4, <3>5
    <2>2. CASE /\ todo = <<>> /\ doing \in Seq({Add({o}) : o \in NftMade})
               /\ \A i \in DOMAIN doing : \A o \in doing[i].on : \A n \in Needs(o) :
                      n \in here \/ \E j \in 1..(i - 1) : n \in doing[j].on
        <3>1. doing # <<>> /\ call \in {"init", "block"}
            BY <1>3, <2>2 DEF Within, Enter, Probe, ListRules, RunCommand
        <3>2. RunCommand
            BY <1>3, <2>2, <3>1, ListsInFlush DEF Within, Enter, Probe
        <3>3. PICK o \in NftMade : doing[1] = Add({o}) /\ Head(doing) = Add({o})
            <4> DEFINE Adds == {Add({p}) : p \in NftMade}
            <4>1. doing \in Seq(Adds)
                BY <2>2
            <4> HIDE DEF Adds
            <4>2. Head(doing) \in Adds /\ Head(doing) = doing[1]
                BY <3>1, <4>1, Unfold
            <4>3. \E p \in NftMade : Head(doing) = Add({p})
                BY <4>2 DEF Adds
            <4> QED
                BY <4>2, <4>3
        <3>4. doing' = Tail(doing) /\ todo' = <<>> /\ here' = here \cup {o}
            BY <2>2, <3>2, <3>3 DEF RunCommand, Obey, Add
        <3>5. /\ Tail(doing) \in Seq({Add({p}) : p \in NftMade})
              /\ DOMAIN doing = 1..Len(doing) /\ Len(doing) \in Nat \ {0} /\ DOMAIN Tail(doing) = 1..(Len(doing) - 1)
              /\ \A i \in DOMAIN Tail(doing) : i + 1 \in DOMAIN doing /\ Tail(doing)[i] = doing[i + 1]
            BY <2>2, <3>1, Unfold
        <3>6. ASSUME NEW i \in DOMAIN Tail(doing), NEW p \in Tail(doing)[i].on, NEW n \in Needs(p), n \notin here'
              PROVE  \E j \in 1..(i - 1) : n \in Tail(doing)[j].on
            <4>1. i + 1 \in DOMAIN doing /\ p \in doing[i + 1].on /\ n \notin here /\ n # o
                BY <3>4, <3>5, <3>6
            <4>2. PICK j \in 1..((i + 1) - 1) : n \in doing[j].on
                BY <2>2, <4>1
            <4>3. j # 1
                BY <3>3, <4>1, <4>2 DEF Add
            <4>4. j - 1 \in 1..(i - 1) /\ j - 1 \in DOMAIN Tail(doing) /\ (j - 1) + 1 = j
                BY <3>5, <4>2, <4>3
            <4>5. Tail(doing)[j - 1] = doing[j]
                BY <3>5, <4>4
            <4> QED
                BY <4>2, <4>4, <4>5
        <3> QED
            BY <2>0, <3>4, <3>5, <3>6
    <2> QED
        BY <1>3, <2>1, <2>2 DEF Growing
<1>4. ASSUME Within, ~(call = "init" /\ backend = "nft") PROVE NftIniting'
    BY <1>4, Kept DEF host
<1>5. ASSUME UNCHANGED vars PROVE NftIniting'
    BY <1>5 DEF vars, host, Growing, Needs
<1> QED
    BY <1>1, <1>2, <1>3, <1>4, <1>5 DEF Next, Within, Returning

LEMMA OtherInitStep ==
    ASSUME TypeOK, Growing, [Next]_vars
    PROVE  OtherInit'
<1> USE DEF OtherInit
<1> DEFINE PfParts == {Always(<<Query>>), PfPart2, PfPart3}
           PfCommands == {<<>>, <<Query>>, <<Add({Enabled})>>, <<Add({Table, Drop("all")})>>}
<1>0. <<Query>> \in PfCommands /\ \A p \in PfParts : p.run \in PfCommands
    BY DEF PfPart2, PfPart3, Always, IfMissing
<1>1. ASSUME BeginInit PROVE OtherInit'
    <2>1. todo' = InitParts /\ doing' = <<>> /\ backend' = backend
        BY <1>1 DEF BeginInit, Begin, host, TypeOK
    <2>2. backend = "pf" => InitParts \in Seq(PfParts)
        BY DEF InitParts, PfInit, PfPart2, PfPart3
    <2>3. backend = "ufw" => InitParts = <<>>
        BY DEF InitParts
    <2> QED
        BY <2>1, <2>2, <2>3
<1>2. (\E a \in Addrs : BeginBlock(a)) \/ BeginFlush \/ Returning => OtherInit'
    BY Kept DEF BeginBlock, BeginFlush, Begin
<1>3. ASSUME Within, call = "init" PROVE OtherInit'
    <2>0. UNCHANGED <<backend, call>>
        BY <1>3, Kept DEF host
    <2>1. backend # "ufw"
        BY <1>3 DEF Growing, Within, Enter, Probe, ListRules, RunCommand
    <2>2. ASSUME backend = "pf" PROVE todo' \in Seq(PfParts) /\ doing' \in PfCommands
        <3>1. todo \in Seq(PfParts) /\ doing \in PfCommands
            BY <1>3, <2>2 DEF Growing
        <3>2. CASE Enter \/ Probe
            <4>1. todo # <<>> /\ todo' = Tail(todo) /\ doing' \in {<<>>, Head(todo).run}
                BY <3>2 DEF Enter, Probe
            <4>2. Head(todo) \in PfParts /\ Tail(todo) \in Seq(PfParts)
                BY <3>1, <4>1, Unfold
            <4>3. Head(todo).run \in PfCommands
                BY <1>0, <4>2
            <4> QED
                BY <4>1, <4>2, <4>3
        <3>3. CASE RunCommand
            <4>1. todo' = todo /\ doing' = Tail(doing) /\ doing # <<>>
                BY <3>3 DEF RunCommand
            <4>2. Tail(doing) = <<>>
                BY <3>1, <4>1
            <4> QED
                BY <3>1, <4>1, <4>2
        <3>4. ~ListRules
            BY <1>3, ListsInFlush
        <3> QED
            BY <1>3, <3>2, <3>3, <3>4 DEF Within
    <2> QED
        BY <2>0, <2>1, <2>2
<1>4. ASSUME Within, call # "init" PROVE OtherInit'
    BY <1>4, Kept
<1>5. ASSUME UNCHANGED vars PROVE OtherInit'
    BY <1>5 DEF vars, host, Growing
<1> QED
    BY <1>1, <1>2, <1>3, <1>4, <1>5 DEF Next, Within, Returning
LEMMA GrowingInit == Init => TypeOK /\ Growing /\ Promise
<1> SUFFICES ASSUME Init PROVE TypeOK /\ Growing /\ Promise
    OBVIOUS
<1>1. /\ call = "none" /\ todo = <<>> /\ doing = <<>> /\ armed = FALSE /\ dropped = {}
      /\ here \subseteq {Enabled} /\ twice = {}
    BY DEF Init
<1>2. TypeOK
    <2>1. <<>> \in Seq(Parts) /\ <<>> \in Seq(Commands)
        OBVIOUS
    <2>2. <<"none", "ok">> \in {"none", "init", "block", "flush"} \X {"ok", "error"}
        OBVIOUS
    <2>3. here \subseteq Objects /\ twice \subseteq here
        BY <1>1, AreObjects
    <2> QED
        BY <1>1, <2>1, <2>2, <2>3 DEF Init, TypeOK
<1>3. Growing /\ Promise
    BY <1>1 DEF Growing, IptInit, NftIniting, OtherInit, Blocking, Promise
<1> QED
    BY <1>2, <1>3

LEMMA GrowingStep == TypeOK /\ Growing /\ Promise /\ [Next]_vars => TypeOK' /\ Growing' /\ Promise'
<1> SUFFICES ASSUME TypeOK, Growing, Promise, [Next]_vars PROVE TypeOK' /\ Growing' /\ Promise'
    OBVIOUS
<1>1. TypeOK' /\ Promise'
    BY TypeStep, PromiseStep
<1>2. IptInit' /\ NftIniting' /\ OtherInit' /\ Blocking'
    BY IptInitStep, NftInitingStep, OtherInitStep, BlockingStep
<1> QED
    BY <1>1, <1>2 DEF Growing

LEMMA PromiseKept == TypeOK /\ Promise => ProbedBlockDrops
<1> SUFFICES ASSUME TypeOK, Promise, backend \in {"ipset", "iptables-nft", "ufw"}, armed, NEW a \in dropped
             PROVE  Path(a) \subseteq here
    BY DEF ProbedBlockDrops, BlockDrops, Drops
<1>1. Required \subseteq here /\ Blocked(a) \in here /\ Family(a) \in {"ip4", "ip6"}
    BY DEF Promise, Family
<1>2. \A f \in {"ip4", "ip6"} : Set(f) \in Sets /\ Chain(f) \in Chains /\ Drop(f) \in Drop2 /\ Jump(f) \in Jumps
    BY DEF Sets, Chains, Drop2, Jumps
<1>3. CASE backend = "ipset"
    BY <1>1, <1>2, <1>3 DEF Path, Required
<1>4. CASE backend = "iptables-nft"
    BY <1>1, <1>2, <1>4 DEF Path, Required
<1>5. CASE backend = "ufw"
    BY <1>1, <1>5 DEF Path
<1> QED
    BY <1>3, <1>4, <1>5

\* Where a backend probes for each object, an address whose Block returned nil
\* after an Init that returned nil, with no Flush begun since, is dropped
\* whenever no call is under way: whatever calls failed half way before, and
\* also on a host where probes fail although the object is there.
THEOREM BlockedIsDropped == Spec => []ProbedBlockDrops
<1> DEFINE J == TypeOK /\ Growing /\ Promise
<1>1. Init => J
    BY GrowingInit
<1>2. J /\ [Next]_vars => J'
    BY GrowingStep
<1>3. J => ProbedBlockDrops
    BY PromiseKept
<1> QED
    BY <1>1, <1>2, <1>3, PTL DEF Spec

-----------------------------------------------------------------------------
(* Commands and probes where probes do not fail.                           *)

LEMMA CommandFields ==
    /\ \A os : Add(os).do = "add" /\ Add(os).on = os
    /\ \A o : Delete(o).do = "delete" /\ Delete(o).on = {o}
    /\ \A o : Empty(o).do = "empty" /\ Empty(o).on = {o}
    /\ Query.do = "query" /\ ListTagged.do = "list"
    /\ \A o, p : Delete(o) = Delete(p) => o = p
    /\ \A o, p : Empty(o) = Empty(p) => o = p
    /\ \A o, p : Empty(o) # Delete(p) /\ Delete(o) # ListTagged
<1>1. \A o : Delete(o).do = "delete" /\ Delete(o).on = {o}
    BY DEF Delete
<1>2. \A o : Empty(o).do = "empty" /\ Empty(o).on = {o}
    BY DEF Empty
<1>3. \A o, p : {o} = {p} => o = p
    OBVIOUS
<1>4. /\ \A os : Add(os).do = "add" /\ Add(os).on = os
      /\ Query.do = "query" /\ ListTagged.do = "list"
    BY DEF Add, Query, ListTagged
<1>5. /\ \A o, p : Delete(o) = Delete(p) => o = p
      /\ \A o, p : Empty(o) = Empty(p) => o = p
    BY <1>1, <1>2, <1>3
<1>6. \A o, p : Empty(o) # Delete(p) /\ Delete(o) # ListTagged
    BY <1>1, <1>2, <1>4
<1> QED
    BY <1>1, <1>2, <1>4, <1>5, <1>6

LEMMA ClearingIs ==
    /\ \A o : Clear(o).when = "present" /\ Clear(o).probed = {o} /\ Clear(o).run = Clearing(o)
    /\ \A o, p : Clear(o) = Clear(p) => o = p
    /\ \A o : Clearing(o) # <<>> /\ <<Delete(o)>> # <<>>
    /\ \A o \in Chains : Head(Clearing(o)) = Empty(o) /\ Tail(Clearing(o)) = <<Delete(o)>>
    /\ \A o : o \notin Chains => Clearing(o) = <<Delete(o)>>
    /\ \A o : Head(<<Delete(o)>>) = Delete(o) /\ Tail(<<Delete(o)>>) = <<>>
    /\ \A o, p : Clearing(o) = Clearing(p) => o = p
    /\ \A o, p : Clearing(o) = <<Delete(p)>> => o = p /\ o \notin Chains
    /\ \A o, p : <<Delete(o)>> = <<Delete(p)>> => o = p
<1>1. \A o : Clear(o).when = "present" /\ Clear(o).probed = {o} /\ Clear(o).run = Clearing(o)
    BY DEF Clear, IfPresent
<1>2. \A o, p : Clear(o) = Clear(p) => o = p
    <2>1. \A o, p : {o} = {p} => o = p
        OBVIOUS
    <2> QED
        BY <1>1, <2>1
<1>3. \A o : o \notin Chains => Clearing(o) = <<Delete(o)>>
    BY DEF Clearing
<1>4. \A o \in Chains : Clearing(o) = <<Empty(o), Delete(o)>>
    BY DEF Clearing
<1>5. \A o : Head(<<Delete(o)>>) = Delete(o) /\ Tail(<<Delete(o)>>) = <<>> /\ <<Delete(o)>> # <<>>
    OBVIOUS
<1>6. \A o : /\ Head(<<Empty(o), Delete(o)>>) = Empty(o) /\ Tail(<<Empty(o), Delete(o)>>) = <<Delete(o)>>
             /\ <<Empty(o), Delete(o)>> # <<>>
    OBVIOUS
<1>7. \A o : Clearing(o) # <<>>
    BY <1>3, <1>4, <1>5, <1>6, Zenon
<1>8. \A o \in Chains : Head(Clearing(o)) = Empty(o) /\ Tail(Clearing(o)) = <<Delete(o)>>
    BY <1>4, <1>6, Zenon
<1>9. \A o, p : <<Delete(o)>> = <<Delete(p)>> => o = p
    <2>1. \A o, p : <<Delete(o)>> = <<Delete(p)>> => Delete(o) = Delete(p)
        BY <1>5, Zenon
    <2> QED
        BY <2>1, CommandFields, Zenon
<1>10. \A o, p : Clearing(o) = <<Delete(p)>> => o = p /\ o \notin Chains
    <2>1. ASSUME NEW o \in Chains, NEW p, Clearing(o) = <<Delete(p)>> PROVE FALSE
        <3>1. Head(Clearing(o)) = Empty(o) /\ Head(<<Delete(p)>>) = Delete(p)
            BY <1>5, <1>8, Zenon
        <3>2. Empty(o) = Delete(p)
            BY <2>1, <3>1, Zenon
        <3> QED
            BY <3>2, CommandFields, Zenon
    <2> QED
        BY <1>3, <1>9, <2>1, Zenon
<1>11. \A o, p : Clearing(o) = Clearing(p) => o = p
    <2>1. ASSUME NEW o \in Chains, NEW p \in Chains, Clearing(o) = Clearing(p) PROVE o = p
        <3>1. Head(Clearing(o)) = Empty(o) /\ Head(Clearing(p)) = Empty(p)
            BY <1>8, Zenon
        <3>2. Empty(o) = Empty(p)
            BY <2>1, <3>1, Zenon
        <3> QED
            BY <3>2, CommandFields, Zenon
    <2>2. ASSUME NEW o, NEW p, p \notin Chains PROVE Clearing(o) = Clearing(p) => o = p
        BY <1>3, <1>10, <2>2, Zenon
    <2>3. ASSUME NEW o, NEW p, o \notin Chains PROVE Clearing(o) = Clearing(p) => o = p
        BY <2>2, <2>3, Zenon
    <2> QED
        BY <2>1, <2>2, <2>3, Zenon
<1> QED
    BY <1>1, <1>2, <1>3, <1>5, <1>7, <1>8, <1>9, <1>10, <1>11, Zenon
Sound == Contained /\ IptFlush /\ OtherFlush /\ (call # "none" => ~disturbed)

LEMMA OnePart ==
    /\ \A x : Head(<<x>>) = x /\ Tail(<<x>>) = <<>>
    /\ \A c : Always(c).when = "always" /\ Always(c).run = c
    /\ \A o, c : IfMissing(o, c).when = "missing" /\ IfMissing(o, c).probed = {o} /\ IfMissing(o, c).run = c
    /\ \A o, c : IfPresent(o, c).when = "present" /\ IfPresent(o, c).probed = {o} /\ IfPresent(o, c).run = c
<1>1. \A x : Head(<<x>>) = x /\ Tail(<<x>>) = <<>>
    OBVIOUS
<1>2. /\ \A c : Always(c).when = "always" /\ Always(c).run = c
      /\ \A o, c : IfMissing(o, c).when = "missing" /\ IfMissing(o, c).probed = {o} /\ IfMissing(o, c).run = c
      /\ \A o, c : IfPresent(o, c).when = "present" /\ IfPresent(o, c).probed = {o} /\ IfPresent(o, c).run = c
    BY DEF Always, IfMissing, IfPresent
<1> QED
    BY <1>1, <1>2

\* Every probe asks for one object ...
LEMMA ProbesOne ==
    ASSUME TypeOK, Growing, IptFlush, OtherFlush, todo # <<>>, Head(todo).when # "always"
    PROVE  \E o : Head(todo).probed = {o}
<1>0. backend \in {"nft", "ipset", "iptables-nft", "ufw", "pf"} /\ call \in {"init", "block", "flush"}
    BY BackendAssumption DEF BackendAssumption, TypeOK
<1>1. CASE call = "init" /\ IsIptables
    <2>1. todo \in Seq({Make(o) : o \in Required})
        BY <1>1 DEF Growing, IptInit
    <2>2. \E o \in Required : Head(todo) = Make(o)
        BY <2>1, Unfold
    <2> QED
        BY <2>2, OneCommand
<1>2. CASE call = "init" /\ backend = "nft"
    <2>1. todo = <<IfMissing(Table, NftCommands)>>
        BY <1>2, NftPlan DEF Growing, NftIniting
    <2>2. Head(todo) = IfMissing(Table, NftCommands)
        BY <2>1, OnePart, Zenon
    <2>3. Head(todo).probed = {Table}
        BY <2>2 DEF IfMissing
    <2> QED
        BY <2>3
<1>3. CASE call = "init" /\ backend = "pf"
    <2>1. todo \in Seq({Always(<<Query>>), PfPart2, PfPart3})
        BY <1>3 DEF Growing, OtherInit
    <2>2. Head(todo) \in {Always(<<Query>>), PfPart2, PfPart3}
        BY <2>1, Unfold
    <2>3. Always(<<Query>>).when = "always" /\ PfPart2.probed = {Enabled} /\ PfPart3.probed = {Table}
        BY DEF Always, PfPart2, PfPart3, IfMissing
    <2> QED
        BY <2>2, <2>3
<1>4. CASE call = "init" /\ backend = "ufw"
    BY <1>4 DEF Growing, OtherInit
<1>5. CASE call = "block"
    <2>1. todo = BlockParts(target)
        BY <1>5 DEF Growing, Blocking
    <2>2. \/ \E c : Head(todo) = IfMissing(Blocked(target), c)
          \/ \E c : Head(todo) = Always(c)
        BY <2>1, OnePart DEF BlockParts
    <2>3. Head(todo).probed = {Blocked(target)} \/ Head(todo).when = "always"
        BY <2>2 DEF IfMissing, Always
    <2> QED
        BY <2>3
<1>6. CASE call = "flush" /\ IsIptables
    <2>1. todo \in Seq({Clear(o) : o \in Roots})
        BY <1>6 DEF IptFlush
    <2>2. \E o \in Roots : Head(todo) = Clear(o)
        BY <2>1, Unfold
    <2>3. \A o : Clear(o).probed = {o}
        BY ClearingIs
    <2> QED
        BY <2>2, <2>3
<1>7. CASE call = "flush" /\ ~IsIptables
    <2>1. todo \in {NftFlush, PfFlush, UfwFlush}
        BY <1>0, <1>7 DEF OtherFlush, IsIptables
    <2>2. Head(todo) = Head(NftFlush) \/ Head(todo) = Head(PfFlush) \/ Head(todo) = Head(UfwFlush)
        BY <2>1
    <2>3. /\ Head(NftFlush) = IfPresent(Table, <<Delete(Table)>>)
          /\ Head(PfFlush) = IfPresent(Table, <<Empty(Chain("all")), Delete(Table)>>)
          /\ Head(UfwFlush) = Always(<<ListTagged>>)
        BY OnePart, Zenon DEF NftFlush, PfFlush, UfwFlush
    <2>4. /\ Head(NftFlush).probed = {Table} /\ Head(PfFlush).probed = {Table}
          /\ Head(UfwFlush).when = "always"
        BY <2>3 DEF IfPresent, Always
    <2>5. Head(todo).probed = {Table} \/ Head(todo).when = "always"
        BY <2>2, <2>4
    <2> QED
        BY <2>5
<1> QED
    BY <1>0, <1>1, <1>2, <1>3, <1>4, <1>5, <1>6, <1>7 DEF IsIptables

\* ... and finds it exactly if it is there.
LEMMA ProbeIsExact ==
    ASSUME TypeOK, Growing, IptFlush, OtherFlush, ~blind, Probe
    PROVE  /\ disturbed' = disturbed
           /\ \A o : Head(todo).probed = {o} =>
                 doing' = IF (o \in here) = (Head(todo).when = "present") THEN Head(todo).run ELSE <<>>
<1>1. PICK o : Head(todo).probed = {o}
    BY ProbesOne DEF Probe
<1>2. PICK found \in BOOLEAN :
         /\ found => {o} \subseteq here
         /\ ~found => {o} \cap here = {}
         /\ doing' = IF found = (Head(todo).when = "present") THEN Head(todo).run ELSE <<>>
         /\ disturbed' = (disturbed \/ found # ({o} \subseteq here))
    BY <1>1 DEF Probe
<1>3. found = (o \in here) /\ found = ({o} \subseteq here)
    BY <1>2
<1>4. \A p : {p} = {o} => p = o
    OBVIOUS
<1>5. disturbed' = disturbed
    BY <1>2, <1>3 DEF TypeOK
<1>6. doing' = IF (o \in here) = (Head(todo).when = "present") THEN Head(todo).run ELSE <<>>
    BY <1>2, <1>3
<1> QED
    BY <1>1, <1>4, <1>5, <1>6

\* What the commands of the iptables backends remove.
LEMMA IptInside ==
    ASSUME IsIptables
    PROVE  /\ \A f : Inside(Jump(f)) = {} /\ Inside(Drop(f)) = {}
           /\ \A f : Inside(Set(f)) = Elements(f)
           /\ \A f : Inside(Chain(f)) = {Drop(f)} \cup (IF backend = "iptables-nft" THEN Elements(f) ELSE {})
           /\ \A f : HeldBy(Jump(f)) = {} /\ HeldBy(Set(f)) = {Drop(f)}
           /\ \A f : HeldBy(Chain(f)) = {Jump(f)} \cup Inside(Chain(f))
    BY Kinds DEF Inside, HeldBy, IsIptables

LEMMA ElementsAre ==
    /\ \A f : Elements(f) \subseteq AllBlocked
    /\ \A f : \A a \in Addrs : Family(a) = f => Blocked(a) \in Elements(f)
    /\ \A a : Family(a) \in Families
    /\ \A o \in AllBlocked : o \notin Sets \cup Chains \cup Drop2 \cup Jumps \cup {Table, Enabled, Drop("all")}
    /\ \A o \in AllBlocked : \E a \in Addrs : o = Blocked(a)
<1>1. /\ \A f : Elements(f) \subseteq AllBlocked
      /\ \A f : \A a \in Addrs : Family(a) = f => Blocked(a) \in Elements(f)
    BY DEF Elements, AllBlocked
<1>2. \A a : Family(a) \in Families
    BY DEF Family, Families
<1>3. \A o \in AllBlocked : o[1] = "blocked" /\ \E a \in Addrs : o = Blocked(a)
    BY Kinds DEF AllBlocked
<1>4. \A o \in Sets \cup Chains \cup Drop2 \cup Jumps \cup {Table, Enabled, Drop("all")} : o[1] # "blocked"
    BY Kinds DEF Sets, Chains, Drop2, Jumps
<1> QED
    BY <1>1, <1>2, <1>3, <1>4
LEMMA ContainedStep ==
    ASSUME TypeOK, Growing, ~blind, Contained, IptFlush, OtherFlush, [Next]_vars
    PROVE  Contained'
<1> USE DEF Contained
<1>0. /\ backend \in {"nft", "ipset", "iptables-nft", "ufw", "pf"} /\ twice = {} /\ here \subseteq Objects
      /\ call = "none" => doing = <<>>
      /\ call \in {"none", "init", "block", "flush"} /\ target \in Addrs
    BY BackendAssumption DEF BackendAssumption, TypeOK
<1>1. backend' = backend
    BY Kept DEF Next, Within, Returning, vars, host
<1>2. UNCHANGED <<here, twice>> => Contained'
    BY <1>1 DEF Ours
<1>3. ~RunCommand => Contained'
    <2>1. ~RunCommand => UNCHANGED <<here, twice>>
        BY Kept DEF Next, Within, Returning, vars
    <2> QED
        BY <1>2, <2>1
<1>4. ASSUME RunCommand PROVE Contained'
    <2>0. doing # <<>> /\ Accepts(Head(doing)) /\ Obey(Head(doing)) /\ call \in {"init", "block", "flush"}
        BY <1>0, <1>4 DEF RunCommand
    <2>1. CASE call = "init" /\ IsIptables
        <3>1. PICK o \in Required : doing = <<Add({o})>> /\ o \notin here /\ Needs(o) \subseteq here
            BY <2>0, <2>1 DEF Growing, IptInit
        <3>2. here' = here \cup {o} /\ twice' = {}
            BY <1>0, <2>0, <3>1, CommandFields DEF Obey
        <3>3. CASE backend = "ipset"
            <4>1. o \in Sets \cup Chains \cup Drop2 \cup Jumps
                BY <3>3 DEF Required
            <4>2. \A f : o = Drop(f) => Chain(f) \in here
                BY <2>1, <3>1, <3>3, IptNeeds
            <4>3. o \notin AllBlocked
                BY <4>1, ElementsAre
            <4> QED
                BY <1>1, <3>2, <3>3, <4>1, <4>2, <4>3 DEF AllBlocked
        <3>4. CASE backend = "iptables-nft"
            <4>1. o \in Chains \cup Jumps
                BY <3>4 DEF Required
            <4>2. o \notin AllBlocked
                BY <4>1, ElementsAre
            <4> QED
                BY <1>1, <3>2, <3>4, <4>1, <4>2 DEF AllBlocked
        <3> QED
            BY <2>1, <3>3, <3>4 DEF IsIptables
    <2>2. CASE call = "init" /\ backend = "nft"
        <3>1. doing \in Seq({Add({o}) : o \in NftMade})
            BY <2>0, <2>2 DEF Growing, NftIniting
        <3>2. Head(doing) \in {Add({o}) : o \in NftMade}
            BY <2>0, <3>1, Unfold
        <3>3. PICK o \in NftMade : Head(doing) = Add({o})
            BY <3>2
        <3>4. here' = here \cup {o} /\ twice' = {} /\ Needs(o) \subseteq here \cup {o}
            BY <1>0, <2>0, <2>2, <3>3, CommandFields DEF Obey, Accepts, IsIptables
        <3>5. o = Table \/ \E n \in Needs(o) : n # o
            <4>1. Table # Chain("all") /\ \A f : Table # Set(f) /\ Chain("all") # Drop(f)
                BY Kinds
            <4>2. o \in {Table, Chain("all")} \/ \E f \in Families : o = Set(f) \/ o = Drop(f)
                BY DEF NftMade, Sets, Drop2, Families
            <4> QED
                BY <2>2, <4>1, <4>2, NftNeeds
        <3> QED
            BY <1>1, <2>2, <3>4, <3>5
    <2>3. CASE call = "init" /\ backend = "pf"
        <3>1. doing \in {<<Query>>, <<Add({Enabled})>>, <<Add({Table, Drop("all")})>>}
            BY <2>0, <2>3 DEF Growing, OtherInit
        <3>2. Head(doing) \in {Query, Add({Enabled}), Add({Table, Drop("all")})}
            BY <3>1
        <3>3. here' \in {here, here \cup {Enabled}, here \cup {Table, Drop("all")}} /\ twice' = {}
            BY <1>0, <2>0, <2>3, <3>2, CommandFields DEF Obey, IsIptables
        <3> QED
            BY <1>1, <2>3, <3>3 DEF Ours
    <2>4. ~(call = "init" /\ backend = "ufw")
        BY <2>0 DEF Growing, OtherInit
    <2>5. CASE call = "block"
        <3>1. Head(doing) = BlockCommand(target)
            BY <2>0, <2>5, OnePart DEF Growing, Blocking
        <3>2. CASE backend = "pf"
            <4>1. here' = here \cup {Table, Blocked(target)} /\ twice' = {}
                BY <1>0, <2>0, <3>1, <3>2, CommandFields DEF Obey, IsIptables, BlockCommand
            <4> QED
                BY <1>0, <1>1, <3>2, <4>1 DEF Ours, AllBlocked
        <3>3. CASE backend # "pf"
            <4>1. here' = here \cup {Blocked(target)} /\ Needs(Blocked(target)) \subseteq here \cup {Blocked(target)}
                BY <2>0, <3>1, <3>3, CommandFields DEF Obey, Accepts, BlockCommand
            <4>2. twice' = {}
                <5>1. CASE backend = "iptables-nft"
                    <6>1. Blocked(target) \notin here
                        BY <2>0, <2>5, <5>1 DEF Growing, Blocking, BlockParts
                    <6> QED
                        BY <1>0, <2>0, <3>1, <3>3, <6>1, CommandFields DEF Obey, BlockCommand
                <5>2. CASE backend # "iptables-nft"
                    <6>1. ~IsRule(Blocked(target))
                        BY <5>2, Kinds DEF IsRule, Rules
                    <6> QED
                        BY <1>0, <2>0, <3>1, <3>3, <6>1, CommandFields DEF Obey, BlockCommand
                <5> QED
                    BY <5>1, <5>2
            <4>3. Blocked(target) \in AllBlocked /\ \A f : Blocked(target) # Drop(f)
                BY <1>0, Kinds DEF AllBlocked
            <4>4. \A a : Blocked(target) = Blocked(a) => target = a
                BY Kinds
            <4>5. \A f : Set(f) # Blocked(target) /\ Chain(f) # Blocked(target)
                BY Kinds
            <4>6. CASE backend = "nft"
                BY <1>1, <4>1, <4>2, <4>5, <4>6, NftNeeds
            <4>7. CASE backend = "ipset"
                <5>1. Set(Family(target)) \in here
                    BY <4>1, <4>5, <4>7, IptNeeds DEF IsIptables
                <5> QED
                    BY <1>1, <4>1, <4>2, <4>3, <4>4, <4>7, <5>1
            <4>8. CASE backend = "iptables-nft"
                <5>1. Chain(Family(target)) \in here
                    BY <4>1, <4>5, <4>8, IptNeeds DEF IsIptables
                <5> QED
                    BY <1>1, <4>1, <4>2, <4>3, <4>4, <4>8, <5>1
            <4>9. CASE backend = "ufw"
                BY <1>1, <4>1, <4>2, <4>3, <4>9
            <4> QED
                BY <1>0, <3>3, <4>6, <4>7, <4>8, <4>9
        <3> QED
            BY <3>2, <3>3
    <2>6. CASE call = "flush" /\ IsIptables
        <3>1. PICK o \in Roots : \/ o \in Chains /\ Head(doing) = Empty(o)
                                 \/ Head(doing) = Delete(o)
            <4>1. PICK o \in Roots : doing = Clearing(o) \/ doing = <<Delete(o)>>
                BY <2>0, <2>6 DEF IptFlush
            <4>2. (o \in Chains /\ Head(doing) = Empty(o)) \/ Head(doing) = Delete(o)
                BY <4>1, ClearingIs
            <4> QED
                BY <4>2
        <3>2. twice' = {}
            BY <1>0, <2>0, <3>1, CommandFields DEF Obey
        <3>3. \/ here' = here \ Inside(o)
              \/ here' = here \ ({o} \cup Inside(o)) /\ HeldBy(o) \cap here = {}
            <4>1. UNION {Inside(p) : p \in {o}} = Inside(o)
                OBVIOUS
            <4>2. CASE Head(doing) = Empty(o)
                <5>1. here' = here \ UNION {Inside(p) : p \in {o}}
                    BY <2>0, <4>2, CommandFields DEF Obey
                <5> QED
                    BY <4>1, <5>1
            <4>3. CASE Head(doing) = Delete(o)
                <5>1. /\ here' = here \ {p \in {o} \cup UNION {Inside(p) : p \in {o}} : p \notin twice}
                      /\ HeldBy(o) \cap here = {}
                    BY <2>0, <4>3, CommandFields DEF Obey, Accepts
                <5> QED
                    BY <1>0, <4>1, <5>1
            <4> QED
                BY <3>1, <4>2, <4>3
        <3>4. ASSUME NEW f \in Families, o = Jump(f) PROVE Contained'
            <4>1. here' = here \ {Jump(f)} \/ here' = here
                BY <2>6, <3>3, <3>4, IptInside
            <4>2. \A g : Set(g) # Jump(f) /\ Chain(g) # Jump(f)
                BY Different
            <4> QED
                BY <1>1, <2>6, <3>2, <4>1, <4>2 DEF IsIptables
        <3>5. ASSUME NEW f \in Families, o = Set(f), backend = "ipset" PROVE Contained'
            <4>1. here' = here \ Elements(f) \/ here' = here \ ({Set(f)} \cup Elements(f))
                BY <2>6, <3>3, <3>5, IptInside
            <4>2. \A g : Chain(g) \notin {Set(f)} \cup Elements(f)
                BY Kinds DEF Elements
            <4>3. \A a \in Addrs : Blocked(a) \in here' => Set(Family(a)) \in here'
                <5>1. SUFFICES ASSUME NEW a \in Addrs, Blocked(a) \in here' PROVE Set(Family(a)) \in here'
                    OBVIOUS
                <5>2. Blocked(a) \in here /\ Set(Family(a)) \in here /\ Family(a) # f
                    BY <3>5, <4>1, <5>1, ElementsAre
                <5>3. Set(Family(a)) \notin {Set(f)} \cup Elements(f)
                    BY <5>2, Kinds DEF Elements
                <5> QED
                    BY <4>1, <5>2, <5>3
            <4> QED
                BY <1>1, <3>2, <3>5, <4>1, <4>2, <4>3
        <3>6. ASSUME NEW f \in Families, o = Chain(f), backend = "ipset" PROVE Contained'
            <4>1. Inside(o) = {Drop(f)} /\ (HeldBy(o) \cap here = {} => Drop(f) \notin here)
                BY <2>6, <3>6, IptInside
            <4>2. \A g : Set(g) \notin {Chain(f), Drop(f)} /\ Chain(g) # Drop(f)
                BY Different
            <4>3. \A g : Chain(g) = Chain(f) => g = f
                BY Kinds
            <4> QED
                BY <1>1, <3>2, <3>3, <3>6, <4>1, <4>2, <4>3
        <3>7. ASSUME NEW f \in Families, o = Chain(f), backend = "iptables-nft" PROVE Contained'
            <4>1. Inside(o) = {Drop(f)} \cup Elements(f)
                BY <2>6, <3>7, IptInside
            <4>2. \A g : Chain(g) \notin {Drop(f)} \cup Elements(f)
                BY Kinds DEF Elements
            <4>3. \A g : Chain(g) = Chain(f) => g = f
                BY Kinds
            <4>4. \A a \in Addrs : Blocked(a) \in here' => Chain(Family(a)) \in here'
                <5>1. SUFFICES ASSUME NEW a \in Addrs, Blocked(a) \in here' PROVE Chain(Family(a)) \in here'
                    OBVIOUS
                <5>2. Blocked(a) \in here /\ Chain(Family(a)) \in here /\ Family(a) # f
                    BY <3>3, <3>7, <4>1, <5>1, ElementsAre
                <5> QED
                    BY <3>3, <3>7, <4>1, <4>2, <4>3, <5>2
            <4> QED
                BY <1>1, <3>2, <3>3, <3>7, <4>4
        <3>8. \/ \E f \in Families : o = Jump(f)
              \/ \E f \in Families : o = Set(f) /\ backend = "ipset"
              \/ \E f \in Families : o = Chain(f)
            BY DEF Roots, Sets, Chains, Jumps, Families
        <3> QED
            BY <2>6, <3>4, <3>5, <3>6, <3>7, <3>8 DEF IsIptables
    <2>7. CASE call = "flush" /\ backend = "nft"
        <3>1. Head(doing) = Delete(Table)
            BY <2>0, <2>7, OnePart DEF OtherFlush
        <3>2. here' = here \ ({Table} \cup Inside(Table)) /\ twice' = {}
            BY <1>0, <2>0, <3>1, CommandFields DEF Obey
        <3>3. Inside(Table) = Objects
            BY <2>7, Kinds DEF Inside
        <3> QED
            BY <1>0, <1>1, <2>7, <3>2, <3>3
    <2>8. CASE call = "flush" /\ backend = "pf"
        <3>1. \/ Head(doing) = Empty(Chain("all"))
              \/ Head(doing) = Delete(Table) /\ Drop("all") \notin here
            BY <2>0, <2>8, OnePart DEF OtherFlush
        <3>2. \/ here' = here \ Inside(Chain("all"))
              \/ here' = here \ ({Table} \cup Inside(Table)) /\ Drop("all") \notin here
            BY <1>0, <2>0, <3>1, CommandFields DEF Obey
        <3>3. Inside(Chain("all")) = {Drop("all")} /\ Inside(Table) = AllBlocked
            BY <2>8, Kinds DEF Inside, AllBlocked
        <3>4. twice' = {}
            BY <1>0, <2>0, <3>1, CommandFields DEF Obey
        <3>5. Table # Drop("all")
            BY Kinds
        <3> QED
            BY <1>1, <2>8, <3>2, <3>3, <3>4, <3>5 DEF Ours
    <2>9. CASE call = "flush" /\ backend = "ufw"
        <3>1. doing = <<ListTagged>> \/ doing \in Seq({Delete(o) : o \in here})
            BY <2>0, <2>9 DEF OtherFlush
        <3>2. Head(doing) = ListTagged \/ Head(doing) \in {Delete(o) : o \in here}
            BY <2>0, <3>1, OnePart, Unfold
        <3>3. here' \subseteq here /\ twice' = {}
            BY <1>0, <2>0, <3>2, CommandFields DEF Obey
        <3> QED
            BY <1>1, <2>9, <3>3
    <2> QED
        BY <1>0, <2>0, <2>1, <2>2, <2>3, <2>4, <2>5, <2>6, <2>7, <2>8, <2>9 DEF IsIptables
<1> QED
    BY <1>3, <1>4
LEMMA IptFlushStep ==
    ASSUME TypeOK, Growing, ~blind, Contained, IptFlush, OtherFlush, [Next]_vars
    PROVE  IptFlush'
<1>0. UNCHANGED <<backend, blind>> /\ Roots' = Roots
    BY Kept DEF Next, Within, Returning, vars, host, Roots
<1> DEFINE Covered(o) == \/ doing = Clearing(o) \/ doing = <<Delete(o)>>
                         \/ \E i \in DOMAIN todo : todo[i] = Clear(o)
           Ready(o) == /\ doing = Clearing(o) \/ doing = <<Delete(o)>> =>
                              o \in here /\ HeldBy(o) \cap here \subseteq Inside(o)
                       /\ doing = <<Delete(o)>> => HeldBy(o) \cap here = {}
           Shape == /\ todo \in Seq({Clear(o) : o \in Roots})
                    /\ RemovedInOrder(todo)
                    /\ doing \in {<<>>} \cup {Clearing(o) : o \in Roots} \cup {<<Delete(o)>> : o \in Roots}
<1>1. ASSUME call = "flush", IsIptables
      PROVE  Shape /\ \A o \in Roots : (o \in here => Covered(o)) /\ Ready(o)
    BY <1>1 DEF IptFlush
<1>2. (Shape' /\ \A o \in Roots : (o \in here' => Covered(o)') /\ Ready(o)') => IptFlush'
    BY <1>0 DEF IptFlush
<1>3. ASSUME BeginFlush, IsIptables PROVE IptFlush'
    <2>1. todo' = FlushParts /\ doing' = <<>>
        BY <1>3 DEF BeginFlush, Begin, TypeOK
    <2>2. RemovedInOrder(todo)' = RemovedInOrder(FlushParts)
        BY <2>1 DEF RemovedInOrder, Follows
    <2>3. Shape'
        BY <1>0, <1>3, <2>1, <2>2, FlushPlan
    <2>4. ASSUME NEW o \in Roots PROVE Covered(o)' /\ Ready(o)'
        <3>1. Clearing(o) # <<>> /\ <<Delete(o)>> # <<>>
            BY ClearingIs
        <3>2. Covered(o)'
            BY <1>3, <2>1, FlushPlan
        <3> QED
            BY <2>1, <3>1, <3>2
    <2> QED
        BY <1>2, <2>3, <2>4
<1>4. BeginInit \/ (\E a \in Addrs : BeginBlock(a)) \/ Returning => IptFlush'
    BY Kept DEF BeginInit, BeginBlock, Begin, IptFlush
<1>5. ASSUME Within, call = "flush", IsIptables PROVE IptFlush'
    <2>1. Shape /\ \A o \in Roots : (o \in here => Covered(o)) /\ Ready(o)
        BY <1>1, <1>5
    <2>2. CASE doing = <<>>
        <3>1. todo # <<>> /\ (Enter \/ Probe) /\ todo' = Tail(todo) /\ here' = here
            BY <1>5, <2>2, Kept DEF Within, Enter, Probe, ListRules, RunCommand
        <3>2. PICK o \in Roots : Head(todo) = Clear(o)
            <4>1. Head(todo) \in {Clear(o) : o \in Roots}
                BY <2>1, <3>1, Unfold
            <4> QED
                BY <4>1
        <3>3. Probe
            BY <3>1, <3>2, ClearingIs DEF Enter
        <3>4. doing' = IF o \in here THEN Clearing(o) ELSE <<>>
            BY <3>2, <3>3, ClearingIs, ProbeIsExact
        <3>5. /\ Tail(todo) \in Seq({Clear(p) : p \in Roots}) /\ RemovedInOrder(Tail(todo))
              /\ \A i \in DOMAIN todo : i # 1 => \E j \in DOMAIN Tail(todo) : Tail(todo)[j] = todo[i]
              /\ todo[1] = Clear(o) /\ 1 \in DOMAIN todo /\ DOMAIN todo = 1..Len(todo)
            <4> DEFINE S == {Clear(p) : p \in Roots}
            <4>1. todo \in Seq(S) /\ RemovedInOrder(todo)
                BY <2>1
            <4> HIDE DEF S
            <4>2. /\ Head(todo) = todo[1] /\ 1 \in DOMAIN todo /\ DOMAIN todo = 1..Len(todo)
                  /\ Tail(todo) \in Seq(S) /\ RemovedInOrder(Tail(todo))
                BY <3>1, <4>1, Unfold, OrderOfTail
            <4>3. \A i \in DOMAIN todo : i # 1 => \E j \in DOMAIN Tail(todo) : Tail(todo)[j] = todo[i]
                BY <3>1, <4>1, Unfold
            <4>4. todo[1] = Clear(o)
                BY <3>2, <4>2
            <4> QED
                BY <4>2, <4>3, <4>4 DEF S
        <3>6. RemovedInOrder(todo)'
            BY <3>1, <3>5 DEF RemovedInOrder, Follows
        <3>7. Shape'
            BY <1>0, <3>1, <3>4, <3>5, <3>6
        <3>8. ASSUME NEW p \in Roots, p \in here PROVE \E i \in DOMAIN todo : todo[i] = Clear(p)
            <4>1. Covered(p)
                BY <2>1, <3>8
            <4> QED
                BY <2>2, <4>1, ClearingIs
        <3>9. ASSUME NEW p \in Roots, p \in here' PROVE Covered(p)'
            <4>1. CASE p = o
                BY <3>1, <3>4, <3>9, <4>1
            <4>2. CASE p # o
                <5>1. PICK i \in DOMAIN todo : todo[i] = Clear(p)
                    BY <3>1, <3>8, <3>9
                <5>2. i # 1
                    BY <3>5, <4>2, <5>1, ClearingIs
                <5> QED
                    BY <3>1, <3>5, <5>1, <5>2
            <4> QED
                BY <4>1, <4>2
        <3>10. ASSUME NEW before \in Roots, Follows(o, before), before \in here PROVE FALSE
            <4>1. PICK i \in DOMAIN todo : todo[i] = Clear(before)
                BY <3>8, <3>10
            <4>2. before # o
                BY <3>10, Different, Kinds DEF Follows
            <4>3. i # 1
                BY <3>5, <4>1, <4>2, ClearingIs
            <4>4. 1 < i
                BY <3>5, <4>3
            <4>5. o \in todo[1].probed /\ before \in todo[i].probed
                BY <3>5, <4>1, ClearingIs
            <4> QED
                BY <2>1, <3>5, <3>10, <4>4, <4>5 DEF RemovedInOrder
        <3>11. HeldBy(o) \cap here \subseteq Inside(o) /\ (o \notin Chains => HeldBy(o) \cap here = {})
            <4>1. ASSUME NEW f \in Families, o = Chain(f) PROVE HeldBy(o) \cap here \subseteq Inside(o) /\ o \in Chains
                <5>1. Jump(f) \in Roots /\ o \in Chains
                    BY <4>1 DEF Roots, Jumps, Chains, Families
                <5>2. Jump(f) \notin here
                    BY <3>10, <4>1, <5>1 DEF Follows
                <5> QED
                    BY <1>5, <4>1, <5>1, <5>2, IptInside
            <4>2. ASSUME NEW f \in Families, o = Set(f), backend = "ipset" PROVE HeldBy(o) \cap here = {}
                <5>1. Chain(f) \in Roots
                    BY <4>2 DEF Roots, Chains, Families
                <5>2. Chain(f) \notin here
                    BY <3>10, <4>2, <5>1 DEF Follows
                <5>3. Drop(f) \notin here
                    BY <4>2, <5>2 DEF Contained
                <5> QED
                    BY <1>5, <4>2, <5>3, IptInside
            <4>3. ASSUME NEW f \in Families, o = Jump(f) PROVE HeldBy(o) \cap here = {}
                BY <1>5, <4>3, IptInside
            <4>4. \/ \E f \in Families : o = Jump(f)
                  \/ \E f \in Families : o = Set(f) /\ backend = "ipset"
                  \/ \E f \in Families : o = Chain(f)
                BY DEF Roots, Sets, Chains, Jumps, Families
            <4> QED
                BY <4>1, <4>2, <4>3, <4>4
        <3>12. HeldBy(o)' = HeldBy(o) /\ Inside(o)' = Inside(o)
            BY <1>0 DEF HeldBy, Inside
        <3>13. ASSUME NEW p \in Roots PROVE Ready(p)'
            <4>1. ASSUME doing' = Clearing(p) \/ doing' = <<Delete(p)>>
                  PROVE  p = o /\ o \in here /\ (doing' = <<Delete(p)>> => o \notin Chains)
                <5>1. o \in here
                    BY <3>4, <4>1, ClearingIs
                <5>2. Clearing(o) = Clearing(p) \/ Clearing(o) = <<Delete(p)>>
                    BY <3>4, <4>1, <5>1
                <5>3. p = o
                    BY <5>2, ClearingIs
                <5>4. doing' = <<Delete(p)>> => o \notin Chains
                    BY <3>4, <5>1, ClearingIs
                <5> QED
                    BY <5>1, <5>3, <5>4
            <4> QED
                BY <3>1, <3>11, <3>12, <4>1
        <3> QED
            BY <1>2, <3>7, <3>9, <3>13
    <2>3. CASE doing # <<>>
        <3>1. PICK o \in Roots : (o \in Chains /\ doing = Clearing(o)) \/ doing = <<Delete(o)>>
            BY <2>1, <2>3, ClearingIs
        <3>2. RunCommand
            <4>1. Head(doing) = Empty(o) \/ Head(doing) = Delete(o)
                BY <3>1, ClearingIs
            <4>2. Head(doing) # ListTagged
                BY <4>1, CommandFields
            <4> QED
                BY <1>5, <2>3, <4>2 DEF Within, Enter, Probe, ListRules
        <3>3. todo' = todo /\ doing' = Tail(doing) /\ Obey(Head(doing)) /\ twice = {}
            BY <3>2 DEF RunCommand, Contained
        <3>4. RemovedInOrder(todo)' = RemovedInOrder(todo)
            BY <3>3 DEF RemovedInOrder, Follows
        <3>5. \A p \in Roots : p \in here => p = o \/ \E i \in DOMAIN todo : todo[i] = Clear(p)
            <4>1. SUFFICES ASSUME NEW p \in Roots, p \in here, doing = Clearing(p) \/ doing = <<Delete(p)>>
                           PROVE  p = o
                BY <2>1
            <4> QED
                BY <3>1, <4>1, ClearingIs
        <3>6. o \in here
            BY <2>1, <3>1
        <3>7. CASE o \in Chains /\ doing = Clearing(o)
            <4>1. Head(doing) = Empty(o) /\ doing' = <<Delete(o)>>
                BY <3>3, <3>7, ClearingIs
            <4>2. here' = here \ UNION {Inside(p) : p \in {o}}
                BY <3>3, <4>1, CommandFields DEF Obey
            <4>3. UNION {Inside(p) : p \in {o}} = Inside(o)
                OBVIOUS
            <4>4. here' = here \ Inside(o)
                BY <4>2, <4>3
            <4>5. o \notin Inside(o) /\ Inside(o)' = Inside(o) /\ HeldBy(o)' = HeldBy(o)
                <5>1. PICK f \in Families : o = Chain(f)
                    BY <3>7 DEF Chains, Families
                <5>2. Chain(f) \notin Elements(f) /\ Chain(f) # Drop(f)
                    BY Kinds DEF Elements
                <5>3. Inside(o)' = Inside(o) /\ HeldBy(o)' = HeldBy(o)
                    BY <1>0 DEF HeldBy, Inside
                <5> QED
                    BY <1>5, <5>1, <5>2, <5>3, IptInside
            <4>6. HeldBy(o) \cap here \subseteq Inside(o)
                BY <2>1, <3>7
            <4>7. \A p \in Roots : p \in here' => Covered(p)'
                BY <3>3, <3>5, <4>1, <4>4
            <4>8. \A p \in Roots : Ready(p)'
                <5>1. \A p : doing' = Clearing(p) \/ doing' = <<Delete(p)>> => p = o
                    BY <4>1, ClearingIs
                <5> QED
                    BY <3>6, <4>4, <4>5, <4>6, <5>1
            <4>9. Shape'
                BY <1>0, <2>1, <3>3, <3>4, <4>1
            <4> QED
                BY <1>2, <4>7, <4>8, <4>9
        <3>8. CASE doing = <<Delete(o)>>
            <4>1. Head(doing) = Delete(o) /\ doing' = <<>>
                BY <3>3, <3>8, ClearingIs
            <4>2. here' = here \ {p \in {o} \cup UNION {Inside(p) : p \in {o}} : p \notin twice}
                BY <3>3, <4>1, CommandFields DEF Obey
            <4>3. here' \subseteq here /\ o \notin here'
                BY <3>3, <4>2
            <4>4. \A p : Clearing(p) # <<>> /\ <<Delete(p)>> # <<>>
                BY ClearingIs
            <4>5. \A p \in Roots : p \in here' => Covered(p)'
                BY <3>3, <3>5, <4>3
            <4>6. \A p \in Roots : Ready(p)'
                BY <4>1, <4>4
            <4>7. Shape'
                BY <1>0, <2>1, <3>3, <3>4, <4>1
            <4> QED
                BY <1>2, <4>5, <4>6, <4>7
        <3> QED
            BY <3>1, <3>7, <3>8
    <2> QED
        BY <2>2, <2>3
<1>6. ASSUME Within, ~(call = "flush" /\ IsIptables) PROVE IptFlush'
    BY <1>0, <1>6, Kept DEF IptFlush, IsIptables
<1>7. ASSUME BeginFlush, ~IsIptables PROVE IptFlush'
    BY <1>0, <1>7 DEF IptFlush, IsIptables
<1>8. ASSUME UNCHANGED vars PROVE IptFlush'
    <2>1. UNCHANGED <<backend, call, todo, doing, here>>
        BY <1>8 DEF vars, host
    <2> QED
        BY <1>0, <2>1 DEF IptFlush, IsIptables, RemovedInOrder, Follows, HeldBy, Inside
<1> QED
    BY <1>3, <1>4, <1>5, <1>6, <1>7, <1>8 DEF Next, Within, Returning
\* The rules that ufw has still to delete.
UfwRest ==
    /\ doing \in Seq({Delete(o) : o \in here})
    /\ \A i, j \in DOMAIN doing : doing[i] = doing[j] => i = j
    /\ \A o \in here : \E i \in DOMAIN doing : doing[i] = Delete(o)

LEMMA UfwDeletes ==
    ASSUME TypeOK, backend = "ufw", Contained, UfwRest, RunCommand
    PROVE  UfwRest'
<1>1. doing # <<>> /\ doing' = Tail(doing) /\ Obey(Head(doing)) /\ twice = {}
    BY DEF RunCommand, Contained
<1> DEFINE S == {Delete(o) : o \in here}
<1>2. doing \in Seq(S)
    BY DEF UfwRest
<1> HIDE DEF S
<1>3. /\ Head(doing) \in S /\ Head(doing) = doing[1] /\ 1 \in DOMAIN doing
      /\ DOMAIN doing = 1..Len(doing) /\ Len(doing) \in Nat \ {0}
      /\ Tail(doing) \in Seq(S) /\ DOMAIN Tail(doing) = 1..(Len(doing) - 1)
      /\ \A i \in DOMAIN Tail(doing) : i + 1 \in DOMAIN doing /\ Tail(doing)[i] = doing[i + 1]
    BY <1>1, <1>2, Unfold
<1>4. \A i \in DOMAIN doing : i # 1 => \E j \in DOMAIN Tail(doing) : Tail(doing)[j] = doing[i]
    BY <1>1, <1>2, Unfold
<1>5. PICK o \in here : Head(doing) = Delete(o)
    BY <1>3 DEF S
<1>6. here' = here \ {o}
    <2>1. here' = here \ {p \in {o} \cup UNION {Inside(p) : p \in {o}} : p \notin twice}
        BY <1>1, <1>5, CommandFields DEF Obey
    <2>2. Inside(o) = {}
        <3>1. o \in AllBlocked
            BY DEF Contained
        <3>2. o[1] = "blocked"
            BY <3>1, Kinds DEF AllBlocked
        <3> QED
            BY <3>2 DEF Inside
    <2> QED
        BY <1>1, <2>1, <2>2
<1>7. \A i, j \in DOMAIN doing : doing[i] = doing[j] => i = j
    BY DEF UfwRest
<1>8. \A i, j \in DOMAIN Tail(doing) : Tail(doing)[i] = Tail(doing)[j] => i = j
    <2>1. SUFFICES ASSUME NEW i \in DOMAIN Tail(doing), NEW j \in DOMAIN Tail(doing), Tail(doing)[i] = Tail(doing)[j]
                   PROVE  i = j
        OBVIOUS
    <2>2. i + 1 \in DOMAIN doing /\ j + 1 \in DOMAIN doing /\ doing[i + 1] = doing[j + 1]
        BY <1>3, <2>1
    <2>3. i + 1 = j + 1
        BY <1>7, <2>2
    <2>4. i \in Nat /\ j \in Nat
        BY <1>3
    <2> QED
        BY <2>3, <2>4
<1>9. Tail(doing) \in Seq({Delete(p) : p \in here'})
    <2>1. \A i \in DOMAIN Tail(doing) : Tail(doing)[i] \in {Delete(p) : p \in here'}
        <3>1. SUFFICES ASSUME NEW i \in DOMAIN Tail(doing) PROVE \E p \in here' : Tail(doing)[i] = Delete(p)
            OBVIOUS
        <3>2. i + 1 \in DOMAIN doing /\ Tail(doing)[i] = doing[i + 1] /\ i + 1 # 1
            BY <1>3
        <3>3. doing[i + 1] # Delete(o)
            BY <1>3, <1>5, <1>7, <3>2
        <3>4. Tail(doing)[i] \in S
            BY <1>3
        <3>5. PICK p \in here : Tail(doing)[i] = Delete(p)
            BY <3>4 DEF S
        <3> QED
            BY <1>6, <3>2, <3>3, <3>5
    <2> QED
        BY <1>3, <2>1, Elementwise
<1>10. \A p \in here' : \E j \in DOMAIN Tail(doing) : Tail(doing)[j] = Delete(p)
    <2>1. SUFFICES ASSUME NEW p \in here' PROVE \E j \in DOMAIN Tail(doing) : Tail(doing)[j] = Delete(p)
        OBVIOUS
    <2>2. PICK i \in DOMAIN doing : doing[i] = Delete(p)
        BY <1>6 DEF UfwRest
    <2>3. p # o
        BY <1>6
    <2>4. i # 1
        BY <1>3, <1>5, <2>2, <2>3, CommandFields
    <2> QED
        BY <1>4, <2>2, <2>4
<1> QED
    BY <1>1, <1>8, <1>9, <1>10 DEF UfwRest

LEMMA OtherFlushStep ==
    ASSUME TypeOK, Growing, ~blind, Contained, IptFlush, OtherFlush, [Next]_vars
    PROVE  OtherFlush'
<1> USE DEF OtherFlush
<1>0. backend' = backend
    BY Kept DEF Next, Within, Returning, vars, host
<1>1. ASSUME BeginFlush PROVE OtherFlush'
    BY <1>0, <1>1 DEF BeginFlush, Begin, FlushParts, TypeOK
<1>2. BeginInit \/ (\E a \in Addrs : BeginBlock(a)) \/ Returning => OtherFlush'
    BY Kept DEF BeginInit, BeginBlock, Begin
<1>3. ASSUME Within, call = "flush", backend = "nft" PROVE OtherFlush'
    <2>1. CASE todo = NftFlush /\ doing = <<>>
        <3>1. /\ Head(NftFlush) = IfPresent(Table, <<Delete(Table)>>) /\ Tail(NftFlush) = <<>>
              /\ NftFlush # <<>>
            BY OnePart, Zenon DEF NftFlush
        <3>2. Head(todo).when = "present" /\ Head(todo).probed = {Table} /\ Head(todo).run = <<Delete(Table)>>
            BY <2>1, <3>1, OnePart
        <3>3. Probe
            BY <1>3, <2>1, <3>2 DEF Within, Enter, ListRules, RunCommand
        <3>4. todo' = <<>> /\ here' = here
            BY <2>1, <3>1, <3>3 DEF Probe
        <3>5. doing' = IF Table \in here THEN <<Delete(Table)>> ELSE <<>>
            BY <3>2, <3>3, ProbeIsExact
        <3> QED
            BY <1>0, <1>3, <3>4, <3>5 DEF Contained
    <2>2. CASE todo = <<>> /\ doing = <<Delete(Table)>> /\ Table \in here
        <3>1. Head(doing) = Delete(Table) /\ Tail(doing) = <<>> /\ doing # <<>>
            BY <2>2
        <3>2. RunCommand
            BY <1>3, <2>2, <3>1, CommandFields DEF Within, Enter, Probe, ListRules
        <3>3. /\ doing' = <<>> /\ todo' = <<>> /\ twice = {}
              /\ here' = here \ {p \in {Table} \cup UNION {Inside(p) : p \in {Table}} : p \notin twice}
            BY <2>2, <3>1, <3>2, CommandFields DEF RunCommand, Obey, Contained
        <3>4. Inside(Table) = Objects /\ here \subseteq Objects
            BY <1>3, Kinds DEF Inside, TypeOK
        <3>5. here' = {}
            BY <3>3, <3>4
        <3> QED
            BY <1>0, <1>3, <3>3, <3>5
    <2>3. CASE todo = <<>> /\ doing = <<>>
        BY <1>3, <2>3 DEF Within, Enter, Probe, ListRules, RunCommand
    <2> QED
        BY <1>3, <2>1, <2>2, <2>3
<1>4. ASSUME Within, call = "flush", backend = "pf" PROVE OtherFlush'
    <2>0. Inside(Chain("all")) = {Drop("all")} /\ Inside(Table) = AllBlocked
        BY <1>4, Kinds DEF Inside, AllBlocked
    <2>1. CASE todo = PfFlush /\ doing = <<>>
        <3> DEFINE clear == <<Empty(Chain("all")), Delete(Table)>>
        <3>1. Head(PfFlush) = IfPresent(Table, clear) /\ Tail(PfFlush) = <<>> /\ PfFlush # <<>>
            BY OnePart, Zenon DEF PfFlush
        <3> HIDE DEF clear
        <3>2. Head(todo).when = "present" /\ Head(todo).probed = {Table} /\ Head(todo).run = clear
            BY <2>1, <3>1, OnePart
        <3>3. Probe
            BY <1>4, <2>1, <3>2 DEF Within, Enter, ListRules, RunCommand
        <3>4. todo' = <<>> /\ here' = here
            BY <2>1, <3>1, <3>3 DEF Probe
        <3>5. doing' = IF Table \in here THEN clear ELSE <<>>
            BY <3>2, <3>3, ProbeIsExact
        <3>6. CASE Table \in here
            BY <1>0, <1>4, <3>4, <3>5, <3>6 DEF clear
        <3>7. CASE Table \notin here
            BY <1>0, <1>4, <3>4, <3>5, <3>7 DEF Contained, Ours
        <3> QED
            BY <3>6, <3>7
    <2>2. CASE todo = <<>> /\ doing = <<Empty(Chain("all")), Delete(Table)>> /\ Table \in here
        <3>1. Head(doing) = Empty(Chain("all")) /\ Tail(doing) = <<Delete(Table)>> /\ doing # <<>>
            BY <2>2
        <3>2. RunCommand
            BY <1>4, <2>2, <3>1, CommandFields DEF Within, Enter, Probe, ListRules
        <3>3. /\ doing' = <<Delete(Table)>> /\ todo' = <<>>
              /\ here' = here \ UNION {Inside(p) : p \in {Chain("all")}}
            BY <2>2, <3>1, <3>2, CommandFields DEF RunCommand, Obey
        <3>4. here' = here \ {Drop("all")} /\ Table # Drop("all")
            BY <2>0, <3>3, Kinds
        <3> QED
            BY <1>0, <1>4, <2>2, <3>3, <3>4
    <2>3. CASE todo = <<>> /\ doing = <<Delete(Table)>> /\ Table \in here /\ Drop("all") \notin here
        <3>1. Head(doing) = Delete(Table) /\ Tail(doing) = <<>> /\ doing # <<>>
            BY <2>3
        <3>2. RunCommand
            BY <1>4, <2>3, <3>1, CommandFields DEF Within, Enter, Probe, ListRules
        <3>3. /\ doing' = <<>> /\ todo' = <<>> /\ twice = {}
              /\ here' = here \ {p \in {Table} \cup UNION {Inside(p) : p \in {Table}} : p \notin twice}
            BY <2>3, <3>1, <3>2, CommandFields DEF RunCommand, Obey, Contained
        <3>4. here' \subseteq {Enabled}
            BY <1>4, <2>0, <2>3, <3>3 DEF Contained
        <3> QED
            BY <1>0, <1>4, <3>3, <3>4 DEF Ours
    <2>4. CASE todo = <<>> /\ doing = <<>>
        BY <1>4, <2>4 DEF Within, Enter, Probe, ListRules, RunCommand
    <2> QED
        BY <1>4, <2>1, <2>2, <2>3, <2>4
<1>5. ASSUME Within, call = "flush", backend = "ufw" PROVE OtherFlush'
    <2>1. CASE todo = UfwFlush /\ doing = <<>>
        <3>1. Head(UfwFlush) = Always(<<ListTagged>>) /\ Tail(UfwFlush) = <<>> /\ UfwFlush # <<>>
            BY OnePart, Zenon DEF UfwFlush
        <3>2. Head(todo).when = "always" /\ Head(todo).run = <<ListTagged>>
            BY <2>1, <3>1, OnePart
        <3>3. Enter
            BY <1>5, <2>1, <3>2 DEF Within, Probe, ListRules, RunCommand
        <3>4. todo' = <<>> /\ doing' = <<ListTagged>>
            BY <2>1, <3>1, <3>2, <3>3 DEF Enter
        <3> QED
            BY <1>0, <1>5, <3>4
    <2>2. CASE todo = <<>> /\ doing = <<ListTagged>>
        <3>1. Head(doing) = ListTagged /\ doing # <<>>
            BY <2>2
        <3>2. ListRules
            BY <1>5, <2>2, <3>1, CommandFields DEF Within, Enter, Probe, RunCommand, Accepts
        <3>3. doing' = SetToSeq(Tagged) /\ todo' = <<>> /\ here' = here
            BY <2>2, <3>2 DEF ListRules, Tagged
        <3>4. Tagged = {Delete(o) : o \in here}
            <4>1. {Blocked(a) : a \in Addrs} \cap here = here
                BY <1>5 DEF Contained, AllBlocked
            <4> QED
                BY <4>1 DEF Tagged
        <3>5. /\ SetToSeq(Tagged) \in Seq(Tagged)
              /\ \A i, j \in DOMAIN SetToSeq(Tagged) : SetToSeq(Tagged)[i] = SetToSeq(Tagged)[j] => i = j
              /\ \A x \in Tagged : \E i \in DOMAIN SetToSeq(Tagged) : SetToSeq(Tagged)[i] = x
            BY TaggedFinite, Listing
        <3>6. \A o \in here : Delete(o) \in Tagged
            BY <3>4
        <3>7. UfwRest'
            BY <3>3, <3>4, <3>5, <3>6 DEF UfwRest
        <3> QED
            BY <1>0, <1>5, <3>3, <3>7 DEF UfwRest
    <2>3. CASE todo = <<>> /\ UfwRest
        <3>1. doing # <<>>
            BY <1>5, <2>3 DEF Within, Enter, Probe, ListRules, RunCommand
        <3>2. Head(doing) # ListTagged
            <4>1. Head(doing) \in {Delete(o) : o \in here}
                BY <2>3, <3>1, Unfold DEF UfwRest
            <4> QED
                BY <4>1, CommandFields
        <3>3. RunCommand
            BY <1>5, <2>3, <3>1, <3>2 DEF Within, Enter, Probe, ListRules
        <3>4. UfwRest'
            BY <1>5, <2>3, <3>3, UfwDeletes
        <3>5. todo' = <<>>
            BY <2>3, <3>3 DEF RunCommand
        <3> QED
            BY <1>0, <1>5, <3>4, <3>5 DEF UfwRest
    <2> QED
        BY <1>5, <2>1, <2>2, <2>3 DEF UfwRest
<1>6. ASSUME Within, call = "flush", IsIptables PROVE OtherFlush'
    BY <1>0, <1>6 DEF IsIptables
<1>7. ASSUME Within, call # "flush" PROVE OtherFlush'
    BY <1>7, Kept
<1>8. ASSUME UNCHANGED vars PROVE OtherFlush'
    BY <1>8 DEF vars, host, Ours
<1>9. backend \in {"nft", "ipset", "iptables-nft", "ufw", "pf"}
    BY BackendAssumption DEF BackendAssumption, TypeOK
<1> QED
    BY <1>1, <1>2, <1>3, <1>4, <1>5, <1>6, <1>7, <1>8, <1>9 DEF Next, Within, Returning, IsIptables
LEMMA SoundStep ==
    TypeOK /\ Growing /\ ~blind /\ Sound /\ [Next]_vars => Sound'
<1> SUFFICES ASSUME TypeOK, Growing, ~blind, Sound, [Next]_vars PROVE Sound'
    OBVIOUS
<1>1. Contained /\ IptFlush /\ OtherFlush /\ (call # "none" => ~disturbed)
    BY DEF Sound
<1>2. Contained' /\ IptFlush' /\ OtherFlush'
    BY <1>1, ContainedStep, IptFlushStep, OtherFlushStep
<1>3. call' # "none" => ~disturbed'
    <2>1. BeginInit \/ (\E a \in Addrs : BeginBlock(a)) \/ BeginFlush => ~disturbed'
        BY DEF BeginInit, BeginBlock, BeginFlush, Begin
    <2>2. Returning => call' = "none"
        BY Kept
    <2>3. Within => disturbed' = disturbed /\ call' = call
        BY <1>1, ProbeIsExact, Kept DEF Within, Enter, ListRules, RunCommand
    <2>4. UNCHANGED vars => UNCHANGED <<call, disturbed>>
        BY DEF vars
    <2> QED
        BY <1>1, <2>1, <2>2, <2>3, <2>4 DEF Next, Within, Returning
<1> QED
    BY <1>2, <1>3 DEF Sound

\* A Flush that has nothing left to do has removed all.
LEMMA NothingLeft ==
    ASSUME TypeOK, Contained, IptFlush, OtherFlush, call = "flush", todo = <<>>, doing = <<>>
    PROVE  Ours = {}
<1>0. backend \in {"nft", "ipset", "iptables-nft", "ufw", "pf"}
    BY BackendAssumption DEF BackendAssumption, TypeOK
<1>1. CASE IsIptables
    <2>1. DOMAIN todo = {} /\ \A o : doing # Clearing(o) /\ doing # <<Delete(o)>>
        BY ClearingIs
    <2>2. \A o \in Roots : o \notin here
        BY <1>1, <2>1 DEF IptFlush
    <2>3. \A f \in Families : /\ Chain(f) \in Roots
                              /\ backend = "ipset" => Set(f) \in Roots
        BY DEF Roots, Sets, Chains, Families
    <2>4. \A o \in Drop2 : \E f \in Families : o = Drop(f)
        BY DEF Drop2, Families
    <2>5. CASE backend = "ipset"
        <3>1. \A o \in AllBlocked : o \notin here
            BY <2>2, <2>3, <2>5, ElementsAre DEF Contained
        <3>2. \A o \in Drop2 : o \notin here
            BY <2>2, <2>3, <2>4, <2>5 DEF Contained
        <3>3. \A o \in Sets \cup Chains \cup Jumps : o \notin here
            BY <2>2, <2>5 DEF Roots
        <3> QED
            BY <2>5, <3>1, <3>2, <3>3 DEF Contained, Ours
    <2>6. CASE backend = "iptables-nft"
        <3>1. \A o \in AllBlocked : o \notin here
            BY <2>2, <2>3, <2>6, ElementsAre DEF Contained
        <3>2. \A o \in Chains \cup Jumps : o \notin here
            BY <2>2, <2>6 DEF Roots
        <3> QED
            BY <2>6, <3>1, <3>2 DEF Contained, Ours
    <2> QED
        BY <1>1, <2>5, <2>6 DEF IsIptables
<1>2. CASE backend = "nft"
    <2>1. NftFlush # <<>>
        BY DEF NftFlush
    <2>2. here = {}
        BY <1>2, <2>1 DEF OtherFlush
    <2> QED
        BY <2>2 DEF Ours
<1>3. CASE backend = "pf"
    <2>1. PfFlush # <<>>
        BY DEF PfFlush
    <2> QED
        BY <1>3, <2>1 DEF OtherFlush
<1>4. CASE backend = "ufw"
    <2>1. UfwFlush # <<>>
        BY DEF UfwFlush
    <2>2. DOMAIN doing = {}
        OBVIOUS
    <2>3. here = {}
        BY <1>4, <2>1, <2>2 DEF OtherFlush
    <2> QED
        BY <2>3 DEF Ours
<1> QED
    BY <1>0, <1>1, <1>2, <1>3, <1>4 DEF IsIptables

LEMMA FlushStep ==
    TypeOK /\ (~blind => Sound) /\ FlushRemovesAll /\ [Next]_vars => FlushRemovesAll'
<1> SUFFICES ASSUME TypeOK, ~blind => Sound, FlushRemovesAll, [Next]_vars,
                    call' = "none", last' = <<"flush", "ok">>, ~blind'
             PROVE  Ours' = {}
    BY DEF FlushRemovesAll
<1>1. UNCHANGED vars => Ours' = {}
    BY DEF FlushRemovesAll, vars, host, Ours
<1>2. ~(BeginInit \/ (\E a \in Addrs : BeginBlock(a)) \/ BeginFlush)
    BY DEF BeginInit, BeginBlock, BeginFlush, Begin
<1>3. ~Within
    BY Kept DEF Within, Enter, Probe, ListRules, RunCommand, TypeOK
<1>4. ~CommandFails
    BY DEF CommandFails, Return
<1>5. ASSUME ReturnNil PROVE Ours' = {}
    <2>1. call = "flush" /\ todo = <<>> /\ doing = <<>> /\ here' = here /\ ~blind
        BY <1>5 DEF ReturnNil, Return, host
    <2>2. Ours = {}
        BY <2>1, NothingLeft DEF Sound
    <2> QED
        BY <2>1, <2>2 DEF Ours
<1> QED
    BY <1>1, <1>2, <1>3, <1>4, <1>5 DEF Next, Within

\* The host accepts every command that an Init or a Flush runs.
LEMMA NeverRefused ==
    ASSUME TypeOK, Growing, Sound, ~blind, call \in {"init", "flush"}, doing # <<>>
    PROVE  Accepts(Head(doing)) \/ Head(doing) = ListTagged
<1> USE DEF Sound
<1>0. backend \in {"nft", "ipset", "iptables-nft", "ufw", "pf"}
    BY BackendAssumption DEF BackendAssumption, TypeOK
<1>1. CASE call = "init" /\ IsIptables
    <2>1. PICK o \in Required : doing = <<Add({o})>> /\ o \notin here /\ Needs(o) \subseteq here
        BY <1>1 DEF Growing, IptInit
    <2> QED
        BY <2>1, CommandFields DEF Accepts
<1>2. CASE call = "init" /\ backend = "nft"
    <2>1. /\ doing \in Seq({Add({o}) : o \in NftMade})
          /\ \A i \in DOMAIN doing : \A o \in doing[i].on : \A n \in Needs(o) :
                 n \in here \/ \E j \in 1..(i - 1) : n \in doing[j].on
        BY <1>2 DEF Growing, NftIniting
    <2>2. Head(doing) \in {Add({o}) : o \in NftMade} /\ Head(doing) = doing[1] /\ 1 \in DOMAIN doing
        BY <2>1, Unfold
    <2>3. \A o \in doing[1].on : Needs(o) \subseteq here
        BY <2>1, <2>2
    <2>4. Head(doing).do = "add"
        BY <2>2, CommandFields
    <2> QED
        BY <1>2, <2>2, <2>3, <2>4 DEF Accepts, IsIptables
<1>3. CASE call = "init" /\ backend = "pf"
    <2>1. doing \in {<<Query>>, <<Add({Enabled})>>, <<Add({Table, Drop("all")})>>}
        BY <1>3 DEF Growing, OtherInit
    <2>2. Head(doing) \in {Query, Add({Enabled}), Add({Table, Drop("all")})}
        BY <2>1
    <2>3. Needs(Enabled) = {} /\ Needs(Table) = {} /\ Needs(Drop("all")) = {}
        BY <1>3, Kinds DEF Needs
    <2> QED
        BY <1>3, <2>2, <2>3, CommandFields DEF Accepts, IsIptables
<1>4. ~(call = "init" /\ backend = "ufw")
    BY DEF Growing, OtherInit
<1>5. CASE call = "flush" /\ IsIptables
    <2>1. PICK o \in Roots : doing = Clearing(o) \/ doing = <<Delete(o)>>
        BY <1>5 DEF IptFlush
    <2>2. o \in here /\ (doing = <<Delete(o)>> => HeldBy(o) \cap here = {})
        BY <1>5, <2>1 DEF IptFlush
    <2>3. CASE doing = <<Delete(o)>>
        <3>1. Head(doing) = Delete(o)
            BY <2>3
        <3> QED
            BY <2>2, <2>3, <3>1, CommandFields DEF Accepts
    <2>4. CASE doing # <<Delete(o)>>
        <3>1. Head(doing) = Empty(o)
            BY <2>1, <2>4, ClearingIs
        <3> QED
            BY <2>2, <3>1, CommandFields DEF Accepts
    <2> QED
        BY <2>3, <2>4
<1>6. CASE call = "flush" /\ backend \in {"nft", "pf"}
    <2>1. HeldBy(Table) = {}
        BY Kinds DEF HeldBy
    <2>2. \/ Head(doing) = Delete(Table) /\ Table \in here
          \/ Head(doing) = Empty(Chain("all")) /\ backend = "pf"
        BY <1>6, OnePart DEF OtherFlush
    <2> QED
        BY <2>1, <2>2, CommandFields DEF Accepts
<1>7. CASE call = "flush" /\ backend = "ufw"
    <2>1. doing = <<ListTagged>> \/ doing \in Seq({Delete(o) : o \in here})
        BY <1>7 DEF OtherFlush
    <2>2. Head(doing) = ListTagged \/ Head(doing) \in {Delete(o) : o \in here}
        BY <2>1, OnePart, Unfold
    <2>3. ASSUME NEW o \in here PROVE HeldBy(o) = {}
        <3>1. o \in AllBlocked
            BY <1>7 DEF Contained
        <3>2. o[1] = "blocked"
            BY <3>1, Kinds DEF AllBlocked
        <3> QED
            BY <3>2 DEF HeldBy
    <2> QED
        BY <2>2, <2>3, CommandFields DEF Accepts
<1> QED
    BY <1>0, <1>1, <1>2, <1>3, <1>4, <1>5, <1>6, <1>7 DEF IsIptables

LEMMA StuckStep ==
    TypeOK /\ Growing /\ (~blind => Sound) /\ NeverStuck /\ [Next]_vars => NeverStuck'
<1> SUFFICES ASSUME TypeOK, Growing, ~blind => Sound, NeverStuck, [Next]_vars,
                    call' = "none", last' \in {<<"init", "error">>, <<"flush", "error">>}, ~blind'
             PROVE  disturbed'
    BY DEF NeverStuck
<1>1. UNCHANGED vars => disturbed'
    BY DEF NeverStuck, vars, host
<1>2. ~(BeginInit \/ (\E a \in Addrs : BeginBlock(a)) \/ BeginFlush)
    BY DEF BeginInit, BeginBlock, BeginFlush, Begin
<1>3. ~Within
    BY Kept DEF Within, Enter, Probe, ListRules, RunCommand, TypeOK
<1>4. ~ReturnNil
    BY DEF ReturnNil, Return
<1>5. ASSUME CommandFails PROVE disturbed'
    <2>1. /\ call \in {"init", "flush"} /\ doing # <<>> /\ ~blind
          /\ disturbed' = (disturbed \/ Accepts(Head(doing)) \/ Head(doing) = ListTagged)
        BY <1>5 DEF CommandFails, Return, host
    <2> QED
        BY <2>1, NeverRefused
<1> QED
    BY <1>1, <1>2, <1>3, <1>4, <1>5 DEF Next, Within

\* The invariant, in the parts that the lemmas use.
LEMMA InvParts == Inv <=> TypeOK /\ Growing /\ Promise /\ (~blind => Sound) /\ FlushRemovesAll /\ NeverStuck
    BY DEF Inv, Growing, Sound

LEMMA InvInit == Init => Inv
<1> SUFFICES ASSUME Init PROVE Inv
    OBVIOUS
<1>1. /\ call = "none" /\ todo = <<>> /\ doing = <<>> /\ twice = {} /\ last = <<"none", "ok">>
      /\ here \subseteq {Enabled} /\ (backend # "pf" => here = {})
    BY DEF Init
<1>3. Contained
    <2>1. Ours = {}
        BY <1>1 DEF Ours
    <2> QED
        BY <1>1, <2>1 DEF Contained
<1>4. IptFlush /\ OtherFlush
    BY <1>1 DEF IptFlush, OtherFlush
<1>5. FlushRemovesAll /\ NeverStuck
    BY <1>1 DEF FlushRemovesAll, NeverStuck
<1> QED
    BY <1>1, <1>3, <1>4, <1>5, GrowingInit, InvParts DEF Sound

LEMMA InvStep == Inv /\ [Next]_vars => Inv'
<1> SUFFICES ASSUME Inv, [Next]_vars PROVE Inv'
    OBVIOUS
<1>1. TypeOK /\ Growing /\ Promise /\ (~blind => Sound) /\ FlushRemovesAll /\ NeverStuck
    BY InvParts
<1>2. TypeOK' /\ Growing' /\ Promise'
    BY <1>1, GrowingStep
<1>3. ~blind' => Sound'
    <2>1. blind' = blind
        BY Kept DEF Next, Within, Returning, vars, host
    <2> QED
        BY <1>1, <2>1, SoundStep
<1>4. FlushRemovesAll' /\ NeverStuck'
    BY <1>1, FlushStep, StuckStep
<1>5. ~blind' => Contained' /\ IptFlush' /\ OtherFlush' /\ (call' # "none" => ~disturbed')
    BY <1>3 DEF Sound
<1> QED
    BY <1>2, <1>4, <1>5 DEF Inv, Growing

LEMMA Invariance == Spec => []Inv
    BY InvInit, InvStep, PTL DEF Spec

\* A Flush that returns nil has removed everything the backend ever added,
\* whatever earlier calls left half done, on a host where probes do not fail.
THEOREM FlushIsComplete == Spec => []FlushRemovesAll
<1>1. Inv => FlushRemovesAll
    BY DEF Inv
<1> QED
    BY <1>1, Invariance, PTL

\* An Init or a Flush in which no command fails on its own is never refused by
\* the host, whatever earlier calls left half done, where probes do not fail.
THEOREM CallsRecover == Spec => []NeverStuck
<1>1. Inv => NeverStuck
    BY DEF Inv
<1> QED
    BY <1>1, Invariance, PTL

\* Where probes do not fail, no iptables rule is ever there twice, and objects
\* are only there with the one that contains them: no call leaves one behind
\* that its Flush would not meet.
THEOREM NothingAstray == Spec => [](~blind => Contained)
<1>1. Inv => (~blind => Contained)
    BY DEF Inv
<1> QED
    BY <1>1, Invariance, PTL
=============================================================================
