--------------------------- MODULE Ingest_proofs ---------------------------
(***************************************************************************)
(* What concurrent, failing and repeated uploads leave in the tables, for   *)
(* every set of agents and addresses, every batch and every number of        *)
(* failures.  The argument goes along a handler's way through its batch:     *)
(* what it has behind it has rows, and the one location it holds but no      *)
(* address uses yet is the one it would leave behind.                        *)
(***************************************************************************)
EXTENDS Ingest, SequenceTheorems, FiniteSetTheorems, TLAPS

Busy == {"locating", "creating", "inserting"}

\* A handler that works on an address has one left; its request is one that the
\* agent still waits for; and it holds a location exactly before it inserts.
Handlers ==
    \A a \in Agents :
        /\ req[a].pc \in Busy => req[a].left # <<>>
        /\ req[a].pc # "idle" => a \in pending
        /\ req[a].pc = "inserting" <=> req[a].location # None
        /\ lost[a] <= errors

Rows == {x \in Addresses : Known(x)}

\* The addresses a handler has behind it have rows.
BehindHasRows ==
    \A a \in Agents :
        req[a].pc # "idle" => ToSet(Batch[a]) \subseteq Rows \cup ToSet(req[a].left)

\* A location that was made for an address has the flag of a list it was on.
HeldWasListed ==
    ~cityDB => \A a \in Agents :
        req[a].pc = "inserting" /\ locations[req[a].location].tor => Head(req[a].left) \in wasTor

Flags == torList \subseteq wasTor /\ TorWasListed /\ HeldWasListed

Inv ==
    /\ TypeOK /\ Handlers
    /\ DuplicatesAreRetries /\ IncidentsHaveRows /\ BehindHasRows
    /\ Flags
    /\ LeaksAreFailures

-----------------------------------------------------------------------------
(* What is left of a batch.                                                *)

LeftOf(a) == {SubSeq(Batch[a], i + 1, Len(Batch[a])) : i \in 0..Len(Batch[a])}

LEMMA BatchType ==
    ASSUME NEW a \in Agents
    PROVE  /\ Batch[a] \in Seq(Addresses) /\ Batch[a] \in LeftOf(a) /\ <<>> \in LeftOf(a)
           /\ ToSet(Batch[a]) \subseteq Addresses
<1>1. Batch[a] \in Seq(Addresses) /\ Len(Batch[a]) \in Nat
    BY IngestAssumption DEF IngestAssumption
<1>2. SubSeq(Batch[a], 0 + 1, Len(Batch[a])) = Batch[a]
    BY <1>1, SubSeqFull
<1>3. SubSeq(Batch[a], Len(Batch[a]) + 1, Len(Batch[a])) = <<>>
    BY <1>1, SubSeqEmpty
<1> QED
    BY <1>1, <1>2, <1>3 DEF LeftOf, ToSet

LEMMA LeftTail ==
    ASSUME NEW a \in Agents, NEW left \in LeftOf(a), left # <<>>
    PROVE  /\ left \in Seq(Addresses)
           /\ Head(left) \in Addresses
           /\ Tail(left) \in Seq(Addresses)
           /\ Tail(left) \in LeftOf(a)
           /\ ToSet(left) \subseteq {Head(left)} \cup ToSet(Tail(left))
<1>1. Batch[a] \in Seq(Addresses) /\ Len(Batch[a]) \in Nat
    BY BatchType
<1>2. PICK i \in 0..Len(Batch[a]) : left = SubSeq(Batch[a], i + 1, Len(Batch[a]))
    BY DEF LeftOf
<1>3. left \in Seq(Addresses)
    BY <1>1, <1>2
<1>4. i < Len(Batch[a])
    BY <1>1, <1>2, SubSeqEmpty
<1>5. Tail(left) = SubSeq(Batch[a], (i + 1) + 1, Len(Batch[a]))
    <2>1. i + 1 \in 1..Len(Batch[a]) /\ Len(Batch[a]) \in (i + 1)..Len(Batch[a])
        BY <1>1, <1>4
    <2> QED
        BY <1>1, <1>2, <2>1, HeadTailOfSubSeq
<1>6. Tail(left) \in LeftOf(a)
    <2>1. i + 1 \in 0..Len(Batch[a])
        BY <1>1, <1>4
    <2>2. \A j \in 0..Len(Batch[a]) : SubSeq(Batch[a], j + 1, Len(Batch[a])) \in LeftOf(a)
        BY DEF LeftOf
    <2> QED
        BY <1>5, <2>1, <2>2
<1>7. ToSet(left) \subseteq {Head(left)} \cup ToSet(Tail(left))
    <2> SUFFICES ASSUME NEW k \in 1..Len(left), k # 1
                 PROVE  left[k] \in ToSet(Tail(left))
        BY <1>3 DEF ToSet
    <2>1. k - 1 \in 1..Len(Tail(left)) /\ Tail(left)[k - 1] = left[k]
        BY <1>3, HeadTailProperties
    <2>2. DOMAIN Tail(left) = 1..Len(Tail(left))
        BY <1>3
    <2> QED
        BY <2>1, <2>2 DEF ToSet
<1> QED
    BY <1>3, <1>6, <1>7, HeadTailProperties

-----------------------------------------------------------------------------
(* Types.                                                                  *)

Requests == [pc : PCs, left : Seq(Addresses), location : 0..Len(locations)]
RequestsOK == req \in [Agents -> Requests] /\ \A a \in Agents : req[a].left \in LeftOf(a)
TablesOK ==
    /\ locations \in Seq([shared : BOOLEAN, tor : BOOLEAN])
    /\ ips \in [Addresses -> 0..Len(locations)]

LEMMA TypeParts == TypeOK => RequestsOK /\ TablesOK
    BY DEF TypeOK, RequestsOK, Requests, LeftOf, TablesOK

\* A handler's move keeps the requests' types, whatever is added to the locations.
LEMMA MoveType ==
    ASSUME RequestsOK, TablesOK, locations' \in Seq([shared : BOOLEAN, tor : BOOLEAN]),
           Len(locations) <= Len(locations'),
           NEW a \in Agents, NEW pc \in PCs, NEW left \in LeftOf(a), left \in Seq(Addresses),
           NEW location \in 0..Len(locations'), Goto(a, pc, left, location)
    PROVE  RequestsOK'
<1>1. 0..Len(locations) \subseteq 0..Len(locations')
    BY DEF TablesOK
<1>2. [pc |-> pc, left |-> left, location |-> location] \in Requests'
    BY DEF Requests
<1>3. Requests \subseteq Requests'
    BY <1>1 DEF Requests
<1>4. req' \in [Agents -> Requests']
    BY <1>2, <1>3 DEF RequestsOK, Goto
<1>5. \A b \in Agents : req'[b].left \in LeftOf(b)
    BY DEF RequestsOK, Goto
<1> QED
    BY <1>4, <1>5 DEF RequestsOK, LeftOf

LEMMA FinishIsMove ==
    ASSUME NEW a \in Agents, Finish(a)
    PROVE  Goto(a, "idle", <<>>, None)
    BY DEF Finish, Goto, NoReq

LEMMA EmptyLeft == \A a \in Agents : <<>> \in LeftOf(a) /\ <<>> \in Seq(Addresses)
    BY BatchType

LEMMA FinishType ==
    ASSUME RequestsOK, TablesOK, UNCHANGED locations, NEW a \in Agents, Finish(a)
    PROVE  RequestsOK'
<1>1. Len(locations) \in Nat /\ None \in 0..Len(locations)
    BY DEF TablesOK, None
<1>2. Goto(a, "idle", <<>>, None)
    BY FinishIsMove
<1>3. locations' \in Seq([shared : BOOLEAN, tor : BOOLEAN]) /\ Len(locations) <= Len(locations')
    BY <1>1 DEF TablesOK
<1>4. "idle" \in PCs /\ None \in 0..Len(locations') /\ <<>> \in LeftOf(a) /\ <<>> \in Seq(Addresses)
    BY <1>1, EmptyLeft DEF PCs
<1> QED
    BY <1>2, <1>3, <1>4, MoveType

-----------------------------------------------------------------------------
Status(a) == Arm(a) \/ Snapshot(a) \/ Record(a) \/ ReportLost(a)

LEMMA RequestStep ==
    ASSUME TypeOK, Handlers, [Next]_vars
    PROVE  RequestsOK' /\ TablesOK'
<1> USE DEF None
<1>0. RequestsOK /\ TablesOK /\ Len(locations) \in Nat
    BY TypeParts DEF TablesOK
<1>1. ASSUME NEW a \in Agents
      PROVE  /\ req[a] \in Requests /\ req[a].left \in LeftOf(a) /\ req[a].left \in Seq(Addresses)
             /\ 0 \in 0..Len(locations)
             /\ req[a].left # <<>> => /\ Head(req[a].left) \in Addresses
                                     /\ Tail(req[a].left) \in LeftOf(a) /\ Tail(req[a].left) \in Seq(Addresses)
    BY <1>0, LeftTail DEF RequestsOK, Requests
<1> DEFINE Types == locations' \in Seq([shared : BOOLEAN, tor : BOOLEAN]) /\ Len(locations) <= Len(locations')
<1>2. UNCHANGED locations => Types
    BY <1>0 DEF TablesOK
<1>3. UNCHANGED <<locations, ips>> => TablesOK'
    BY <1>0 DEF TablesOK
<1>4. ASSUME NEW a \in Agents, Post(a) PROVE RequestsOK' /\ TablesOK'
    <2>1. UNCHANGED <<locations, ips>> /\ Goto(a, "resolving", Batch[a], 0)
        BY <1>4 DEF Post, tables
    <2>2. "resolving" \in PCs /\ Batch[a] \in LeftOf(a) /\ Batch[a] \in Seq(Addresses) /\ 0 \in 0..Len(locations')
        BY <1>1, <2>1, BatchType DEF PCs
    <2> QED
        BY <1>0, <1>2, <1>3, <2>1, <2>2, MoveType
<1>5. ASSUME NEW a \in Agents, Find(a) PROVE RequestsOK' /\ TablesOK'
    <2>1. UNCHANGED <<locations, ips>> /\ Goto(a, "resolving", Tail(req[a].left), 0) /\ req[a].left # <<>>
        BY <1>5 DEF Find, tables
    <2>2. "resolving" \in PCs /\ 0 \in 0..Len(locations')
        BY <1>1, <2>1 DEF PCs
    <2> QED
        BY <1>0, <1>1, <1>2, <1>3, <2>1, <2>2, MoveType
<1>6. ASSUME NEW a \in Agents, Miss(a) PROVE RequestsOK' /\ TablesOK'
    <2>1. UNCHANGED <<locations, ips>>
        BY <1>6 DEF Miss, tables
    <2>2. PICK pc \in PCs : Goto(a, pc, req[a].left, 0)
        BY <1>6 DEF Miss, PCs
    <2>3. 0 \in 0..Len(locations')
        BY <1>1, <2>1
    <2> QED
        BY <1>0, <1>1, <1>2, <1>3, <2>1, <2>2, <2>3, MoveType
<1>7. ASSUME NEW a \in Agents, FindLocation(a) PROVE RequestsOK' /\ TablesOK'
    <2>1. UNCHANGED <<locations, ips>>
        BY <1>7 DEF FindLocation, tables
    <2>2. Shared \subseteq 0..Len(locations')
        BY <1>0, <2>1 DEF Shared, TablesOK
    <2>3. \E pc \in PCs, location \in 0..Len(locations') : Goto(a, pc, req[a].left, location)
        BY <1>1, <1>7, <2>1, <2>2 DEF FindLocation, PCs
    <2> QED
        BY <1>0, <1>1, <1>2, <1>3, <2>1, <2>3, MoveType
<1>8. ASSUME NEW a \in Agents, CreateLocation(a) PROVE RequestsOK' /\ TablesOK'
    <2>1. /\ locations' = Append(locations, Enriched(Head(req[a].left)))
          /\ Goto(a, "inserting", req[a].left, Len(locations) + 1) /\ UNCHANGED ips
        BY <1>8 DEF CreateLocation
    <2>2. Enriched(Head(req[a].left)) \in [shared : BOOLEAN, tor : BOOLEAN]
        BY DEF Enriched, TypeOK
    <2>3. Types /\ Len(locations') = Len(locations) + 1
        BY <1>0, <2>1, <2>2 DEF TablesOK
    <2>4. "inserting" \in PCs /\ Len(locations) + 1 \in 0..Len(locations')
        BY <1>0, <2>3 DEF PCs
    <2>5. RequestsOK'
        BY <1>0, <1>1, <2>1, <2>3, <2>4, MoveType
    <2>6. TablesOK'
        BY <1>0, <2>1, <2>3 DEF TablesOK
    <2> QED
        BY <2>5, <2>6
<1>9. ASSUME NEW a \in Agents, Insert(a) PROVE RequestsOK' /\ TablesOK'
    <2>1. /\ UNCHANGED locations /\ Goto(a, "resolving", Tail(req[a].left), 0)
          /\ ips' = [ips EXCEPT ![Head(req[a].left)] = req[a].location] /\ req[a].left # <<>>
        BY <1>9 DEF Insert, Handlers, Busy
    <2>2. TablesOK'
        BY <1>0, <1>1, <2>1 DEF TablesOK, Requests
    <2>3. "resolving" \in PCs /\ 0 \in 0..Len(locations')
        BY <1>1, <2>1 DEF PCs
    <2> QED
        BY <1>0, <1>1, <1>2, <2>1, <2>2, <2>3, MoveType
<1>10. ASSUME NEW a \in Agents, Conflict(a) \/ Fails(a) \/ Reply(a) \/ LoseReply(a)
       PROVE  RequestsOK' /\ TablesOK'
    <2>1. UNCHANGED <<locations, ips>> /\ Finish(a)
        BY <1>10 DEF Conflict, Fails, Reply, LoseReply, tables
    <2> QED
        BY <1>0, <1>3, <2>1, FinishType
<1>11. ASSUME NEW a \in Agents, Store(a) PROVE RequestsOK' /\ TablesOK'
    <2>1. UNCHANGED <<locations, ips>> /\ Goto(a, "replying", <<>>, 0)
        BY <1>11 DEF Store
    <2>2. "replying" \in PCs /\ 0 \in 0..Len(locations')
        BY <1>1, <2>1 DEF PCs
    <2> QED
        BY <1>0, <1>2, <1>3, <2>1, <2>2, EmptyLeft, MoveType
<1>12. ASSUME UNCHANGED <<req, locations, ips>> PROVE RequestsOK' /\ TablesOK'
    BY <1>0, <1>12 DEF RequestsOK, Requests, TablesOK
<1>13. (\E a \in Agents : Delete(a)) \/ (\E a \in Reporters : Status(a)) \/ UpdateTor \/ UNCHANGED vars
        => UNCHANGED <<req, locations, ips>>
    BY DEF Delete, Status, Arm, Snapshot, Record, ReportLost, UpdateTor, vars, tables
<1> QED
    BY <1>4, <1>5, <1>6, <1>7, <1>8, <1>9, <1>10, <1>11, <1>12, <1>13 DEF Next, Handler, Status

LEMMA TypeStep ==
    ASSUME TypeOK, Handlers, DuplicatesAreRetries, [Next]_vars
    PROVE  TypeOK'
<1> USE IngestAssumption DEF IngestAssumption
<1> DEFINE Counts == incidents \in [Agents -> [Addresses -> 0..(MaxFailures + 1)]]
           Bounds == failed \in Nat /\ errors \in 0..MaxFailures /\ lost \in [Agents -> 0..MaxFailures]
           Sets == /\ cityDB \in BOOLEAN /\ collectors \subseteq Agents /\ pending \subseteq Agents
                   /\ torList \subseteq Addresses /\ wasTor \subseteq Addresses
           Firewall == /\ fw \in [Reporters -> BOOLEAN] /\ row \in [Reporters -> BOOLEAN]
                       /\ report \in [Reporters -> {"none", "observing", "enforcing"}]
                       /\ changes \in 0..MaxChanges
<1>1. Counts /\ Bounds /\ Sets /\ Firewall
    BY DEF TypeOK
<1>2. Counts'
    <2>1. ASSUME NEW a \in Agents, Store(a) PROVE Counts'
        <3>1. \A x \in Addresses : incidents[a][x] <= MaxFailures
            <4>1. a \in pending /\ req[a].pc # "replying"
                BY <2>1 DEF Store, Handlers
            <4>2. \A x \in Addresses : incidents[a][x] <= lost[a] + 0
                BY <4>1 DEF DuplicatesAreRetries
            <4> QED
                BY <1>1, <4>2
        <3>2. \A x \in Addresses : incidents[a][x] + 1 \in 0..(MaxFailures + 1)
                                  /\ incidents[a][x] + 0 \in 0..(MaxFailures + 1)
            BY <1>1, <3>1
        <3> QED
            BY <1>1, <2>1, <3>2 DEF Store, Stored
    <2>2. (\A a \in Agents : ~Store(a)) => UNCHANGED incidents
        BY DEF Next, Handler, vars, tables, Post, Find, Miss, FindLocation, CreateLocation, Insert,
               Conflict, Fails, Reply, LoseReply, Delete, Arm, Snapshot, Record, ReportLost, UpdateTor
    <2> QED
        BY <1>1, <2>1, <2>2
<1>3. Bounds'
    <2>1. ASSUME NEW a \in Agents, LoseReply(a) PROVE Bounds'
        <3>1. lost[a] + 1 \in 0..MaxFailures
            BY <1>1, <2>1 DEF LoseReply, Handlers
        <3> QED
            BY <1>1, <2>1, <3>1 DEF LoseReply
    <2>2. ASSUME NEW a \in Agents, Fails(a) PROVE Bounds'
        BY <1>1, <2>2 DEF Fails
    <2>3. ASSUME NEW a \in Agents, Conflict(a) PROVE Bounds'
        BY <1>1, <2>3 DEF Conflict
    <2>4. (\A a \in Agents : ~LoseReply(a) /\ ~Fails(a) /\ ~Conflict(a)) => UNCHANGED <<failed, errors, lost>>
        BY DEF Next, Handler, vars, tables, Post, Find, Miss, FindLocation, CreateLocation, Insert,
               Store, Reply, Delete, Arm, Snapshot, Record, ReportLost, UpdateTor
    <2> QED
        BY <1>1, <2>1, <2>2, <2>3, <2>4
<1>4. Sets'
    BY <1>1 DEF Next, Handler, vars, tables, Post, Find, Miss, FindLocation, CreateLocation, Insert,
           Conflict, Store, Fails, Reply, LoseReply, Delete, Arm, Snapshot, Record, ReportLost, UpdateTor
<1>5. Firewall'
    <2>1. ASSUME NEW a \in Reporters, Arm(a) PROVE Firewall'
        BY <1>1, <2>1 DEF Arm
    <2>2. ASSUME NEW a \in Reporters, Snapshot(a) \/ ReportLost(a) PROVE Firewall'
        BY <1>1, <2>2 DEF Snapshot, ReportLost
    <2>3. ASSUME NEW a \in Reporters, Record(a) PROVE Firewall'
        <3>1. Valid(a) \in BOOLEAN
            BY DEF Valid
        <3> QED
            BY <1>1, <2>3, <3>1 DEF Record
    <2>4. ASSUME UpdateTor PROVE Firewall'
        BY <1>1, <2>4 DEF UpdateTor, firewall
    <2>5. (\A a \in Reporters : ~Status(a)) /\ ~UpdateTor => UNCHANGED <<fw, row, report, changes>>
        BY DEF Next, Handler, Status, vars, firewall, Post, Find, Miss, FindLocation, CreateLocation, Insert,
               Conflict, Store, Fails, Reply, LoseReply, Delete
    <2> QED
        BY <1>1, <2>1, <2>2, <2>3, <2>4, <2>5 DEF Status
<1> QED
    BY <1>2, <1>3, <1>4, <1>5, RequestStep DEF TypeOK, RequestsOK, Requests, LeftOf, TablesOK

-----------------------------------------------------------------------------
(* Handlers and duplicates.                                                *)

LEMMA MoveHandlers ==
    ASSUME RequestsOK, Handlers, UNCHANGED <<pending, lost, errors>>,
           NEW a \in Agents, NEW pc, NEW left, NEW location, Goto(a, pc, left, location),
           pc \in Busy => left # <<>>, pc # "idle" => a \in pending, pc = "inserting" <=> location # None
    PROVE  Handlers'
    BY DEF Handlers, RequestsOK, Goto

LEMMA HandlersStep ==
    ASSUME TypeOK, Handlers, [Next]_vars
    PROVE  Handlers'
<1> USE DEF None
<1>0. RequestsOK /\ TablesOK /\ Len(locations) \in Nat
    BY TypeParts DEF TablesOK
<1>1. ASSUME NEW a \in Agents, Post(a) PROVE Handlers'
    BY <1>0, <1>1, MoveHandlers DEF Post, Busy
<1>2. ASSUME NEW a \in Agents, Find(a) PROVE Handlers'
    BY <1>0, <1>2, MoveHandlers DEF Find, Busy, Handlers
<1>3. ASSUME NEW a \in Agents, Miss(a) PROVE Handlers'
    <2>1. PICK pc \in {"locating", "creating"} : Goto(a, pc, req[a].left, 0)
        BY <1>3 DEF Miss
    <2> QED
        BY <1>0, <1>3, <2>1, MoveHandlers DEF Miss, Busy, Handlers
<1>4. ASSUME NEW a \in Agents, FindLocation(a) PROVE Handlers'
    <2>1. 0 \notin Shared
        BY <1>0 DEF Shared, TablesOK
    <2>2. req[a].left # <<>> /\ a \in pending /\ UNCHANGED <<pending, lost, errors>>
        BY <1>4 DEF FindLocation, Handlers, Busy
    <2>3. CASE Goto(a, "creating", req[a].left, 0)
        BY <1>0, <2>2, <2>3, MoveHandlers DEF Busy
    <2>4. ASSUME NEW i \in Shared, Goto(a, "inserting", req[a].left, i) PROVE Handlers'
        BY <1>0, <2>1, <2>2, <2>4, MoveHandlers DEF Busy
    <2> QED
        BY <1>4, <2>3, <2>4 DEF FindLocation
<1>5. ASSUME NEW a \in Agents, CreateLocation(a) PROVE Handlers'
    <2>1. Len(locations) + 1 # 0
        BY <1>0
    <2> QED
        BY <1>0, <1>5, <2>1, MoveHandlers DEF CreateLocation, Busy, Handlers
<1>6. ASSUME NEW a \in Agents, Insert(a) PROVE Handlers'
    BY <1>0, <1>6, MoveHandlers DEF Insert, Busy, Handlers
<1>7. ASSUME NEW a \in Agents, Store(a) PROVE Handlers'
    BY <1>0, <1>7, MoveHandlers DEF Store, Busy, Handlers
<1>8. ASSUME NEW a \in Agents, Conflict(a) PROVE Handlers'
    BY <1>0, <1>8, FinishIsMove, MoveHandlers DEF Conflict, Busy
<1>9. ASSUME NEW a \in Agents, Fails(a) PROVE Handlers'
    BY <1>0, <1>9 DEF Fails, TypeOK, Handlers, RequestsOK, Finish, NoReq, Busy
<1>10. ASSUME NEW a \in Agents, Reply(a) PROVE Handlers'
    BY <1>0, <1>10 DEF Reply, Handlers, RequestsOK, Finish, NoReq, Busy
<1>11. ASSUME NEW a \in Agents, LoseReply(a) PROVE Handlers'
    BY <1>0, <1>11 DEF LoseReply, TypeOK, Handlers, RequestsOK, Finish, NoReq, Busy
<1>12. UNCHANGED <<req, pending, lost, errors>> => Handlers'
    BY DEF Handlers
<1> QED
    BY <1>1, <1>2, <1>3, <1>4, <1>5, <1>6, <1>7, <1>8, <1>9, <1>10, <1>11, <1>12
    DEF Next, Handler, vars, Delete, Arm, Snapshot, Record, ReportLost, UpdateTor

LEMMA DuplicatesStep ==
    ASSUME TypeOK, Handlers, DuplicatesAreRetries, [Next]_vars
    PROVE  DuplicatesAreRetries'
<1> USE DEF DuplicatesAreRetries
<1>0. /\ RequestsOK
      /\ incidents \in [Agents -> [Addresses -> Int]] /\ lost \in [Agents -> Int]
    BY IngestAssumption, TypeParts DEF TypeOK, IngestAssumption
<1> USE <1>0 DEF RequestsOK, Requests, Goto, Finish, NoReq
<1>1. ASSUME NEW a \in Agents, Store(a) PROVE DuplicatesAreRetries'
    <2>1. a \in pending /\ pending' = pending /\ lost' = lost /\ req[a].pc = "resolving"
        BY <1>1 DEF Store, Handlers
    <2>2. \A x \in Addresses : incidents[a][x] <= lost[a] + 0
        BY <2>1
    <2>3. ASSUME NEW x \in Addresses PROVE incidents'[a][x] <= lost[a] + 1
        <3>1. incidents'[a][x] \in {incidents[a][x] + 1, incidents[a][x] + 0}
            BY <1>1 DEF Store, Stored
        <3>2. incidents[a][x] \in Int /\ lost[a] \in Int
            BY <1>0
        <3> QED
            BY <2>2, <3>1, <3>2
    <2>4. /\ \A b \in Agents \ {a} : incidents'[b] = incidents[b] /\ req'[b] = req[b]
          /\ req'[a].pc = "replying"
        BY <1>1 DEF Store, Stored
    <2> QED
        BY <2>1, <2>3, <2>4
<1>2. ASSUME NEW a \in Agents, Reply(a) PROVE DuplicatesAreRetries'
    BY <1>2 DEF Reply, tables
<1>3. ASSUME NEW a \in Agents, LoseReply(a) PROVE DuplicatesAreRetries'
    BY <1>3 DEF LoseReply, tables
<1> DEFINE Kept == /\ UNCHANGED <<incidents, lost, pending>>
                   /\ \A a \in Agents : req[a].pc = "replying" => req'[a].pc = "replying"
<1>4. ASSUME \A a \in Agents : ~Store(a) /\ ~Reply(a) /\ ~LoseReply(a) PROVE Kept
    <2>1. ASSUME NEW a \in Agents, Post(a) \/ Find(a) \/ Miss(a) \/ CreateLocation(a) \/ Insert(a)
          PROVE  Kept
        BY <2>1 DEF Post, Find, Miss, CreateLocation, Insert, tables
    <2>2. ASSUME NEW a \in Agents, FindLocation(a) PROVE Kept
        BY <2>2 DEF FindLocation, tables
    <2>3. ASSUME NEW a \in Agents, Conflict(a) \/ Fails(a) PROVE Kept
        BY <2>3 DEF Conflict, Fails, tables
    <2> QED
        BY <1>4, <2>1, <2>2, <2>3
        DEF Next, Handler, vars, tables, Delete, Arm, Snapshot, Record, ReportLost, UpdateTor
<1>5. Kept => DuplicatesAreRetries'
    OBVIOUS
<1> QED
    BY <1>1, <1>2, <1>3, <1>4, <1>5

-----------------------------------------------------------------------------
(* Rows.                                                                   *)

\* No row is removed, and the address that a handler inserts gets one.
LEMMA RowsStay ==
    ASSUME TypeOK, Handlers, [Next]_vars
    PROVE  /\ Rows \subseteq Rows'
           /\ \A a \in Agents : Insert(a) => Head(req[a].left) \in Rows'
<1>0. RequestsOK /\ TablesOK
    BY TypeParts
<1>1. ASSUME NEW a \in Agents, Insert(a) PROVE Rows \subseteq Rows' /\ Head(req[a].left) \in Rows'
    <2>1. req[a].location # None /\ Head(req[a].left) \in Addresses
        BY <1>0, <1>1, LeftTail DEF Insert, Handlers, Busy, RequestsOK
    <2> QED
        BY <1>0, <1>1, <2>1 DEF Insert, Rows, Known, TablesOK
<1>2. (\A a \in Agents : ~Insert(a)) => UNCHANGED ips
    BY DEF Next, Handler, vars, tables, Post, Find, Miss, FindLocation, CreateLocation,
           Conflict, Store, Fails, Reply, LoseReply, Delete, Arm, Snapshot, Record, ReportLost, UpdateTor
<1>3. UNCHANGED ips => Rows' = Rows
    BY DEF Rows, Known
<1> QED
    BY <1>1, <1>2, <1>3

LEMMA MoveBehind ==
    ASSUME RequestsOK, BehindHasRows, Rows \subseteq Rows',
           NEW a \in Agents, NEW pc, NEW left, NEW location, Goto(a, pc, left, location),
           pc # "idle" => ToSet(Batch[a]) \subseteq Rows' \cup ToSet(left)
    PROVE  BehindHasRows'
    BY DEF BehindHasRows, RequestsOK, Goto

LEMMA BehindStep ==
    ASSUME TypeOK, Handlers, BehindHasRows, [Next]_vars
    PROVE  BehindHasRows'
<1>0. RequestsOK /\ TablesOK /\ Rows \subseteq Rows'
    BY TypeParts, RowsStay
<1>1. ASSUME NEW a \in Agents, req[a].left # <<>>
      PROVE  ToSet(req[a].left) \subseteq {Head(req[a].left)} \cup ToSet(Tail(req[a].left))
    BY <1>0, <1>1, LeftTail DEF RequestsOK
<1>2. ASSUME NEW a \in Agents, Post(a) PROVE BehindHasRows'
    BY <1>0, <1>2, MoveBehind DEF Post
<1>3. ASSUME NEW a \in Agents, Find(a) PROVE BehindHasRows'
    <2>1. Head(req[a].left) \in Rows /\ req[a].left # <<>>
        BY <1>0, <1>3, LeftTail DEF Find, Rows, RequestsOK
    <2>2. ToSet(Batch[a]) \subseteq Rows \cup ToSet(req[a].left)
        BY <1>3 DEF Find, BehindHasRows
    <2>3. ToSet(Batch[a]) \subseteq Rows' \cup ToSet(Tail(req[a].left))
        BY <1>0, <1>1, <2>1, <2>2
    <2> QED
        BY <1>0, <1>3, <2>3, MoveBehind DEF Find
<1>4. ASSUME NEW a \in Agents, Miss(a) PROVE BehindHasRows'
    BY <1>0, <1>4, MoveBehind DEF Miss, BehindHasRows
<1>5. ASSUME NEW a \in Agents, FindLocation(a) PROVE BehindHasRows'
    <2>1. \E pc, location : Goto(a, pc, req[a].left, location)
        BY <1>5 DEF FindLocation
    <2>2. ToSet(Batch[a]) \subseteq Rows \cup ToSet(req[a].left)
        BY <1>5 DEF FindLocation, BehindHasRows
    <2> QED
        BY <1>0, <2>1, <2>2, MoveBehind
<1>6. ASSUME NEW a \in Agents, CreateLocation(a) PROVE BehindHasRows'
    BY <1>0, <1>6, MoveBehind DEF CreateLocation, BehindHasRows
<1>7. ASSUME NEW a \in Agents, Insert(a) PROVE BehindHasRows'
    <2>1. ToSet(Batch[a]) \subseteq Rows \cup ToSet(req[a].left) /\ req[a].left # <<>>
        BY <1>7 DEF Insert, BehindHasRows, Handlers, Busy
    <2>2. ToSet(Batch[a]) \subseteq Rows' \cup ToSet(Tail(req[a].left))
        BY <1>0, <1>1, <1>7, <2>1, RowsStay
    <2> QED
        BY <1>0, <1>7, <2>2, MoveBehind DEF Insert
<1>8. ASSUME NEW a \in Agents, Conflict(a) \/ Fails(a) \/ Reply(a) \/ LoseReply(a) PROVE BehindHasRows'
    <2>1. Finish(a)
        BY <1>8 DEF Conflict, Fails, Reply, LoseReply
    <2> QED
        BY <1>0, <2>1, FinishIsMove, MoveBehind
<1>9. ASSUME NEW a \in Agents, Store(a) PROVE BehindHasRows'
    BY <1>0, <1>9, MoveBehind DEF Store, BehindHasRows
<1>10. UNCHANGED req => BehindHasRows'
    BY <1>0 DEF BehindHasRows
<1> QED
    BY <1>2, <1>3, <1>4, <1>5, <1>6, <1>7, <1>8, <1>9, <1>10
    DEF Next, Handler, vars, Delete, Arm, Snapshot, Record, ReportLost, UpdateTor

LEMMA IncidentsStep ==
    ASSUME TypeOK, Handlers, BehindHasRows, IncidentsHaveRows, [Next]_vars
    PROVE  IncidentsHaveRows'
<1>0. Rows \subseteq Rows' /\ incidents \in [Agents -> [Addresses -> Int]]
    BY RowsStay, IngestAssumption DEF TypeOK, IngestAssumption
<1>1. ASSUME NEW a \in Agents, Store(a) PROVE IncidentsHaveRows'
    <2>1. ToSet(Batch[a]) \subseteq Rows
        BY <1>1 DEF Store, BehindHasRows, ToSet
    <2>2. ASSUME NEW x \in Addresses, x \notin ToSet(Batch[a]) PROVE incidents'[a][x] = incidents[a][x]
        BY <1>0, <1>1, <2>2 DEF Store, Stored
    <2>3. \A b \in Agents \ {a} : incidents'[b] = incidents[b]
        BY <1>0, <1>1 DEF Store, Stored
    <2> QED
        BY <1>0, <2>1, <2>2, <2>3 DEF IncidentsHaveRows, Rows
<1>2. (\A a \in Agents : ~Store(a)) => UNCHANGED incidents
    BY DEF Next, Handler, vars, tables, Post, Find, Miss, FindLocation, CreateLocation, Insert,
           Conflict, Fails, Reply, LoseReply, Delete, Arm, Snapshot, Record, ReportLost, UpdateTor
<1>3. UNCHANGED incidents => IncidentsHaveRows'
    BY <1>0 DEF IncidentsHaveRows, Rows
<1> QED
    BY <1>1, <1>2, <1>3

-----------------------------------------------------------------------------
(* The Tor flag.                                                           *)

LEMMA ListStep ==
    ASSUME torList \subseteq wasTor, [Next]_vars
    PROVE  torList' \subseteq wasTor' /\ wasTor \subseteq wasTor' /\ cityDB' = cityDB
    BY DEF Next, Handler, vars, Post, Find, Miss, FindLocation, CreateLocation, Insert, Conflict, Store,
           Fails, Reply, LoseReply, Delete, Arm, Snapshot, Record, ReportLost, UpdateTor

LEMMA FlagsStep ==
    ASSUME TypeOK, Handlers, Flags, [Next]_vars
    PROVE  Flags'
<1> USE DEF None
<1>0. /\ RequestsOK /\ TablesOK /\ Len(locations) \in Nat
      /\ torList' \subseteq wasTor' /\ wasTor \subseteq wasTor' /\ cityDB' = cityDB
    BY TypeParts, ListStep DEF Flags, TablesOK
<1>1. SUFFICES ASSUME ~cityDB PROVE TorWasListed' /\ HeldWasListed'
    BY <1>0 DEF Flags, TorWasListed, HeldWasListed
<1>2. ASSUME NEW x \in Addresses, ips[x] # 0, locations[ips[x]].tor PROVE x \in wasTor
    BY <1>1, <1>2 DEF Flags, TorWasListed
<1>3. ASSUME NEW a \in Agents, req[a].pc = "inserting", locations[req[a].location].tor
      PROVE  Head(req[a].left) \in wasTor
    BY <1>1, <1>3 DEF Flags, HeldWasListed
<1>4. ASSUME NEW a \in Agents, CreateLocation(a) PROVE TorWasListed' /\ HeldWasListed'
    <2>1. /\ locations' = Append(locations, Enriched(Head(req[a].left)))
          /\ req' = [req EXCEPT ![a] = [pc |-> "inserting", left |-> req[a].left, location |-> Len(locations) + 1]]
          /\ UNCHANGED <<ips, torList, wasTor>>
        BY <1>4 DEF CreateLocation, Goto
    <2>2. /\ \A i \in 1..Len(locations) : locations'[i] = locations[i]
          /\ locations'[Len(locations) + 1] = Enriched(Head(req[a].left))
        BY <1>0, <2>1 DEF TablesOK
    <2>3. TorWasListed'
        <3> SUFFICES ASSUME NEW x \in Addresses, ips[x] # 0, locations'[ips[x]].tor PROVE x \in wasTor
            BY <2>1 DEF TorWasListed
        <3>1. ips[x] \in 1..Len(locations)
            BY <1>0 DEF TablesOK
        <3> QED
            BY <1>2, <2>2, <3>1
    <2>4. HeldWasListed'
        <3> SUFFICES ASSUME NEW b \in Agents, req'[b].pc = "inserting", locations'[req'[b].location].tor
                     PROVE  Head(req'[b].left) \in wasTor
            BY <2>1 DEF HeldWasListed
        <3>1. CASE b = a
            <4>1. req'[a].location = Len(locations) + 1 /\ req'[a].left = req[a].left
                BY <1>0, <2>1 DEF RequestsOK
            <4>2. Enriched(Head(req[a].left)).tor
                BY <2>2, <3>1, <4>1
            <4>3. Head(req[a].left) \in torList
                BY <4>2 DEF Enriched
            <4> QED
                BY <3>1, <4>1, <4>3 DEF Flags
        <3>2. CASE b # a
            <4>1. req'[b] = req[b] /\ req[b].location \in 1..Len(locations)
                BY <1>0, <2>1, <3>2 DEF RequestsOK, Requests, Handlers
            <4> QED
                BY <1>3, <2>2, <4>1
        <3> QED
            BY <3>1, <3>2
    <2> QED
        BY <2>3, <2>4
<1>5. ASSUME NEW a \in Agents, Insert(a) PROVE TorWasListed' /\ HeldWasListed'
    <2>1. /\ req[a].pc = "inserting" /\ UNCHANGED <<locations, torList, wasTor>>
          /\ ips' = [ips EXCEPT ![Head(req[a].left)] = req[a].location]
          /\ req' = [req EXCEPT ![a] = [pc |-> "resolving", left |-> Tail(req[a].left), location |-> 0]]
        BY <1>5 DEF Insert, Goto
    <2>2. TorWasListed'
        BY <1>0, <1>2, <1>3, <2>1 DEF TorWasListed, TablesOK
    <2>3. HeldWasListed'
        BY <1>0, <1>3, <2>1 DEF HeldWasListed, RequestsOK
    <2> QED
        BY <2>2, <2>3
<1>6. ASSUME UNCHANGED <<locations, ips>>,
             \A a \in Agents : req'[a].pc = "inserting" => req'[a] = req[a]
      PROVE  TorWasListed' /\ HeldWasListed'
    BY <1>0, <1>2, <1>3, <1>6 DEF TorWasListed, HeldWasListed
<1>7. ASSUME NEW a \in Agents, FindLocation(a) PROVE TorWasListed' /\ HeldWasListed'
    <2>1. Shared = {}
        BY <1>1 DEF Shared
    <2> QED
        BY <1>0, <1>6, <1>7, <2>1 DEF FindLocation, Goto, tables, RequestsOK
<1>8. ASSUME NEW a \in Agents, Post(a) \/ Find(a) \/ Store(a) PROVE TorWasListed' /\ HeldWasListed'
    BY <1>0, <1>6, <1>8 DEF Post, Find, Store, Goto, tables, RequestsOK
<1>9. ASSUME NEW a \in Agents, Miss(a) PROVE TorWasListed' /\ HeldWasListed'
    BY <1>0, <1>1, <1>6, <1>9 DEF Miss, Goto, tables, RequestsOK
<1>10. ASSUME NEW a \in Agents, Conflict(a) \/ Fails(a) \/ Reply(a) \/ LoseReply(a)
       PROVE  TorWasListed' /\ HeldWasListed'
    BY <1>0, <1>6, <1>10 DEF Conflict, Fails, Reply, LoseReply, Finish, NoReq, tables, RequestsOK
<1>11. UNCHANGED <<req, locations, ips>> => TorWasListed' /\ HeldWasListed'
    BY <1>6
<1> QED
    BY <1>4, <1>5, <1>7, <1>8, <1>9, <1>10, <1>11
    DEF Next, Handler, vars, tables, Delete, Arm, Snapshot, Record, ReportLost, UpdateTor

-----------------------------------------------------------------------------
(* Locations that no address uses.                                         *)

Used == {ips[x] : x \in Addresses} \cup {req[a].location : a \in Agents}

LEMMA OrphansFinite ==
    ASSUME TypeOK
    PROVE  IsFiniteSet(Orphans) /\ Cardinality(Orphans) \in Nat
<1>1. DOMAIN locations = 1..Len(locations) /\ Len(locations) \in Nat
    BY DEF TypeOK
<1>2. IsFiniteSet(DOMAIN locations) /\ Orphans \in SUBSET (DOMAIN locations)
    BY <1>1, FS_Interval DEF Orphans
<1>3. IsFiniteSet(Orphans)
    BY <1>2, FS_Subset
<1> QED
    BY <1>3, FS_CardinalityType

\* Fewer locations are in nobody's use if nobody lets go of one.
LEMMA NoNewOrphan ==
    ASSUME TypeOK, LeaksAreFailures, Orphans' \subseteq Orphans, failed' = failed
    PROVE  LeaksAreFailures'
<1>1. IsFiniteSet(Orphans) /\ Cardinality(Orphans) \in Nat /\ failed \in Nat
    BY OrphansFinite DEF TypeOK
<1>2. IsFiniteSet(Orphans') /\ Cardinality(Orphans') <= Cardinality(Orphans)
    BY <1>1, FS_Subset
<1>3. Cardinality(Orphans') \in Nat
    BY <1>2, FS_CardinalityType
<1> QED
    BY <1>1, <1>2, <1>3 DEF LeaksAreFailures

LEMMA OneNewOrphan ==
    ASSUME TypeOK, LeaksAreFailures, NEW i, Orphans' \subseteq Orphans \cup {i}, failed' = failed + 1
    PROVE  LeaksAreFailures'
<1> DEFINE More == Orphans \cup {i}
<1>1. IsFiniteSet(Orphans) /\ Cardinality(Orphans) \in Nat /\ failed \in Nat
    BY OrphansFinite DEF TypeOK
<1>2. IsFiniteSet(More) /\ Cardinality(More) <= Cardinality(Orphans) + 1
    BY <1>1, FS_AddElement
<1>3. IsFiniteSet(Orphans') /\ Cardinality(Orphans') <= Cardinality(More)
    <2> HIDE DEF More
    <2>1. Orphans' \in SUBSET More
        BY DEF More
    <2> QED
        BY <1>2, <2>1, FS_Subset
<1>4. Cardinality(More) \in Nat /\ Cardinality(Orphans') \in Nat
    BY <1>2, <1>3, FS_CardinalityType
<1> QED
    BY <1>1, <1>2, <1>3, <1>4 DEF LeaksAreFailures

LEMMA LeaksStep ==
    ASSUME TypeOK, Handlers, LeaksAreFailures, [Next]_vars
    PROVE  LeaksAreFailures'
<1> USE DEF None
<1>0. RequestsOK /\ TablesOK /\ Len(locations) \in Nat /\ 0 \notin DOMAIN locations
    BY TypeParts DEF TablesOK
<1>1. ASSUME NEW a \in Agents, CreateLocation(a) PROVE LeaksAreFailures'
    <2>1. /\ req' = [req EXCEPT ![a] = [pc |-> "inserting", left |-> req[a].left, location |-> Len(locations) + 1]]
          /\ req[a].location = 0 /\ UNCHANGED <<ips, failed>>
        BY <1>1 DEF CreateLocation, Goto, Handlers
    <2>2. DOMAIN locations' = (DOMAIN locations) \cup {Len(locations) + 1}
        <3>1. Enriched(Head(req[a].left)) \in [shared : BOOLEAN, tor : BOOLEAN]
            BY DEF Enriched, TypeOK
        <3> QED
            BY <1>0, <1>1, <3>1 DEF CreateLocation, TablesOK
    <2>3. (Used \ {0}) \cup {Len(locations) + 1} \subseteq Used'
        BY <1>0, <2>1 DEF Used, RequestsOK
    <2>4. Orphans' \subseteq Orphans
        BY <1>0, <2>2, <2>3 DEF Orphans, Used
    <2> QED
        BY <2>1, <2>4, NoNewOrphan
<1>2. ASSUME NEW a \in Agents, FindLocation(a) PROVE LeaksAreFailures'
    <2>1. req[a].location = 0 /\ UNCHANGED <<locations, ips, failed>>
        BY <1>2 DEF FindLocation, Handlers, tables
    <2>2. Used \ {0} \subseteq Used'
        BY <1>0, <1>2, <2>1 DEF Used, RequestsOK, FindLocation, Goto
    <2>3. Orphans' \subseteq Orphans
        BY <1>0, <2>1, <2>2 DEF Orphans, Used
    <2> QED
        BY <2>1, <2>3, NoNewOrphan
<1>3. ASSUME NEW a \in Agents, Insert(a) PROVE LeaksAreFailures'
    <2>1. UNCHANGED <<locations, failed>> /\ Head(req[a].left) \in Addresses /\ ips[Head(req[a].left)] = 0
        BY <1>0, <1>3, LeftTail DEF Insert, Handlers, Busy, RequestsOK
    <2>2. /\ ips' = [ips EXCEPT ![Head(req[a].left)] = req[a].location]
          /\ req' = [req EXCEPT ![a] = [pc |-> "resolving", left |-> Tail(req[a].left), location |-> 0]]
        BY <1>3 DEF Insert, Goto
    <2>3. Used \ {0} \subseteq Used'
        BY <1>0, <2>1, <2>2 DEF Used, RequestsOK, TablesOK
    <2>4. Orphans' \subseteq Orphans
        BY <1>0, <2>1, <2>3 DEF Orphans, Used
    <2> QED
        BY <2>1, <2>4, NoNewOrphan
<1>4. ASSUME NEW a \in Agents, Conflict(a) \/ Fails(a) PROVE LeaksAreFailures'
    <2>1. UNCHANGED <<locations, ips>> /\ failed' = failed + 1
        BY <1>4 DEF Conflict, Fails, tables
    <2>2. Used \ {req[a].location} \subseteq Used'
        BY <1>0, <1>4, <2>1 DEF Used, RequestsOK, Conflict, Fails, Finish
    <2>3. Orphans' \subseteq Orphans \cup {req[a].location}
        BY <2>1, <2>2 DEF Orphans, Used
    <2> QED
        BY <2>1, <2>3, OneNewOrphan
<1> DEFINE Kept == UNCHANGED <<locations, ips, failed>> /\ \A a \in Agents : req'[a].location = req[a].location
<1>5. ASSUME NEW a \in Agents, Post(a) \/ Find(a) \/ Store(a) PROVE Kept
    BY <1>0, <1>5 DEF Post, Find, Store, Goto, tables, RequestsOK, Handlers
<1>6. ASSUME NEW a \in Agents, Miss(a) PROVE Kept
    BY <1>0, <1>6 DEF Miss, Goto, tables, RequestsOK, Handlers
<1>7. ASSUME NEW a \in Agents, Reply(a) \/ LoseReply(a) PROVE Kept
    BY <1>0, <1>7 DEF Reply, LoseReply, Finish, NoReq, tables, RequestsOK, Handlers
<1>8. ASSUME Kept PROVE LeaksAreFailures'
    <2>1. Orphans' = Orphans
        BY <1>8 DEF Orphans
    <2> QED
        BY <1>8, <2>1, NoNewOrphan
<1>9. UNCHANGED <<req, locations, ips, failed>> => Kept
    OBVIOUS
<1> QED
    BY <1>1, <1>2, <1>3, <1>4, <1>5, <1>6, <1>7, <1>8, <1>9
    DEF Next, Handler, vars, tables, Delete, Arm, Snapshot, Record, ReportLost, UpdateTor

-----------------------------------------------------------------------------
LEMMA InvInit == Init => Inv
<1> SUFFICES ASSUME Init PROVE Inv
    OBVIOUS
<1> USE IngestAssumption DEF IngestAssumption, None, NoReq
<1>1. TypeOK
    <2>1. locations \in Seq([shared : BOOLEAN, tor : BOOLEAN]) /\ Len(locations) = 0
        BY DEF Init
    <2>2. ips \in [Addresses -> 0..Len(locations)] /\ incidents \in [Agents -> [Addresses -> 0..(MaxFailures + 1)]]
        BY <2>1 DEF Init
    <2>3. req \in [Agents -> Requests] /\ \A a \in Agents : req[a].left = <<>>
        BY <2>1 DEF Init, Requests, PCs
    <2>4. \A a \in Agents : req[a].left \in LeftOf(a)
        BY <2>3, BatchType
    <2>5. /\ errors \in 0..MaxFailures /\ lost \in [Agents -> 0..MaxFailures] /\ failed \in Nat
          /\ changes \in 0..MaxChanges
        BY DEF Init
    <2>6. report \in [Reporters -> {"none", "observing", "enforcing"}] /\ fw \in [Reporters -> BOOLEAN]
        BY DEF Init
    <2> QED
        BY <2>1, <2>2, <2>3, <2>4, <2>5, <2>6 DEF Init, TypeOK, Requests, LeftOf
<1>2. Handlers /\ BehindHasRows /\ IncidentsHaveRows /\ DuplicatesAreRetries
    BY DEF Init, Handlers, Busy, BehindHasRows, IncidentsHaveRows, DuplicatesAreRetries
<1>3. Flags
    BY DEF Init, Flags, TorWasListed, HeldWasListed
<1>4. LeaksAreFailures
    <2>1. DOMAIN locations = {}
        BY DEF Init
    <2>2. Orphans = {}
        BY <2>1 DEF Orphans
    <2> QED
        BY <2>2, FS_EmptySet DEF Init, LeaksAreFailures
<1> QED
    BY <1>1, <1>2, <1>3, <1>4 DEF Inv

LEMMA Invariance == Spec => []Inv
<1>1. Inv /\ [Next]_vars => Inv'
    BY TypeStep, HandlersStep, DuplicatesStep, BehindStep, IncidentsStep, FlagsStep, LeaksStep DEF Inv
<1> QED
    BY <1>1, InvInit, PTL DEF Spec

\* What concurrent and failing requests leave in the tables fits together, for
\* every number of agents, every batch and every number of failures: a failed
\* request leaves at most one location behind, no incident is without its
\* address, and a Tor flag is one of the list.
THEOREM TablesFitTogether == Spec => []TablesAgree
<1>1. Inv => TablesAgree
    BY DEF Inv, Flags, TablesAgree
<1> QED
    BY <1>1, Invariance, PTL

\* A batch that is posted again after a failure counts once; only a lost reply
\* makes it count again, and once per lost reply.
THEOREM RetriesCountOnce == Spec => []DuplicatesAreRetries
<1>1. Inv => DuplicatesAreRetries
    BY DEF Inv
<1> QED
    BY <1>1, Invariance, PTL

\* A row of ip_addresses is for ever: no request, however it ends, takes away or
\* changes the location that an address was given.
THEOREM RowsAreKept == Spec => [][\A x \in Addresses : Known(x) => ips'[x] = ips[x]]_ips
<1> DEFINE Kept == \A x \in Addresses : Known(x) => ips'[x] = ips[x]
<1>1. TypeOK /\ [Next]_vars => [Kept]_ips
    <2> SUFFICES ASSUME TypeOK, [Next]_vars PROVE [Kept]_ips
        OBVIOUS
    <2>1. ASSUME NEW a \in Agents, Insert(a) PROVE Kept
        BY <2>1 DEF Insert, Known, TypeOK
    <2>2. (\A a \in Agents : ~Insert(a)) => UNCHANGED ips
        BY DEF Next, Handler, vars, tables, Post, Find, Miss, FindLocation, CreateLocation,
               Conflict, Store, Fails, Reply, LoseReply, Delete, Arm, Snapshot, Record, ReportLost, UpdateTor
    <2> QED
        BY <2>1, <2>2
<1>2. Inv => TypeOK
    BY DEF Inv
<1> QED
    BY <1>1, <1>2, Invariance, PTL DEF Spec
=============================================================================
