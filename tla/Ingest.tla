------------------------------- MODULE Ingest -------------------------------
(***************************************************************************)
(* The server's side of an upload: two collectors' batches, or the same     *)
(* one's retries, are handled at the same time.  A handler checks the token, *)
(* finds or creates a row for every address (and a location row for that,    *)
(* enriched with the Tor list of the moment), stores the incidents in one    *)
(* transaction and replies.  Nothing but that transaction is atomic.         *)
(* Beside it, agents report what their firewall has in effect.               *)
(***************************************************************************)
EXTENDS Naturals, Sequences, FiniteSets, SequencesExt

CONSTANTS
    Agents,       \* enrolled agents, each with its collector
    Reporters,    \* those that report their firewall's status
    Addresses,    \* addresses
    Batch,        \* per agent: the addresses of the batch it uploads
    MaxFailures,  \* bound: database errors and lost replies
    MaxChanges    \* bound: changes of the Tor list and of firewall states

ASSUME IngestAssumption ==
    /\ Reporters \subseteq Agents
    /\ Batch \in [Agents -> Seq(Addresses)]
    /\ \A a \in Agents : Batch[a] # <<>> /\ IsInjective(Batch[a])
    /\ MaxFailures \in Nat /\ MaxChanges \in Nat

VARIABLES
    cityDB,      \* a GeoLite2-City database is there, and all addresses are in one city
    collectors,  \* the agents whose collector exists
    locations,   \* the locations table: per row its city and its Tor flag
    ips,         \* the ip_addresses table: per address its location's id, or None
    incidents,   \* per agent and address: rows of the incidents table
    req,         \* per agent: its request's handler: where it is, the addresses left
    pending,     \* agents whose batch is not acknowledged
    torList,     \* LocationService.tor
    wasTor,      \* history: addresses that were ever on it
    failed,      \* history: requests that failed after they had begun
    errors,      \* bound
    lost,        \* per agent: lost replies
    fw,          \* per agent: its firewall enforces
    row,         \* per agent: FirewallEnforcing in its collector's row
    report,      \* per agent: the snapshot that sendFirewallStatus is sending
    changes      \* bound

tables == <<collectors, locations, ips, incidents>>
firewall == <<fw, row, report>>
vars == <<cityDB, tables, req, pending, torList, wasTor, failed, errors, lost, firewall, changes>>

None == 0
NoReq == [pc |-> "idle", left |-> <<>>, location |-> None]
PCs == {"idle", "resolving", "locating", "creating", "inserting", "replying"}

TypeOK ==
    /\ cityDB \in BOOLEAN
    /\ collectors \subseteq Agents
    /\ locations \in Seq([shared : BOOLEAN, tor : BOOLEAN])
    /\ ips \in [Addresses -> 0..Len(locations)]
    /\ incidents \in [Agents -> [Addresses -> 0..(MaxFailures + 1)]]
    /\ req \in [Agents -> [pc : PCs, left : Seq(Addresses), location : 0..Len(locations)]]
    /\ \A a \in Agents :
        \E i \in 0..Len(Batch[a]) : req[a].left = SubSeq(Batch[a], i + 1, Len(Batch[a]))
    /\ pending \subseteq Agents
    /\ torList \subseteq Addresses /\ wasTor \subseteq Addresses
    /\ failed \in Nat /\ errors \in 0..MaxFailures /\ lost \in [Agents -> 0..MaxFailures]
    /\ fw \in [Reporters -> BOOLEAN] /\ row \in [Reporters -> BOOLEAN]
    /\ report \in [Reporters -> {"none", "observing", "enforcing"}]
    /\ changes \in 0..MaxChanges

Init ==
    /\ cityDB \in BOOLEAN
    /\ collectors = Agents
    /\ locations = <<>>
    /\ ips = [x \in Addresses |-> None]
    /\ incidents = [a \in Agents |-> [x \in Addresses |-> 0]]
    /\ req = [a \in Agents |-> NoReq]
    /\ pending = Agents
    /\ torList = {} /\ wasTor = {}
    /\ failed = 0 /\ errors = 0 /\ lost = [a \in Agents |-> 0]
    /\ fw = [a \in Reporters |-> FALSE] /\ row \in [Reporters -> BOOLEAN]  \* the row: from an earlier run
    /\ report = [a \in Reporters |-> "none"]
    /\ changes = 0

-----------------------------------------------------------------------------
(* A batch.                                                                *)

Goto(a, pc, left, location) ==
    req' = [req EXCEPT ![a] = [pc |-> pc, left |-> left, location |-> location]]
Finish(a) == req' = [req EXCEPT ![a] = NoReq]

\* ValidateCollectorToken: the token is that of a collector that is still there.
Valid(a) == a \in collectors

\* The uploader posts its batch, again if it has to.  The middleware and
\* CreateIncidentsBatch look the token up; if it is nobody's, nothing happens.
Post(a) ==
    /\ a \in pending
    /\ Valid(a)
    /\ req[a].pc = "idle"
    /\ Goto(a, "resolving", Batch[a], None)
    /\ UNCHANGED <<cityDB, tables, pending, torList, wasTor, failed, errors, lost, firewall, changes>>

\* ip_addresses has a row for the address.
Known(x) == ips[x] # None

\* resolveIPAddress: the address has a row ...
Find(a) ==
    /\ req[a].pc = "resolving"
    /\ req[a].left # <<>>
    /\ Known(Head(req[a].left))
    /\ Goto(a, "resolving", Tail(req[a].left), None)
    /\ UNCHANGED <<cityDB, tables, pending, torList, wasTor, failed, errors, lost, firewall, changes>>

\* ... or it has not, by then.
Miss(a) ==
    /\ req[a].pc = "resolving"
    /\ req[a].left # <<>>
    /\ ~Known(Head(req[a].left))
    /\ Goto(a, IF cityDB THEN "locating" ELSE "creating", req[a].left, None)
    /\ UNCHANGED <<cityDB, tables, pending, torList, wasTor, failed, errors, lost, firewall, changes>>

\* The row that a City record's country, city and coordinates find, the first
\* of several.
Shared == {i \in DOMAIN locations : cityDB /\ locations[i].shared}

\* enrich: the Tor list of the moment.
Enriched(x) == [shared |-> cityDB, tor |-> x \in torList]

\* GetOrCreateLocation finds the address's city; without a city database there
\* is nothing to look for ...
FindLocation(a) ==
    /\ req[a].pc = "locating"
    /\ IF Shared = {} THEN Goto(a, "creating", req[a].left, None)
       ELSE \E i \in Shared : (\A j \in Shared : i <= j) /\ Goto(a, "inserting", req[a].left, i)
    /\ UNCHANGED <<cityDB, tables, pending, torList, wasTor, failed, errors, lost, firewall, changes>>

\* ... or creates a row for it, which by then another request may have done:
\* nothing makes a location unique.
CreateLocation(a) ==
    /\ req[a].pc = "creating"
    /\ locations' = Append(locations, Enriched(Head(req[a].left)))
    /\ Goto(a, "inserting", req[a].left, Len(locations) + 1)
    /\ UNCHANGED <<cityDB, collectors, ips, incidents, pending, torList, wasTor, failed, errors, lost, firewall, changes>>

\* Plausible bug: on a conflict the row that is there is used.
InsertOrKeep(a) ==
    /\ req[a].pc = "inserting"
    /\ ips' = [ips EXCEPT ![Head(req[a].left)] = IF @ = None THEN req[a].location ELSE @]
    /\ Goto(a, "resolving", Tail(req[a].left), None)
    /\ UNCHANGED <<cityDB, collectors, locations, incidents, pending, torList, wasTor, failed, errors, lost, firewall, changes>>

\* The address's row.
Insert(a) ==
    /\ req[a].pc = "inserting"
    /\ ips[Head(req[a].left)] = None
    /\ ips' = [ips EXCEPT ![Head(req[a].left)] = req[a].location]
    /\ Goto(a, "resolving", Tail(req[a].left), None)
    /\ UNCHANGED <<cityDB, collectors, locations, incidents, pending, torList, wasTor, failed, errors, lost, firewall, changes>>

\* Plausible bug: the uploader drops a batch that the server fails to store.
ConflictDrops(a) ==
    /\ req[a].pc = "inserting"
    /\ ips[Head(req[a].left)] # None
    /\ failed' = failed + 1
    /\ Finish(a)
    /\ pending' = pending \ {a}
    /\ UNCHANGED <<cityDB, tables, torList, wasTor, errors, lost, firewall, changes>>

\* Another request has inserted it since the lookup: the unique index refuses
\* the row and the whole batch fails.
Conflict(a) ==
    /\ req[a].pc = "inserting"
    /\ ips[Head(req[a].left)] # None
    /\ failed' = failed + 1
    /\ Finish(a)
    /\ UNCHANGED <<cityDB, tables, pending, torList, wasTor, errors, lost, firewall, changes>>

\* Adds an incident of each address.
Stored(a, addresses) ==
    LET more(x) == IF x \in addresses THEN 1 ELSE 0
    IN  incidents' = [incidents EXCEPT ![a] = [x \in Addresses |-> incidents[a][x] + more(x)]]

\* All addresses have rows: CreateInBatches, one transaction.
Store(a) ==
    /\ req[a].pc = "resolving"
    /\ req[a].left = <<>>
    /\ Stored(a, ToSet(Batch[a]))
    /\ Goto(a, "replying", <<>>, None)
    /\ UNCHANGED <<cityDB, collectors, locations, ips, pending, torList, wasTor, failed, errors, lost, firewall, changes>>

\* Plausible bug: the inserts are not one transaction.
FailsPartly(a) ==
    /\ req[a].pc = "resolving"
    /\ errors < MaxFailures
    /\ errors' = errors + 1
    /\ failed' = failed + 1
    /\ IF req[a].left = <<>> THEN Stored(a, {Batch[a][1]}) ELSE incidents' = incidents
    /\ Finish(a)
    /\ UNCHANGED <<cityDB, collectors, locations, ips, pending, torList, wasTor, lost, firewall, changes>>

\* A database error in any statement (SQLite is busy): the batch is refused.
Fails(a) ==
    /\ req[a].pc \in {"resolving", "locating", "creating", "inserting"}
    /\ errors < MaxFailures
    /\ errors' = errors + 1
    /\ failed' = failed + 1
    /\ Finish(a)
    /\ UNCHANGED <<cityDB, tables, pending, torList, wasTor, lost, firewall, changes>>

Reply(a) ==
    /\ req[a].pc = "replying"
    /\ Finish(a)
    /\ pending' = pending \ {a}
    /\ UNCHANGED <<cityDB, tables, torList, wasTor, failed, errors, lost, firewall, changes>>

LoseReply(a) ==
    /\ req[a].pc = "replying"
    /\ errors < MaxFailures
    /\ errors' = errors + 1
    /\ lost' = [lost EXCEPT ![a] = @ + 1]
    /\ Finish(a)
    /\ UNCHANGED <<cityDB, tables, pending, torList, wasTor, failed, firewall, changes>>

\* DeleteCollector; its incidents stay.
Delete(a) ==
    /\ a \in collectors
    /\ collectors' = collectors \ {a}
    /\ UNCHANGED <<cityDB, locations, ips, incidents, req, pending, torList, wasTor, failed, errors, lost, firewall, changes>>

\* refreshTorLoop.
UpdateTor ==
    /\ changes < MaxChanges
    /\ changes' = changes + 1
    /\ torList' \in (SUBSET Addresses) \ {torList}
    /\ wasTor' = wasTor \cup torList'
    /\ UNCHANGED <<cityDB, tables, req, pending, failed, errors, lost, firewall>>

-----------------------------------------------------------------------------
(* Firewall status.                                                        *)

\* The agent's mode changes.
Arm(a) ==
    /\ changes < MaxChanges
    /\ changes' = changes + 1
    /\ fw' = [fw EXCEPT ![a] = ~@]
    /\ UNCHANGED <<cityDB, tables, req, pending, torList, wasTor, failed, errors, lost, row, report>>

\* sendFirewallStatus takes a snapshot ...
Snapshot(a) ==
    /\ report[a] = "none"
    /\ report' = [report EXCEPT ![a] = IF fw[a] THEN "enforcing" ELSE "observing"]
    /\ UNCHANGED <<cityDB, tables, req, pending, torList, wasTor, failed, errors, lost, fw, row, changes>>

\* Plausible bug: Updates without Select skips what is FALSE.
RecordNonZero(a) ==
    /\ report[a] # "none"
    /\ row' = [row EXCEPT ![a] = @ \/ (Valid(a) /\ report[a] = "enforcing")]
    /\ report' = [report EXCEPT ![a] = "none"]
    /\ UNCHANGED <<cityDB, tables, req, pending, torList, wasTor, failed, errors, lost, fw, changes>>

\* ... which RecordFirewallStatus writes into the collector's row, if the
\* token is still good.
Record(a) ==
    /\ report[a] # "none"
    /\ row' = [row EXCEPT ![a] = IF Valid(a) THEN report[a] = "enforcing" ELSE @]
    /\ report' = [report EXCEPT ![a] = "none"]
    /\ UNCHANGED <<cityDB, tables, req, pending, torList, wasTor, failed, errors, lost, fw, changes>>

\* The upload fails: no queue, no retry.
ReportLost(a) ==
    /\ report[a] # "none"
    /\ report' = [report EXCEPT ![a] = "none"]
    /\ UNCHANGED <<cityDB, tables, req, pending, torList, wasTor, failed, errors, lost, fw, row, changes>>

-----------------------------------------------------------------------------
Handler(a) == Find(a) \/ Miss(a) \/ FindLocation(a) \/ CreateLocation(a) \/ Insert(a) \/ Conflict(a) \/ Store(a)

Next ==
    \/ \E a \in Agents :
        \/ Post(a) \/ Handler(a) \/ Fails(a) \/ Reply(a) \/ LoseReply(a) \/ Delete(a)
    \/ \E a \in Reporters :
        \/ Arm(a) \/ Snapshot(a) \/ Record(a) \/ ReportLost(a)
    \/ UpdateTor

Spec == Init /\ [][Next]_vars

\* The agent's tickers post and report for ever; handlers run; a report that
\* is sent again and again arrives again and again.
Fairness ==
    /\ \A a \in Agents :
        /\ WF_vars(Post(a)) /\ WF_vars(Handler(a)) /\ WF_vars(Reply(a))
    /\ \A a \in Reporters :
        /\ WF_vars(Snapshot(a)) /\ SF_vars(Record(a))

FairSpec == Spec /\ Fairness

-----------------------------------------------------------------------------
(* Properties.                                                             *)

\* An incident is stored twice only because a reply was lost: no failing
\* statement and no conflict leaves a part of a batch behind that its retry
\* would repeat.  The consensus counts rows, so this bounds how far one
\* observation can carry it.
DuplicatesAreRetries ==
    \A a \in Agents, x \in Addresses :
        incidents[a][x] <= lost[a] + (IF a \in pending /\ req[a].pc # "replying" THEN 0 ELSE 1)

\* What an address's row and location were created for is not undone with a
\* failing batch; but each failing request leaves at most one location behind
\* that no address uses.
Orphans ==
    (DOMAIN locations) \ ({ips[x] : x \in Addresses} \cup {req[a].location : a \in Agents})
LeaksAreFailures == Cardinality(Orphans) <= failed

\* Without a city database an address is shown as a Tor exit node only if it
\* was on the Tor list.  (With one, addresses of a city share a location and
\* get the flag of the one the row was created for.)
TorWasListed ==
    ~cityDB => \A x \in Addresses : ips[x] # None /\ locations[ips[x]].tor => x \in wasTor

\* An incident never refers to an address that has no row, whichever of the
\* concurrent requests was to create it (SQLite checks no foreign key unasked).
IncidentsHaveRows == \A a \in Agents, x \in Addresses : incidents[a][x] > 0 => Known(x)

\* What concurrent and failing requests leave in the tables fits together.
TablesAgree == TypeOK /\ LeaksAreFailures /\ TorWasListed /\ IncidentsHaveRows

\* A batch is stored in the end, whatever conflicts it runs into: the row that
\* made it fail is found by the retry.
Heals ==
    \A a \in Agents :
        (a \in pending) ~> (a \notin collectors \/ \A x \in ToSet(Batch[a]) : incidents[a][x] > 0)

\* The dashboard comes to show the mode the agent is in, off as well as on.
ReportArrives ==
    \A a \in Reporters :
        <>[](a \in collectors) /\ <>[][FALSE]_fw => <>[](row[a] = fw[a])
=============================================================================
