----------------------- MODULE DataDirectory_proofs -----------------------
(***************************************************************************)
(* What keeps a data directory to one agent, and its queue file to what    *)
(* that agent has queued: the manager, among the runs inside the server,   *)
(* and agent.lock, among processes.                                        *)
(*                                                                         *)
(* The manager, for every number of runs, of overlapping Stop requests and *)
(* of observations and every bound of the queue: that one run at a time is *)
(* live rests on agent.lock alone.  Stop closes the store of the run it    *)
(* waited for, and no other, so a run that two Stops have made the manager *)
(* forget still keeps the next one out.  An observation is safe in the     *)
(* memory of the last store, which no other store's drain loop touches;    *)
(* in the file it is safe until such a loop writes there.                  *)
(*                                                                         *)
(* The lock, for every set of processes: the removal of a stale lock is    *)
(* sound only as long as no two of them open the store at the same time.   *)
(* What was judged stale is then still what is removed.                    *)
(***************************************************************************)
EXTENDS LocalAgent, StoreLock, TLAPS

-----------------------------------------------------------------------------
(* The manager.                                                            *)

\* Only the last run's store is ever open.
OneStore == open \subseteq {started}

Inv == TypeOK /\ OneStore

Phases == {"none", "starting", "loop", "failed", "exited"}
Drains == [pc : {"idle", "taken", "stored", "ended"}, batch : SUBSET Ids]

LEMMA NewestIsPart == ASSUME NEW n, NEW Q PROVE Newest(n, Q) \subseteq Q
    BY DEF Newest

LEMMA OldestIsPart == ASSUME NEW n, NEW Q PROVE Oldest(n, Q) \subseteq Q
    BY DEF Oldest

-----------------------------------------------------------------------------
LEMMA InvStep == Inv /\ [Next]_vars => Inv'
<1> SUFFICES ASSUME Inv, [Next]_vars PROVE Inv'
    OBVIOUS
<1> USE LocalAssumption DEF Inv, TypeOK, OneStore, Live, Runs, Ids, manager, store, runs,
                            observed, Quiet
<1>1. ASSUME Start PROVE Inv'
    <2> DEFINE r == started + 1
    <2>1. r \in Runs /\ open = {} /\ open' = {r} /\ started' = r
        BY <1>1 DEF Start
    <2>2. /\ phase' \in [Runs -> Phases]
          /\ Live' \subseteq {r}
        BY <1>1, <2>1 DEF Start, Phases
    <2>3. queue' \in [Runs -> SUBSET Ids] /\ owed' \subseteq Ids
        BY <1>1, <2>1 DEF Start
    <2>4. drain' \in [Runs -> Drains]
        BY <1>1, <2>1 DEF Start, Drains
    <2>5. current' = r /\ shown' = FALSE /\ r \in 0..MaxRuns
        <3>1. current' = r /\ shown' = FALSE
            BY <1>1 DEF Start
        <3> QED
            BY <2>1, <3>1
    <2>6. UNCHANGED <<cancelled, enforcing, stopping, waiting, stateFile, queueFile, produced,
                      delivered, accepted, overtaken>>
        BY <1>1 DEF Start
    <2> HIDE DEF r
    <2>7. OneStore' /\ open' \subseteq Runs /\ Live' \subseteq open'
        BY <2>1, <2>2
    <2> QED
        BY <2>1, <2>2, <2>3, <2>4, <2>5, <2>6, <2>7 DEF Phases, Drains
<1>2. ASSUME NEW s \in Stops, BeginStop(s) PROVE Inv'
    BY <1>2 DEF BeginStop
<1>3. ASSUME NEW s \in Stops, CancelRun(s) PROVE Inv'
    <2>1. stopping[s] \in Runs
        BY <1>3 DEF CancelRun
    <2>2. UNCHANGED <<started, current, shown, stopping, phase, enforcing, stateFile, store,
                      observed, drain, delivered, overtaken>>
        BY <1>3 DEF CancelRun
    <2>3. waiting' \subseteq Stops /\ cancelled' \subseteq Runs
        BY <1>3, <2>1 DEF CancelRun
    <2> QED
        BY <2>2, <2>3
<1>4. ASSUME NEW s \in Stops, EndStop(s) PROVE Inv'
    <2>1. stopping[s] \notin Live
        BY <1>4 DEF EndStop
    <2>2. stopping' \in [Stops -> 0..MaxRuns]
        BY <1>4 DEF EndStop
    <2>3. Live' \subseteq open'
        BY <1>4, <2>1 DEF EndStop
    <2> QED
        BY <1>4, <2>2, <2>3 DEF EndStop
<1>5. ASSUME NEW on \in BOOLEAN, SetEnforce(on) PROVE Inv'
    BY <1>5 DEF SetEnforce
<1>6. ASSUME NEW r \in Runs, RunBegins(r) PROVE Inv'
    BY <1>6 DEF RunBegins, Goes
<1>7. ASSUME NEW r \in Runs, RunFails(r) PROVE Inv'
    BY <1>7 DEF RunFails, Goes
<1>8. ASSUME NEW r \in Runs, ReportsError(r) \/ RunExits(r) PROVE Inv'
    BY <1>8 DEF ReportsError, RunExits, Goes
<1>9. ASSUME NEW r \in Runs, Reconcile(r) PROVE Inv'
    BY <1>9 DEF Reconcile
<1>10. ASSUME NEW r \in Runs, NEW ok \in BOOLEAN, Observe(r, ok) PROVE Inv'
    <2> DEFINE o == produced + 1
               kept == Newest(MaxQueue, queue[r] \cup {o})
    <2>1. o \in Ids /\ produced' = o
        BY <1>10 DEF Observe
    <2>2. kept \subseteq Ids
        <3>1. kept \subseteq queue[r] \cup {o}
            BY NewestIsPart
        <3> QED
            BY <2>1, <3>1
    <2>3. /\ queue' = [queue EXCEPT ![r] = kept]
          /\ accepted' \subseteq accepted \cup {o}
          /\ owed' \subseteq owed \cup {o}
          /\ queueFile' = IF ok THEN queue'[r] ELSE queueFile
          /\ UNCHANGED <<manager, runs, open, drain, delivered, overtaken>>
        BY <1>10 DEF Observe, Save
    <2>4. produced' \in 0..MaxObs
        BY <2>1
    <2> HIDE DEF o, kept
    <2> QED
        BY <2>1, <2>2, <2>3, <2>4
<1>11. ASSUME NEW r \in Runs, DrainTakes(r) PROVE Inv'
    <2>1. Oldest(BatchSize, queue[r]) \subseteq Ids
        BY OldestIsPart
    <2> QED
        BY <1>11, <2>1 DEF DrainTakes
<1>12. ASSUME NEW r \in Runs, DrainStores(r) PROVE Inv'
    BY <1>12 DEF DrainStores
<1>13. ASSUME NEW r \in Runs, DrainFails(r) \/ DrainEnds(r) PROVE Inv'
    <2>1. drain' \in [Runs -> Drains]
        <3>1. {} \in SUBSET Ids
            OBVIOUS
        <3>2. CASE DrainFails(r)
            BY <3>1, <3>2 DEF DrainFails, Drains
        <3>3. CASE DrainEnds(r)
            BY <3>1, <3>3 DEF DrainEnds, Drains
        <3> QED
            BY <1>13, <3>2, <3>3
    <2> QED
        BY <1>13, <2>1 DEF DrainFails, DrainEnds, Drains
<1>14. ASSUME NEW r \in Runs, NEW ok \in BOOLEAN, DrainAcks(r, ok) PROVE Inv'
    BY <1>14 DEF DrainAcks, Save
<1>15. ASSUME Restart PROVE Inv'
    <2>1. phase' \in [Runs -> Phases] /\ Live' = {}
        BY <1>15 DEF Restart, Phases
    <2>2. drain' \in [Runs -> Drains] /\ queue' \in [Runs -> SUBSET Ids]
        BY <1>15 DEF Restart, Drains
    <2>3. stopping' \in [Stops -> 0..MaxRuns] /\ current' \in 0..MaxRuns
        BY <1>15 DEF Restart
    <2> QED
        BY <1>15, <2>1, <2>2, <2>3 DEF Restart, Phases, Drains
<1>16. CASE UNCHANGED vars
    BY <1>16 DEF vars
<1> QED
    BY <1>1, <1>2, <1>3, <1>4, <1>5, <1>6, <1>7, <1>8, <1>9, <1>10, <1>11, <1>12, <1>13,
       <1>14, <1>15, <1>16 DEF Next

LEMMA Invariance == Spec => []Inv
<1>1. Init => Inv
    <2> SUFFICES ASSUME Init PROVE Inv
        OBVIOUS
    <2>1. phase \in [Runs -> Phases] /\ Live = {}
        BY DEF Init, Live, Phases
    <2>2. queue \in [Runs -> SUBSET Ids]
        BY DEF Init
    <2>3. drain \in [Runs -> Drains]
        BY DEF Init, Quiet, Drains
    <2>4. /\ started \in 0..MaxRuns
          /\ current \in 0..MaxRuns
          /\ produced \in 0..MaxObs
          /\ stopping \in [Stops -> 0..MaxRuns]
        BY LocalAssumption DEF Init
    <2> QED
        BY <2>1, <2>2, <2>3, <2>4 DEF Init, Inv, TypeOK, OneStore, Phases, Drains
<1> QED
    BY <1>1, InvStep, PTL DEF Spec

\* Type correctness; a live run has its store open.
THEOREM TypeCorrect == Spec => []TypeOK
<1>1. Inv => TypeOK
    BY DEF Inv
<1> QED
    BY <1>1, Invariance, PTL

\* At most one run at a time, whatever Stop requests overlap.
THEOREM OneRunAtATime == Spec => []AtMostOneRun
<1>1. Inv => AtMostOneRun
    BY DEF Inv, TypeOK, OneStore, AtMostOneRun
<1> QED
    BY <1>1, Invariance, PTL

-----------------------------------------------------------------------------
(* What the manager keeps.                                                 *)

StoredIsDelivered == \A r \in Runs : drain[r].pc = "stored" => drain[r].batch \subseteq delivered

\* As long as anybody may still write the last store's queue to the file, that
\* queue has what the file must not lose.
InMemory ==
    \A r \in Runs :
        /\ ~overtaken
        /\ r = started
        /\ r \in open \/ drain[r].pc # "ended"
        => accepted \subseteq queue[r] \cup delivered

Kept == StoredIsDelivered /\ InMemory /\ HeldUntilDelivered /\ NothingLost

LEMMA KeptByStart == Inv /\ Kept /\ Start => Kept'
<1> SUFFICES ASSUME Inv, Kept, Start PROVE Kept'
    OBVIOUS
<1> USE LocalAssumption DEF Inv, TypeOK, OneStore, Runs
<1> DEFINE r == started + 1
<1>1. /\ r \in Runs /\ started' = r
      /\ open' = {r}
      /\ queue' = [queue EXCEPT ![r] = queueFile]
      /\ owed' = queueFile
      /\ drain' = [drain EXCEPT ![r] = [pc |-> "idle", batch |-> {}]]
      /\ UNCHANGED <<accepted, delivered, overtaken, queueFile>>
    BY DEF Start
<1> HIDE DEF r
<1>2. StoredIsDelivered'
    BY <1>1 DEF Kept, StoredIsDelivered
<1>3. queue'[r] = queueFile
    BY <1>1
<1>4. (InMemory /\ HeldUntilDelivered /\ NothingLost)'
    BY <1>1, <1>3 DEF Kept, InMemory, HeldUntilDelivered, NothingLost
<1> QED
    BY <1>2, <1>4 DEF Kept

LEMMA KeptByObserve ==
    ASSUME Inv, Kept, NEW r \in Runs, NEW ok \in BOOLEAN, Observe(r, ok)
    PROVE  Kept'
<1> USE DEF Inv, TypeOK, OneStore, Live
<1> DEFINE o == produced + 1
           all == queue[r] \cup {o}
           kept == Newest(MaxQueue, all)
<1>1. /\ queue' = [queue EXCEPT ![r] = kept]
      /\ queueFile' = IF ok THEN queue'[r] ELSE queueFile
      /\ accepted' = (IF ok THEN accepted \cup {o} ELSE accepted) \ (all \ kept)
      /\ owed' = (owed \cup {o}) \ (all \ kept)
      /\ UNCHANGED <<started, open, drain, delivered, overtaken>>
    BY DEF Observe, Save, manager, runs
<1>2. r \in open /\ r = started
    BY DEF Observe
<1>3. queue[r] \subseteq all /\ o \in all /\ queue'[r] = kept
    BY <1>1
<1> HIDE DEF o, all, kept
<1>4. StoredIsDelivered'
    BY <1>1 DEF Kept, StoredIsDelivered
<1>5. HeldUntilDelivered'
    BY <1>1, <1>2, <1>3 DEF Kept, HeldUntilDelivered
<1>6. InMemory'
    BY <1>1, <1>2, <1>3 DEF Kept, InMemory
<1>7. NothingLost'
    BY <1>1, <1>2, <1>3 DEF Kept, InMemory, NothingLost
<1> QED
    BY <1>4, <1>5, <1>6, <1>7 DEF Kept

\* A loop that acks its own run's store only removes what the database has; one
\* that acks an earlier store leaves the last store's memory alone.
LEMMA KeptByAck ==
    ASSUME Inv, Kept, NEW r \in Runs, NEW ok \in BOOLEAN, DrainAcks(r, ok)
    PROVE  Kept'
<1> USE DEF Inv, TypeOK, OneStore
<1>1. /\ drain[r].pc = "stored"
      /\ queue' = [queue EXCEPT ![r] = queue[r] \ drain[r].batch]
      /\ queueFile' = IF ok THEN queue'[r] ELSE queueFile
      /\ overtaken' = (overtaken \/ (ok /\ r # started))
      /\ drain' = [drain EXCEPT ![r] = [pc |-> "idle", batch |-> {}]]
      /\ UNCHANGED <<started, open, delivered, accepted, owed>>
    BY DEF DrainAcks, Save, manager, observed
<1>2. drain[r].batch \subseteq delivered
    BY <1>1 DEF Kept, StoredIsDelivered
<1>3. StoredIsDelivered'
    BY <1>1 DEF Kept, StoredIsDelivered
<1>4. HeldUntilDelivered'
    BY <1>1, <1>2 DEF Kept, HeldUntilDelivered
<1>5. InMemory'
    BY <1>1, <1>2 DEF Kept, InMemory
<1>6. NothingLost'
    BY <1>1, <1>2 DEF Kept, InMemory, NothingLost
<1> QED
    BY <1>3, <1>4, <1>5, <1>6 DEF Kept

LEMMA KeptStep == Inv /\ Kept /\ [Next]_vars => Kept'
<1> SUFFICES ASSUME Inv, Kept, [Next]_vars PROVE Kept'
    OBVIOUS
<1> USE DEF Inv, TypeOK, OneStore, manager, store, runs, observed
<1>1. ASSUME NEW s \in Stops, BeginStop(s) \/ CancelRun(s) PROVE Kept'
    BY <1>1 DEF BeginStop, CancelRun, Kept, StoredIsDelivered, InMemory, HeldUntilDelivered,
                NothingLost
<1>2. ASSUME NEW s \in Stops, EndStop(s) PROVE Kept'
    BY <1>2 DEF EndStop, Kept, StoredIsDelivered, InMemory, HeldUntilDelivered, NothingLost
<1>3. ASSUME NEW on \in BOOLEAN, SetEnforce(on) PROVE Kept'
    BY <1>3 DEF SetEnforce, Kept, StoredIsDelivered, InMemory, HeldUntilDelivered, NothingLost
<1>4. ASSUME NEW r \in Runs, RunBegins(r) \/ RunFails(r) \/ ReportsError(r) \/ RunExits(r)
      PROVE  Kept'
    BY <1>4 DEF RunBegins, RunFails, ReportsError, RunExits, Goes, Kept, StoredIsDelivered,
                InMemory, HeldUntilDelivered, NothingLost
<1>5. ASSUME NEW r \in Runs, Reconcile(r) PROVE Kept'
    BY <1>5 DEF Reconcile, Kept, StoredIsDelivered, InMemory, HeldUntilDelivered, NothingLost
<1>6. ASSUME NEW r \in Runs, DrainTakes(r) PROVE Kept'
    BY <1>6 DEF DrainTakes, Kept, StoredIsDelivered, InMemory, HeldUntilDelivered, NothingLost
<1>7. ASSUME NEW r \in Runs, DrainStores(r) PROVE Kept'
    BY <1>7 DEF DrainStores, Kept, StoredIsDelivered, InMemory, HeldUntilDelivered, NothingLost
<1>8. ASSUME NEW r \in Runs, DrainFails(r) PROVE Kept'
    BY <1>8 DEF DrainFails, Kept, StoredIsDelivered, InMemory, HeldUntilDelivered, NothingLost
<1>9. ASSUME NEW r \in Runs, DrainEnds(r) PROVE Kept'
    BY <1>9 DEF DrainEnds, Quiet, Kept, StoredIsDelivered, InMemory, HeldUntilDelivered,
                NothingLost
<1>10. ASSUME Restart PROVE Kept'
    <2>1. StoredIsDelivered' /\ InMemory'
        BY <1>10 DEF Restart, Quiet, StoredIsDelivered, InMemory
    <2>2. HeldUntilDelivered' /\ NothingLost'
        BY <1>10 DEF Restart, Kept, HeldUntilDelivered, NothingLost
    <2> QED
        BY <2>1, <2>2 DEF Kept
<1>11. CASE UNCHANGED vars
    BY <1>11 DEF vars, Kept, StoredIsDelivered, InMemory, HeldUntilDelivered, NothingLost
<1> QED
    BY KeptByStart, KeptByObserve, KeptByAck, <1>1, <1>2, <1>3, <1>4, <1>5, <1>6, <1>7, <1>8,
       <1>9, <1>10, <1>11 DEF Next

LEMMA KeptAlways == Spec => []Kept
<1>1. Init => Kept
    BY DEF Init, Kept, StoredIsDelivered, InMemory, HeldUntilDelivered, NothingLost, Quiet
<1> QED
    BY <1>1, KeptStep, Invariance, PTL DEF Spec

\* While its store is open, the running agent has each observation it made or
\* found on disk until it is in the database or dropped by the bound, although
\* the drain loops of earlier runs go on and writes fail.
THEOREM ObservationsAreHeld == Spec => []HeldUntilDelivered
<1>1. Kept => HeldUntilDelivered
    BY DEF Kept
<1> QED
    BY <1>1, KeptAlways, PTL

\* What Enqueue has accepted is in the file until it is in the database or
\* dropped by the bound, through failed inserts and writes, stops, double stops,
\* restarts and drain loops that outlive their run, up to the moment when such
\* a loop writes its own queue over a later run's file.
THEOREM NoObservationLost == Spec => []NothingLost
<1>1. Kept => NothingLost
    BY DEF Kept
<1> QED
    BY <1>1, KeptAlways, PTL

-----------------------------------------------------------------------------
(* The lock.                                                               *)

OneOpens == \A p, q \in Procs : pc[p] \in Opening /\ pc[q] \in Opening => p = q

HolderOwnsFile ==
    \A p \in Procs :
        /\ pc[p] = "holding" => file = [creator |-> p, written |-> TRUE]
        /\ pc[p] = "writing" => file = [creator |-> p, written |-> FALSE]

RemoverIsAlone ==
    \A p, q \in Procs : pc[p] \in {"removing", "retrying"} => pc[q] # "holding"

RetryFindsNone == \A p \in Procs : pc[p] = "retrying" => file = NoFile

LockInv == LockTypeOK /\ OneOpens /\ HolderOwnsFile /\ RemoverIsAlone /\ RetryFindsNone

-----------------------------------------------------------------------------
LEMMA LockTypeStep == LockTypeOK /\ [LockNext]_lockVars => LockTypeOK'
<1> SUFFICES ASSUME LockTypeOK, [LockNext]_lockVars PROVE LockTypeOK'
    OBVIOUS
<1> USE LockAssumption DEF LockTypeOK, Goto, NoFile, Opening
<1>1. ASSUME NEW p \in Procs, Create(p) PROVE LockTypeOK'
    BY <1>1 DEF Create, Starts
<1>2. ASSUME NEW p \in Procs, Contend(p) PROVE LockTypeOK'
    BY <1>2 DEF Contend, Starts
<1>3. ASSUME NEW p \in Procs, WritePID(p) PROVE LockTypeOK'
    <2>1. file' \in [creator : Procs, written : BOOLEAN] \cup {NoFile}
        BY <1>3 DEF WritePID
    <2> QED
        BY <1>3, <2>1 DEF WritePID
<1>4. ASSUME NEW p \in Procs, Refuse(p) \/ FindStale(p) \/ StillContended(p) PROVE LockTypeOK'
    BY <1>4 DEF Refuse, FindStale, StillContended
<1>5. ASSUME NEW p \in Procs, RemoveStale(p) PROVE LockTypeOK'
    BY <1>5 DEF RemoveStale
<1>6. ASSUME NEW p \in Procs, Recreate(p) PROVE LockTypeOK'
    BY <1>6 DEF Recreate
<1>7. ASSUME NEW p \in Procs, Close(p) \/ Crash(p) PROVE LockTypeOK'
    BY <1>7 DEF Close, Crash
<1>8. CASE UNCHANGED lockVars
    BY <1>8 DEF lockVars
<1> QED
    BY <1>1, <1>2, <1>3, <1>4, <1>5, <1>6, <1>7, <1>8 DEF LockNext

\* Types hold however the processes overlap.
THEOREM LockTypeCorrect == LockSpec => []LockTypeOK
<1>1. LockInit => LockTypeOK
    BY DEF LockInit, LockTypeOK
<1> QED
    BY <1>1, LockTypeStep, PTL DEF LockSpec

-----------------------------------------------------------------------------
LEMMA LockInvStep ==
    ASSUME "overlap" \notin happens, LockInv, [LockNext]_lockVars
    PROVE  LockInv'
<1> USE LockAssumption DEF LockInv, LockTypeOK, OneOpens, HolderOwnsFile, RemoverIsAlone,
                           RetryFindsNone, Goto, NoFile, Opening, Exists
<1>0. LockTypeOK'
    BY LockTypeStep
<1>1. ASSUME NEW p \in Procs, Create(p) PROVE LockInv'
    <2>1. OneOpens'
        BY <1>0, <1>1 DEF Create, Starts
    <2>2. HolderOwnsFile'
        <3>1. ASSUME NEW q \in Procs PROVE pc[q] # "holding" /\ pc[q] # "writing"
            BY <1>1, <3>1 DEF Create, Starts
        <3> QED
            BY <1>0, <1>1, <3>1 DEF Create
    <2>3. RemoverIsAlone' /\ RetryFindsNone'
        BY <1>0, <1>1 DEF Create, Starts
    <2> QED
        BY <1>0, <2>1, <2>2, <2>3
<1>2. ASSUME NEW p \in Procs, Contend(p) PROVE LockInv'
    BY <1>0, <1>2 DEF Contend, Starts
<1>3. ASSUME NEW p \in Procs, WritePID(p) PROVE LockInv'
    <2>1. OneOpens'
        BY <1>0, <1>3 DEF WritePID
    <2>2. HolderOwnsFile'
        <3>1. file = [creator |-> p, written |-> FALSE]
            BY <1>3 DEF WritePID
        <3>2. file' = [creator |-> p, written |-> TRUE]
            BY <1>3, <3>1 DEF WritePID
        <3>3. ASSUME NEW q \in Procs, q # p PROVE pc[q] # "holding" /\ pc[q] # "writing"
            BY <1>3, <3>1, <3>3 DEF WritePID
        <3> QED
            BY <1>0, <1>3, <3>2, <3>3 DEF WritePID
    <2>3. RemoverIsAlone' /\ RetryFindsNone'
        BY <1>0, <1>3 DEF WritePID
    <2> QED
        BY <1>0, <2>1, <2>2, <2>3
<1>4. ASSUME NEW p \in Procs, Refuse(p) PROVE LockInv'
    BY <1>0, <1>4 DEF Refuse
<1>5. ASSUME NEW p \in Procs, FindStale(p) PROVE LockInv'
    BY <1>0, <1>5 DEF FindStale, HeldByLive, Alive
<1>6. ASSUME NEW p \in Procs, RemoveStale(p) PROVE LockInv'
    BY <1>0, <1>6 DEF RemoveStale
<1>7. ASSUME NEW p \in Procs, Recreate(p) PROVE LockInv'
    <2>1. OneOpens'
        BY <1>0, <1>7 DEF Recreate
    <2>2. HolderOwnsFile'
        BY <1>0, <1>7 DEF Recreate
    <2>3. RemoverIsAlone' /\ RetryFindsNone'
        BY <1>0, <1>7 DEF Recreate
    <2> QED
        BY <1>0, <2>1, <2>2, <2>3
<1>8. ASSUME NEW p \in Procs, StillContended(p) PROVE LockInv'
    BY <1>0, <1>8 DEF StillContended
<1>9. ASSUME NEW p \in Procs, Close(p) PROVE LockInv'
    BY <1>0, <1>9 DEF Close
<1>10. ASSUME NEW p \in Procs, Crash(p) PROVE LockInv'
    BY <1>0, <1>10 DEF Crash, Alive
<1>11. CASE UNCHANGED lockVars
    BY <1>11 DEF lockVars
<1> QED
    BY <1>1, <1>2, <1>3, <1>4, <1>5, <1>6, <1>7, <1>8, <1>9, <1>10, <1>11 DEF LockNext

Serial == "overlap" \notin happens => LockInv

LEMMA HappensStep == [LockNext]_lockVars => happens' = happens
    BY DEF LockNext, lockVars, Goto, Create, Contend, WritePID, Refuse, FindStale, RemoveStale,
           Recreate, StillContended, Close, Crash

LEMMA LockInvariance == LockSpec => []Serial
<1>1. LockInit => Serial
    BY DEF LockInit, Serial, LockInv, LockTypeOK, OneOpens, HolderOwnsFile, RemoverIsAlone,
           RetryFindsNone, Opening
<1>2. Serial /\ [LockNext]_lockVars => Serial'
    BY LockInvStep, HappensStep DEF Serial
<1> QED
    BY <1>1, <1>2, PTL DEF LockSpec

\* One agent at a time has the data directory, through crashes and reused PIDs,
\* if starts do not overlap; lock_race.cfg shows that they must not.
THEOREM Exclusive == LockSpec => []SerialExclusion
<1>1. Serial => SerialExclusion
    BY DEF Serial, LockInv, HolderOwnsFile, MutualExclusion, SerialExclusion
<1> QED
    BY <1>1, LockInvariance, PTL

-----------------------------------------------------------------------------
\* A PID that is not given out twice is not the one in the lock it contends for.
ReaderIsNew ==
    happens = {"crash"} =>
        /\ file # NoFile => file.creator \in used
        /\ \A p \in Procs : pc[p] = "reading" => file.creator # p

\* Where nobody dies, whoever created the file is still there.
CreatorIsThere ==
    "crash" \notin happens /\ file # NoFile => pc[file.creator] \in {"writing", "holding"}

LEMMA ReaderStep ==
    ASSUME LockTypeOK, Serial, ReaderIsNew, [LockNext]_lockVars
    PROVE  ReaderIsNew'
<1> SUFFICES ASSUME happens = {"crash"}
             PROVE  /\ file' # NoFile => file'.creator \in used'
                    /\ \A p \in Procs : pc'[p] = "reading" => file'.creator # p
    BY HappensStep DEF ReaderIsNew
<1> USE LockAssumption DEF Serial, LockInv, LockTypeOK, OneOpens, ReaderIsNew, Goto, NoFile,
                           Opening, Exists, Alive
<1>1. ASSUME NEW p \in Procs, Create(p) \/ Contend(p) PROVE ReaderIsNew'
    BY <1>1 DEF Create, Contend, Starts
<1>2. ASSUME NEW p \in Procs, WritePID(p) PROVE ReaderIsNew'
    BY <1>2 DEF WritePID
<1>3. ASSUME NEW p \in Procs, Refuse(p) \/ FindStale(p) \/ StillContended(p)
      PROVE  ReaderIsNew'
    BY <1>3 DEF Refuse, FindStale, StillContended
<1>4. ASSUME NEW p \in Procs, RemoveStale(p) \/ Recreate(p) \/ Close(p) \/ Crash(p)
      PROVE  ReaderIsNew'
    BY <1>4 DEF RemoveStale, Recreate, Close, Crash
<1>5. CASE UNCHANGED lockVars
    BY <1>5 DEF lockVars
<1>6. ReaderIsNew'
    BY <1>1, <1>2, <1>3, <1>4, <1>5 DEF LockNext
<1> QED
    BY <1>6, HappensStep

LEMMA CreatorStep ==
    ASSUME LockTypeOK, CreatorIsThere, [LockNext]_lockVars
    PROVE  CreatorIsThere'
<1> USE LockAssumption DEF LockTypeOK, CreatorIsThere, Goto, NoFile, Opening, Exists, Alive
<1>1. ASSUME NEW p \in Procs, Create(p) \/ Contend(p) PROVE CreatorIsThere'
    BY <1>1 DEF Create, Contend, Starts
<1>2. ASSUME NEW p \in Procs, WritePID(p) PROVE CreatorIsThere'
    BY <1>2 DEF WritePID
<1>3. ASSUME NEW p \in Procs, Refuse(p) \/ FindStale(p) \/ StillContended(p)
      PROVE  CreatorIsThere'
    BY <1>3 DEF Refuse, FindStale, StillContended
<1>4. ASSUME NEW p \in Procs, RemoveStale(p) \/ Recreate(p) \/ Close(p) \/ Crash(p)
      PROVE  CreatorIsThere'
    BY <1>4 DEF RemoveStale, Recreate, Close, Crash
<1>5. CASE UNCHANGED lockVars
    BY <1>5 DEF lockVars
<1> QED
    BY <1>1, <1>2, <1>3, <1>4, <1>5 DEF LockNext

\* A dead agent's lock keeps nobody out if starts do not overlap and PIDs are
\* not used again; where nobody dies, neither matters.
THEOREM StaleLockYields == LockSpec => RefusedOnlyByHolder
<1> DEFINE Justified ==
        ("crash" \in happens => happens = {"crash"}) =>
            \A p \in Procs : pc[p] # "refused" /\ pc'[p] = "refused" =>
                \E q \in Procs \ {p} : pc[q] \in {"writing", "holding"}
<1>1. LockInit => ReaderIsNew /\ CreatorIsThere
    BY DEF LockInit, ReaderIsNew, CreatorIsThere
<1>2. LockTypeOK /\ Serial /\ ReaderIsNew /\ [LockNext]_lockVars => ReaderIsNew'
    BY ReaderStep
<1>3. LockTypeOK /\ CreatorIsThere /\ [LockNext]_lockVars => CreatorIsThere'
    BY CreatorStep
<1>4. LockTypeOK /\ Serial /\ ReaderIsNew /\ CreatorIsThere /\ [LockNext]_lockVars => [Justified]_lockVars
    <2> SUFFICES ASSUME LockTypeOK, Serial, ReaderIsNew, CreatorIsThere, [LockNext]_lockVars,
                        "crash" \in happens => happens = {"crash"},
                        NEW p \in Procs, pc[p] # "refused", pc'[p] = "refused"
                 PROVE  \E q \in Procs \ {p} : pc[q] \in {"writing", "holding"}
        OBVIOUS
    <2> USE LockAssumption DEF LockTypeOK, Goto, Opening
    <2>1. Refuse(p) \/ StillContended(p)
        BY DEF LockNext, lockVars, Create, Contend, WritePID, Refuse, FindStale, RemoveStale,
               Recreate, StillContended, Close, Crash
    <2>2. file # NoFile /\ pc[p] \in {"reading", "retrying"}
        BY <2>1 DEF Refuse, StillContended, HeldByLive, Exists, NoFile
    <2>3. CASE "crash" \notin happens
        BY <2>2, <2>3 DEF CreatorIsThere, NoFile
    <2>4. CASE happens = {"crash"} /\ Refuse(p)
        <3>1. file.creator \in Procs \ {p} /\ pc[file.creator] = "holding"
            BY <2>4 DEF Refuse, HeldByLive, Alive, Serial, LockInv, OneOpens, ReaderIsNew,
                        NoFile, HolderOwnsFile
        <3> QED
            BY <3>1
    <2>5. CASE happens = {"crash"} /\ StillContended(p)
        BY <2>5 DEF StillContended, Serial, LockInv, RetryFindsNone, Exists
    <2> QED
        BY <2>1, <2>3, <2>4, <2>5
<1> QED
    BY <1>1, <1>2, <1>3, <1>4, LockInvariance, LockTypeCorrect, PTL DEF LockSpec, RefusedOnlyByHolder
=============================================================================
