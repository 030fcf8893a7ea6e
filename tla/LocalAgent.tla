----------------------------- MODULE LocalAgent -----------------------------
(***************************************************************************)
(* The server's LocalAgentManager: an agent run inside the server process, *)
(* started, stopped and switched by dashboard requests that only hold the  *)
(* manager's mutex for a part of what they do, beside the run's own        *)
(* goroutine and the drain loop that moves its queue into the database,    *)
(* which nobody waits for: it may still be at work beside later runs.      *)
(*                                                                         *)
(* Runs are numbered in the order they are started.  All of them use one   *)
(* data directory: agent.lock, agent-state.json, queue.ndjson.  The        *)
(* requests are those that pass the enabled and the owner check; the run's *)
(* start and its enforcing are reduced to what the manager depends on, see *)
(* AgentEnforcement.  Observations are numbered in the order of Enqueue,   *)
(* and a queue is the set of its numbers, as in ObservationQueue.          *)
(***************************************************************************)
EXTENDS Naturals, FiniteSets

CONSTANTS
    MaxRuns,      \* bound: Starts that succeed
    Stops,        \* Stop requests that may overlap
    MaxQueue,     \* FileStore.maxQueueEntries
    BatchSize,    \* localAgentDrainBatchSize
    MaxObs        \* bound: observations queued

ASSUME LocalAssumption ==
    /\ MaxRuns \in Nat
    /\ MaxObs \in Nat
    /\ MaxQueue \in Nat \ {0}
    /\ BatchSize \in Nat \ {0}

VARIABLES
    started,      \* number of runs so far
    current,      \* LocalAgentManager.a: its run, or 0
    shown,        \* LocalAgentManager.enforcing
    phase,        \* goroutine of each run: Agent.Run
    cancelled,    \* runs whose context is cancelled
    enforcing,    \* live runs whose Config.Enforce is set
    open,         \* runs whose store holds agent.lock
    queue,        \* FileStore.queue of each run's store
    drain,        \* drain loop of each run
    stopping,     \* the run each Stop request is about, or 0
    waiting,      \* Stop requests that wait for their run, without the mutex
    stateFile,    \* Enforcing in agent-state.json
    queueFile,    \* queue.ndjson
    produced,     \* number of observations queued so far
    delivered,    \* observations in the database
    accepted,     \* history: Enqueue returned no error, not dropped by the bound
    owed,         \* history: loaded or made by the last run, not dropped
    overtaken     \* history: a drain loop wrote the file after a later run's start

manager == <<started, current, shown, stopping, waiting>>
store == <<open, queue, queueFile>>
runs == <<phase, cancelled, enforcing, stateFile>>
observed == <<produced, accepted, owed>>
vars == <<manager, store, runs, observed, drain, delivered, overtaken>>

Runs == 1..MaxRuns
Ids == 1..MaxObs
Live == {r \in Runs : phase[r] \in {"starting", "loop"}}
Quiet == [pc |-> "ended", batch |-> {}]

TypeOK ==
    /\ started \in 0..MaxRuns
    /\ current \in 0..MaxRuns
    /\ shown \in BOOLEAN
    /\ phase \in [Runs -> {"none", "starting", "loop", "failed", "exited"}]
    /\ cancelled \subseteq Runs
    /\ enforcing \subseteq Runs
    /\ open \subseteq Runs
    /\ queue \in [Runs -> SUBSET Ids]
    /\ drain \in [Runs -> [pc : {"idle", "taken", "stored", "ended"}, batch : SUBSET Ids]]
    /\ stopping \in [Stops -> 0..MaxRuns]
    /\ waiting \subseteq Stops
    /\ stateFile \in BOOLEAN
    /\ queueFile \subseteq Ids
    /\ produced \in 0..MaxObs
    /\ delivered \subseteq Ids
    /\ accepted \subseteq Ids /\ owed \subseteq Ids
    /\ overtaken \in BOOLEAN
    /\ Live \subseteq open

-----------------------------------------------------------------------------
Init ==
    /\ started = 0
    /\ current = 0
    /\ shown = FALSE
    /\ phase = [r \in Runs |-> "none"]
    /\ cancelled = {}
    /\ enforcing = {}
    /\ open = {}
    /\ queue = [r \in Runs |-> {}]
    /\ drain = [r \in Runs |-> Quiet]
    /\ stopping = [s \in Stops |-> 0]
    /\ waiting = {}
    /\ stateFile = FALSE
    /\ queueFile = {}
    /\ produced = 0
    /\ delivered = {}
    /\ accepted = {} /\ owed = {}
    /\ overtaken = FALSE

\* Plausible bug: a Stop request keeps the manager's mutex while it waits.
HoldsUntilDone == {s \in Stops : stopping[s] # 0}

\* The Stop request that has LocalAgentManager.mu between two steps, if any;
\* every other use of the mutex begins and ends in one step.
HoldsMutex == {s \in Stops : stopping[s] # 0 /\ s \notin waiting}

\* Start: refused while an agent runs, or while one of the server's own runs
\* has agent.lock (its PID is alive); else store.Open and two goroutines.
\* Nothing looks at the drain loops of earlier runs.
Start ==
    LET r == started + 1
    IN  /\ HoldsMutex = {}
        /\ current = 0
        /\ open = {}
        /\ started < MaxRuns
        /\ started' = r
        /\ current' = r
        /\ shown' = FALSE
        /\ phase' = [phase EXCEPT ![r] = "starting"]
        /\ open' = {r}
        /\ queue' = [queue EXCEPT ![r] = queueFile]
        /\ owed' = queueFile
        /\ drain' = [drain EXCEPT ![r] = [pc |-> "idle", batch |-> {}]]
        /\ UNCHANGED <<cancelled, enforcing, stopping, waiting, stateFile, queueFile, produced,
                       delivered, accepted, overtaken>>

\* Stop reads the running agent under the mutex ...
BeginStop(s) ==
    /\ HoldsMutex = {}
    /\ stopping[s] = 0
    /\ current # 0
    /\ stopping' = [stopping EXCEPT ![s] = current]
    /\ UNCHANGED <<started, current, shown, waiting, runs, store, observed, drain, delivered,
                   overtaken>>

\* ... lets go of it, cancels that run, and waits.
CancelRun(s) ==
    /\ stopping[s] # 0
    /\ s \notin waiting
    /\ waiting' = waiting \cup {s}
    /\ cancelled' = cancelled \cup {stopping[s]}
    /\ UNCHANGED <<started, current, shown, stopping, phase, enforcing, stateFile,
                   store, observed, drain, delivered, overtaken>>

\* Plausible bug: Stop does not wait for the run's goroutine.
EndStopEarly(s) ==
    /\ HoldsMutex \subseteq {s}
    /\ s \in waiting
    /\ open' = open \ {stopping[s]}
    /\ current' = 0
    /\ shown' = FALSE
    /\ stopping' = [stopping EXCEPT ![s] = 0]
    /\ waiting' = waiting \ {s}
    /\ UNCHANGED <<started, runs, queue, queueFile, observed, drain, delivered, overtaken>>

\* Once the run's goroutine is done, Stop takes the mutex again, closes the
\* store it read before, and forgets whatever agent is current now.
EndStop(s) ==
    /\ HoldsMutex \subseteq {s}
    /\ s \in waiting
    /\ phase[stopping[s]] = "exited"
    /\ open' = open \ {stopping[s]}
    /\ current' = 0
    /\ shown' = FALSE
    /\ stopping' = [stopping EXCEPT ![s] = 0]
    /\ waiting' = waiting \ {s}
    /\ UNCHANGED <<started, runs, queue, queueFile, observed, drain, delivered, overtaken>>

\* SetEnforce only writes agent-state.json.
SetEnforce(on) ==
    /\ HoldsMutex = {}
    /\ current # 0
    /\ stateFile' = on
    /\ shown' = on
    /\ UNCHANGED <<started, current, stopping, waiting, phase, cancelled, enforcing, store,
                   observed, drain, delivered, overtaken>>

-----------------------------------------------------------------------------
\* The run's goroutine goes on, in Agent.Run or after it.
Goes(r, from, to) ==
    /\ phase[r] = from
    /\ phase' = [phase EXCEPT ![r] = to]
    /\ enforcing' = IF to = "exited" THEN enforcing \ {r} ELSE enforcing
    /\ UNCHANGED <<manager, cancelled, stateFile, store, observed, drain, delivered, overtaken>>

\* Agent.Run gets as far as its select loop, or returns an error.
RunBegins(r) == Goes(r, "starting", "loop")
RunFails(r) == Goes(r, "starting", IF r \in cancelled THEN "exited" ELSE "failed")

\* An error of a run that was not cancelled is kept in lastErr, under the
\* mutex, before Stop hears that the run is done.
ReportsError(r) == HoldsMutex = {} /\ Goes(r, "failed", "exited")

\* Its context is done: Run returns.
RunExits(r) == r \in cancelled /\ Goes(r, "loop", "exited")

\* reconcileState, when the firewall can be initialised.
Reconcile(r) ==
    /\ phase[r] = "loop"
    /\ enforcing' = IF stateFile THEN enforcing \cup {r} ELSE enforcing \ {r}
    /\ UNCHANGED <<manager, phase, cancelled, stateFile, store, observed, drain,
                   delivered, overtaken>>

-----------------------------------------------------------------------------
(* The queue.                                                              *)

\* The n oldest, and the n newest, entries of a queue.
Oldest(n, Q) == {o \in Q : Cardinality({p \in Q : p < o}) < n}
Newest(n, Q) == {o \in Q : Cardinality({p \in Q : p > o}) < n}

\* Every mutation of a store's queue writes the whole file, whether or not the
\* store has been closed; the write can fail, which changes memory only.
Save(r, ok) == queueFile' = IF ok THEN queue'[r] ELSE queueFile

\* handleEvent queues an observation; past the bound the oldest are dropped.
Observe(r, ok) ==
    LET o == produced + 1
        all == queue[r] \cup {o}
        kept == Newest(MaxQueue, all)
    IN  /\ phase[r] = "loop"
        /\ produced < MaxObs
        /\ produced' = o
        /\ queue' = [queue EXCEPT ![r] = kept]
        /\ Save(r, ok)
        /\ accepted' = (IF ok THEN accepted \cup {o} ELSE accepted) \ (all \ kept)
        /\ owed' = (owed \cup {o}) \ (all \ kept)
        /\ UNCHANGED <<manager, runs, open, drain, delivered, overtaken>>

-----------------------------------------------------------------------------
(* drainOnce.  A select that finds both the tick and the cancellation may  *)
(* take either, so a cancelled loop can still drain.                       *)

DrainTakes(r) ==
    /\ drain[r].pc = "idle"
    /\ queue[r] # {}
    /\ drain' = [drain EXCEPT ![r] = [pc |-> "taken", batch |-> Oldest(BatchSize, queue[r])]]
    /\ UNCHANGED <<manager, runs, store, observed, delivered, overtaken>>

DrainStores(r) ==
    /\ drain[r].pc = "taken"
    /\ delivered' = delivered \cup drain[r].batch
    /\ drain' = [drain EXCEPT ![r].pc = "stored"]
    /\ UNCHANGED <<manager, runs, store, observed, overtaken>>

\* Plausible bug: a batch the database refused is acked all the same.
DrainFailsAcked(r) ==
    /\ drain[r].pc = "taken"
    /\ drain' = [drain EXCEPT ![r].pc = "stored"]
    /\ UNCHANGED <<manager, runs, store, observed, delivered, overtaken>>

DrainFails(r) ==
    /\ drain[r].pc = "taken"
    /\ drain' = [drain EXCEPT ![r] = [pc |-> "idle", batch |-> {}]]
    /\ UNCHANGED <<manager, runs, store, observed, delivered, overtaken>>

\* Plausible bug: as many entries as were stored are removed from the front,
\* instead of those that were stored.
DrainAcksByPosition(r, ok) ==
    /\ drain[r].pc = "stored"
    /\ queue' = [queue EXCEPT ![r] = @ \ Oldest(Cardinality(drain[r].batch), @)]
    /\ Save(r, ok)
    /\ overtaken' = (overtaken \/ (ok /\ r # started))
    /\ drain' = [drain EXCEPT ![r] = [pc |-> "idle", batch |-> {}]]
    /\ UNCHANGED <<manager, runs, open, observed, delivered>>

\* Ack removes the batch from its own store's queue and writes that.
DrainAcks(r, ok) ==
    /\ drain[r].pc = "stored"
    /\ queue' = [queue EXCEPT ![r] = @ \ drain[r].batch]
    /\ Save(r, ok)
    /\ overtaken' = (overtaken \/ (ok /\ r # started))
    /\ drain' = [drain EXCEPT ![r] = [pc |-> "idle", batch |-> {}]]
    /\ UNCHANGED <<manager, runs, open, observed, delivered>>

DrainEnds(r) ==
    /\ drain[r].pc = "idle"
    /\ r \in cancelled
    /\ drain' = [drain EXCEPT ![r] = Quiet]
    /\ UNCHANGED <<manager, runs, store, observed, delivered, overtaken>>

-----------------------------------------------------------------------------
\* The server process dies and is started again: the lock it left is stale.
Restart ==
    /\ current' = 0
    /\ shown' = FALSE
    /\ phase' = [r \in Runs |-> IF phase[r] = "none" THEN "none" ELSE "exited"]
    /\ cancelled' = {}
    /\ enforcing' = {}
    /\ open' = {}
    /\ queue' = [r \in Runs |-> {}]
    /\ drain' = [r \in Runs |-> Quiet]
    /\ stopping' = [s \in Stops |-> 0]
    /\ waiting' = {}
    /\ UNCHANGED <<started, stateFile, queueFile, observed, delivered, overtaken>>

Next ==
    \/ Start
    \/ \E s \in Stops : BeginStop(s)
    \/ \E s \in Stops : CancelRun(s)
    \/ \E s \in Stops : EndStop(s)
    \/ \E on \in BOOLEAN : SetEnforce(on)
    \/ \E r \in Runs : RunBegins(r)
    \/ \E r \in Runs : RunFails(r)
    \/ \E r \in Runs : ReportsError(r)
    \/ \E r \in Runs : RunExits(r)
    \/ \E r \in Runs : Reconcile(r)
    \/ \E r \in Runs, ok \in BOOLEAN : Observe(r, ok)
    \/ \E r \in Runs : DrainTakes(r)
    \/ \E r \in Runs : DrainStores(r)
    \/ \E r \in Runs : DrainFails(r)
    \/ \E r \in Runs, ok \in BOOLEAN : DrainAcks(r, ok)
    \/ \E r \in Runs : DrainEnds(r)
    \/ Restart

Spec == Init /\ [][Next]_vars

\* The run's goroutine and a Stop request are scheduled; Go's select takes the
\* cancellation in the end, whatever else is ready.
Fairness ==
    /\ WF_vars(\E r \in Runs : RunBegins(r) \/ RunFails(r))
    /\ SF_vars(\E r \in Runs : ReportsError(r))
    /\ WF_vars(\E r \in Runs : RunExits(r))
    /\ WF_vars(\E s \in Stops : CancelRun(s))
    /\ \A s \in Stops : SF_vars(EndStop(s))

FairSpec == Spec /\ Fairness

-----------------------------------------------------------------------------
\* However requests interleave, at most one run of the server touches the
\* host: the lock is released only after the run that has it is over.
AtMostOneRun == \A r, q \in Live : r = q

\* While its store is open, the running agent keeps each observation that it
\* made or found on disk until the database has it or the bound drops it:
\* through failed inserts and failed writes, and whatever drain loops of
\* earlier runs still store, ack or write beside it.
HeldUntilDelivered ==
    open # {} => owed \subseteq queue[started] \cup delivered

\* An observation whose Enqueue returned without an error is in the queue file
\* until the database has it or the bound drops it, through failed inserts and
\* writes, evictions of a batch in flight, stops, restarts and drain loops that
\* outlive their run ("never Ack a batch that wasn't actually persisted"); up
\* to the moment when such a loop has overwritten a later run's file.
NothingLost == ~overtaken => accepted \subseteq queueFile \cup delivered

\* The same without an exception: Stop "waits for its goroutines to exit", and
\* "queue state is already durable on disk".
AlreadyDurable == accepted \subseteq queueFile \cup delivered

\* A run that the manager no longer shows has been told to stop and is being
\* waited for: Stop "cancels the running agent, waits for its goroutines to
\* exit, and releases the store's lock file".
NoOrphan == \A r \in Live : current = r \/ \E s \in Stops : stopping[s] = r

\* A run "always starts in dry run" and enforces only after SetEnforce(on):
\* "a web click should never be the thing that first arms a firewall backend".
ArmedOnlyWhenAsked == current \in enforcing /\ stateFile => shown

\* Stop returns, also when the run is still starting, fails, or is stopped
\* twice.
StopReturns == \A s \in Stops : stopping[s] # 0 ~> stopping[s] = 0
=============================================================================
