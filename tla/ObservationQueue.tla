-------------------------- MODULE ObservationQueue --------------------------
(***************************************************************************)
(* The agent's observation queue: FileStore's in-memory queue and its copy *)
(* queue.ndjson, the agent loop that enqueues, the syncEnrollment          *)
(* goroutines that upload the head of the queue in batches and remove it   *)
(* only after a 2xx reply, and the server that stores a batch.             *)
(*                                                                         *)
(* Observations are numbered in the order handleEvent enqueues them.  The  *)
(* code appends at the back, drops from the front and filters in place, so *)
(* the queue is always ascending and is modelled by the set of its         *)
(* numbers: its head is its smallest elements.                             *)
(***************************************************************************)
EXTENDS Naturals, FiniteSets

CONSTANTS
    Syncs,        \* syncEnrollment goroutines that may overlap
    MaxQueue,     \* FileStore.maxQueueEntries
    BatchSize,    \* uploadBatchSize
    Faults,       \* which of "save" (a write fails) and "net" (no reply) happen
    MaxObs,       \* bound: observations enqueued
    MaxCrashes,   \* bound: times the agent process ends
    MaxOrphans    \* bound: requests that outlive their sender at one time

ASSUME QueueAssumption ==
    /\ MaxQueue \in Nat \ {0}
    /\ BatchSize \in Nat \ {0}
    /\ MaxObs \in Nat
    /\ MaxCrashes \in Nat
    /\ MaxOrphans \in Nat

VARIABLES
    running,      \* the agent process is up
    uploading,    \* this process was started enrolled (Agent.Uploader # nil)
    enrolled,     \* enrollment.json exists
    produced,     \* number of observations enqueued so far
    queue,        \* FileStore.queue
    disk,         \* queue.ndjson
    sync,         \* per goroutine: where UploadPending stands, and its batch
    orphans,      \* requests whose sender is gone but that may still arrive
    incidents,    \* server: 0, 1 or several (2) incidents per observation
    accepted,     \* history: Enqueue returned no error
    evicted,      \* history: dropped by the bound while still queued
    crashes       \* bound on Exit

vars == <<running, uploading, enrolled, produced, queue, disk, sync, orphans,
          incidents, accepted, evicted, crashes>>

Ids == 1..MaxObs

TypeOK ==
    /\ running \in BOOLEAN
    /\ uploading \in BOOLEAN
    /\ enrolled \in BOOLEAN
    /\ produced \in 0..MaxObs
    /\ queue \subseteq 1..produced
    /\ disk \subseteq 1..produced
    /\ sync \in [Syncs -> [pc : {"idle", "posted", "stored"}, batch : SUBSET (1..produced)]]
    /\ orphans \subseteq SUBSET (1..produced)
    /\ incidents \in [Ids -> 0..2]
    /\ accepted \subseteq 1..produced
    /\ evicted \subseteq 1..produced
    /\ crashes \in 0..MaxCrashes
    /\ Cardinality(queue) <= MaxQueue
    /\ Cardinality(disk) <= MaxQueue

-----------------------------------------------------------------------------
\* Plausible bugs in the two selections: one entry too many is kept, the drop
\* is at the wrong end, too much is dropped.
NewestOffByOne(n, Q) == {o \in Q : Cardinality({p \in Q : p > o}) <= n}
NewestWrongEnd(n, Q) == {o \in Q : Cardinality({p \in Q : p < o}) < n}
NewestHalves(n, Q) ==
    {o \in Q : Cardinality(Q) > n => Cardinality({p \in Q : p > o}) < n \div 2}

\* The n oldest, and the n newest, entries of a queue.
Oldest(n, Q) == {o \in Q : Cardinality({p \in Q : p < o}) < n}
Newest(n, Q) == {o \in Q : Cardinality({p \in Q : p > o}) < n}

Idle == [pc |-> "idle", batch |-> {}]

\* Plausible bug: an observation that cannot be inserted is skipped instead of
\* failing its batch.
CreateIncidentsSkipping(batch) ==
    \E skipped \in SUBSET batch :
        incidents' = [o \in Ids |->
            IF o \in batch \ skipped /\ incidents[o] < 2 THEN incidents[o] + 1 ELSE incidents[o]]

\* The server inserts one incident per observation of a batch; it never
\* recognises an observation it has stored before.
CreateIncidents(batch) ==
    incidents' = [o \in Ids |->
        IF o \notin batch THEN incidents[o]
        ELSE IF incidents[o] = 0 THEN 1 ELSE 2]

\* A mutation of the queue writes the whole file; the write can fail, which
\* leaves the previous file in place and the memory changed.
Save(ok) ==
    /\ ~ok => "save" \in Faults
    /\ disk' = IF ok THEN queue' ELSE disk

\* Requests left without a sender: the network delivers some of them, later.
Abandon(batches) ==
    \E late \in SUBSET batches :
        /\ orphans' = orphans \cup late
        /\ Cardinality(orphans') <= MaxOrphans

Init ==
    /\ running = FALSE
    /\ uploading = FALSE
    /\ enrolled = FALSE
    /\ produced = 0
    /\ queue = {}
    /\ disk = {}
    /\ sync = [s \in Syncs |-> Idle]
    /\ orphans = {}
    /\ incidents = [o \in Ids |-> 0]
    /\ accepted = {}
    /\ evicted = {}
    /\ crashes = 0

\* `agent enroll` writes enrollment.json; a running agent does not notice.
Enroll ==
    /\ enrolled' = TRUE
    /\ UNCHANGED <<running, uploading, produced, queue, disk, sync, orphans,
                   incidents, accepted, evicted, crashes>>

\* `agent run` opens the store, loads the queue and the enrollment.
Start ==
    /\ ~running
    /\ running' = TRUE
    /\ queue' = disk
    /\ uploading' = enrolled
    /\ UNCHANGED <<enrolled, produced, disk, sync, orphans, incidents, accepted,
                   evicted, crashes>>

\* handleEvent queues an observation; past the bound the oldest are dropped.
Enqueue(ok) ==
    LET o == produced + 1
        all == queue \cup {o}
    IN  /\ running
        /\ produced < MaxObs
        /\ produced' = o
        /\ queue' = Newest(MaxQueue, all)
        /\ evicted' = evicted \cup (all \ queue')
        /\ Save(ok)
        /\ accepted' = IF ok THEN accepted \cup {o} ELSE accepted
        /\ UNCHANGED <<running, uploading, enrolled, sync, orphans, incidents, crashes>>

\* A plausible bug: wait for a full batch before posting.
PostFullOnly(s) ==
    /\ running
    /\ uploading
    /\ sync[s].pc = "idle"
    /\ Cardinality(queue) >= BatchSize
    /\ sync' = [sync EXCEPT ![s] = [pc |-> "posted", batch |-> Oldest(BatchSize, queue)]]
    /\ UNCHANGED <<running, uploading, enrolled, produced, queue, disk, orphans,
                   incidents, accepted, evicted, crashes>>

\* UploadPending copies the head of the queue and posts it.
Post(s) ==
    /\ running
    /\ uploading
    /\ sync[s].pc = "idle"
    /\ queue # {}
    /\ sync' = [sync EXCEPT ![s] = [pc |-> "posted", batch |-> Oldest(BatchSize, queue)]]
    /\ UNCHANGED <<running, uploading, enrolled, produced, queue, disk, orphans,
                   incidents, accepted, evicted, crashes>>

\* POST /v1/observations inserts the whole batch in one transaction.
Ingest(s) ==
    /\ sync[s].pc = "posted"
    /\ CreateIncidents(sync[s].batch)
    /\ sync' = [sync EXCEPT ![s].pc = "stored"]
    /\ UNCHANGED <<running, uploading, enrolled, produced, queue, disk, orphans,
                   accepted, evicted, crashes>>

\* The server answers with an error: nothing stored, nothing acked.
Refuse(s) ==
    /\ "net" \in Faults
    /\ sync[s].pc = "posted"
    /\ sync' = [sync EXCEPT ![s] = Idle]
    /\ UNCHANGED <<running, uploading, enrolled, produced, queue, disk, orphans,
                   incidents, accepted, evicted, crashes>>

\* Client.Do fails or times out; the request itself may still arrive.
PostFails(s) ==
    /\ "net" \in Faults
    /\ sync[s].pc = "posted"
    /\ Abandon({sync[s].batch})
    /\ sync' = [sync EXCEPT ![s] = Idle]
    /\ UNCHANGED <<running, uploading, enrolled, produced, queue, disk,
                   incidents, accepted, evicted, crashes>>

\* The batch is stored but the reply never reaches the agent.
ReplyLost(s) ==
    /\ "net" \in Faults
    /\ sync[s].pc = "stored"
    /\ sync' = [sync EXCEPT ![s] = Idle]
    /\ UNCHANGED <<running, uploading, enrolled, produced, queue, disk, orphans,
                   incidents, accepted, evicted, crashes>>

\* Plausible bug: ack as many entries as were sent, from the front, instead of
\* those that were sent.
AckByPosition(s, ok) ==
    /\ sync[s].pc = "stored"
    /\ queue' = queue \ Oldest(Cardinality(sync[s].batch), queue)
    /\ Save(ok)
    /\ sync' = [sync EXCEPT ![s] = Idle]
    /\ UNCHANGED <<running, uploading, enrolled, produced, orphans, incidents,
                   accepted, evicted, crashes>>

\* A 2xx reply: Ack removes the batch from the queue, wherever it now is.
AckBatch(s, ok) ==
    /\ sync[s].pc = "stored"
    /\ queue' = queue \ sync[s].batch
    /\ Save(ok)
    /\ sync' = [sync EXCEPT ![s] = Idle]
    /\ UNCHANGED <<running, uploading, enrolled, produced, orphans, incidents,
                   accepted, evicted, crashes>>

\* A request whose sender gave up or died reaches the server after all.
IngestLate(batch) ==
    /\ batch \in orphans
    /\ CreateIncidents(batch)
    /\ orphans' = orphans \ {batch}
    /\ UNCHANGED <<running, uploading, enrolled, produced, queue, disk, sync,
                   accepted, evicted, crashes>>

\* The process ends, by a crash or by a signal (Run waits for the sources,
\* never for a syncEnrollment goroutine): memory is gone, requests are not.
Exit ==
    /\ running
    /\ crashes < MaxCrashes
    /\ crashes' = crashes + 1
    /\ running' = FALSE
    /\ uploading' = FALSE
    /\ queue' = {}
    /\ Abandon({sync[s].batch : s \in {t \in Syncs : sync[t].pc = "posted"}})
    /\ sync' = [s \in Syncs |-> Idle]
    /\ UNCHANGED <<enrolled, produced, disk, incidents, accepted, evicted>>

Next ==
    \/ Enroll
    \/ Start
    \/ Exit
    \/ \E ok \in BOOLEAN : Enqueue(ok)
    \/ \E s \in Syncs : Post(s)
    \/ \E s \in Syncs : Ingest(s)
    \/ \E s \in Syncs : Refuse(s)
    \/ \E s \in Syncs : PostFails(s)
    \/ \E s \in Syncs : ReplyLost(s)
    \/ \E s \in Syncs, ok \in BOOLEAN : AckBatch(s, ok)
    \/ \E b \in orphans : IngestLate(b)

Spec == Init /\ [][Next]_vars

\* The sync ticker fires for ever and every request ends (30 s timeout); a
\* server that is reachable again and again stores a batch again and again.
Fairness ==
    \A s \in Syncs :
        /\ WF_vars(Post(s))
        /\ SF_vars(Ingest(s))
        /\ SF_vars(\E ok \in BOOLEAN : AckBatch(s, ok))

FairSpec == Spec /\ Fairness

-----------------------------------------------------------------------------
Delivered == {o \in Ids : incidents[o] > 0}

\* An observation whose Enqueue returned without an error is on disk, on the
\* server, or was dropped by the bound: neither a failed upload, a lost reply,
\* overlapping syncs nor a crash between two steps loses one silently
\* (uploader.go: "never silently lossy").
NeverSilentlyLossy == accepted \subseteq disk \cup Delivered \cup evicted

\* Enqueue gives up an observation only when MaxQueue newer ones have been
\* recorded: a burst never costs a recent observation, whatever was acked or
\* reloaded in between.
OnlyOverrunEvicts == \A o \in evicted : o + MaxQueue <= produced

\* The server's record has no holes: when an observation has arrived, every
\* older one that was safely queued has arrived too or was dropped by the
\* bound, although uploads overlap, retry and arrive after their sender died.
NoGaps ==
    \A o \in Delivered, p \in accepted : p < o => p \in Delivered \cup evicted

\* Once an enrolled agent stays up, every safely queued observation reaches
\* the server or is dropped by the bound: no batch blocks those behind it.
EventuallyDelivered ==
    <>[](running /\ uploading) =>
        \A o \in Ids : o \in accepted ~> o \in Delivered \cup evicted

\* The queue, its file, the requests and the crashes implement the outbox.
O == INSTANCE Outbox WITH Capacity <- MaxQueue, recorded <- produced,
         kept <- accepted, delivered <- Delivered, forgotten <- evicted
OutboxSpec == O!Spec
=============================================================================
