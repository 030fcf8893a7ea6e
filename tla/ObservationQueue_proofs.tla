---------------------- MODULE ObservationQueue_proofs ----------------------
(***************************************************************************)
(* The observation queue, for every number of goroutines, every bound and  *)
(* every fault: type correctness, that nothing safely queued is lost, that *)
(* only an overrun evicts, that the server's record has no gaps, and that  *)
(* every step is a step of Outbox.  The argument is the inductive          *)
(* invariant Inv: what is safe is in memory as well as on disk, a batch    *)
(* waiting for its Ack is stored, and every request was cut from the head  *)
(* of the queue, so nothing older than it is still waiting elsewhere.      *)
(***************************************************************************)
EXTENDS ObservationQueue, TLAPS, FiniteSetTheorems, WellFoundedInduction

USE DEF Ids, Idle

-----------------------------------------------------------------------------
(* The two selections from a queue.                                        *)

\* A non-empty set of naturals has a least element.
LEMMA LeastNat ==
    ASSUME NEW T, T \subseteq Nat, T # {}
    PROVE  \E m \in T : \A y \in T : m <= y
<1>1. PICK x \in T : \A y \in T : ~(<<y, x>> \in OpToRel(<, Nat))
  BY NatLessThanWellFounded, WFMin
<1>2. \A y \in T : ~ (y < x)
  BY <1>1 DEF OpToRel
<1> QED
  BY <1>2

\* A set of numbers up to k is finite.
LEMMA UpToFinite ==
    ASSUME NEW k \in Nat, NEW Q, Q \subseteq 1..k
    PROVE  IsFiniteSet(Q) /\ Cardinality(Q) \in Nat
<1>1. IsFiniteSet(1..k)
  BY FS_Interval
<1>2. IsFiniteSet(Q)
  BY <1>1, FS_Subset
<1> QED
  BY <1>2, FS_CardinalityType

\* Trimming to the n newest leaves at most n entries.
LEMMA NewestBound ==
    ASSUME NEW k \in Nat, NEW Q, Q \subseteq 1..k, NEW n \in Nat \ {0}
    PROVE  Newest(n, Q) \subseteq Q /\ Cardinality(Newest(n, Q)) <= n
<1> DEFINE N == Newest(n, Q)
<1>0. Q \subseteq Nat
  OBVIOUS
<1>1. N \subseteq Q /\ N \subseteq Nat
  BY <1>0 DEF Newest
<1>2. CASE N = {}
  BY <1>1, <1>2, FS_EmptySet
<1>3. CASE N # {}
  <2>1. PICK m \in N : \A y \in N : m <= y
    BY <1>1, <1>3, LeastNat
  <2> DEFINE Above == {p \in Q : p > m}
  <2>2. IsFiniteSet(Above) /\ Cardinality(Above) < n
    BY <2>1, FS_Subset, UpToFinite DEF Newest
  <2>3. N \ {m} \subseteq Above
    BY <1>1, <2>1
  <2>4. Cardinality(N \ {m}) <= Cardinality(Above)
    BY <2>2, <2>3, FS_Subset
  <2>5. IsFiniteSet(N) /\ Cardinality(N) \in Nat
    BY <1>1, UpToFinite
  <2>6. Cardinality(N \ {m}) = Cardinality(N) - 1
    BY <2>1, <2>5, FS_RemoveElement
  <2>7. Cardinality(Above) \in Nat
    BY <2>2, FS_CardinalityType
  <2> QED
    BY <1>1, <2>2, <2>4, <2>5, <2>6, <2>7
<1> QED
  BY <1>2, <1>3

\* What trimming drops has n newer entries above it.
LEMMA TrimmedOverrun ==
    ASSUME NEW k \in Nat, NEW Q, Q \subseteq 1..k, NEW n \in Nat,
           NEW o \in Q \ Newest(n, Q)
    PROVE  o + n <= k
<1> DEFINE Above == {p \in Q : p > o}
<1>1. o \in Nat /\ o >= 1 /\ o <= k
  OBVIOUS
<1>2. Above \subseteq (o+1)..k
  <2>1. ASSUME NEW p \in Q, p > o  PROVE  p \in (o+1)..k
    BY <1>1, <2>1
  <2> QED
    BY <2>1
<1>3. IsFiniteSet((o+1)..k) /\ Cardinality((o+1)..k) = k - o
  BY <1>1, FS_Interval
<1>4. Cardinality(Above) <= k - o
  BY <1>2, <1>3, FS_Subset
<1>5. Cardinality(Above) \in Nat /\ ~(Cardinality(Above) < n)
  BY UpToFinite, Above \subseteq 1..k DEF Newest
<1> QED
  BY <1>1, <1>4, <1>5

\* A batch is a prefix of the queue: it holds all entries older than its own.
LEMMA OldestIsPrefix ==
    ASSUME NEW k \in Nat, NEW Q, Q \subseteq 1..k, NEW n \in Nat,
           NEW o \in Oldest(n, Q), NEW p \in Q, p < o
    PROVE  p \in Oldest(n, Q)
<1> DEFINE Below(x) == {q \in Q : q < x}
<1>0. o \in Q /\ o \in Nat /\ p \in Nat /\ Q \subseteq Nat
  BY DEF Oldest
<1>1. Below(o) \subseteq 1..k /\ Below(p) \subseteq Below(o)
  <2>1. ASSUME NEW q \in Below(p)  PROVE  q \in Below(o)
    <3>1. q \in Q /\ q \in Nat /\ q < p
      BY <1>0
    <3> QED
      BY <1>0, <3>1
  <2> QED
    BY <2>1
<1>2. IsFiniteSet(Below(o)) /\ Cardinality(Below(o)) \in Nat /\ Cardinality(Below(o)) < n
  BY <1>1, UpToFinite DEF Oldest
<1>3. Cardinality(Below(p)) <= Cardinality(Below(o)) /\ Cardinality(Below(p)) \in Nat
  BY <1>1, <1>2, FS_Subset, UpToFinite
<1> QED
  BY <1>2, <1>3 DEF Oldest

\* Removing entries from a queue never makes it longer.
LEMMA SmallerQueue ==
    ASSUME NEW k \in Nat, NEW Q, Q \subseteq 1..k, NEW R \in SUBSET Q
    PROVE  Cardinality(R) <= Cardinality(Q) /\ Cardinality(R) \in Nat
BY UpToFinite, FS_Subset, R \subseteq 1..k

-----------------------------------------------------------------------------
(* The inductive invariant.                                                *)

Covered(p) == p \in Delivered \cup evicted

\* A request was cut from the head: what is older than it is covered.
Prefix(batch) == \A o \in batch, p \in accepted : p < o => p \in batch \/ Covered(p)

InMemory == running => accepted \subseteq queue \cup Delivered \cup evicted
OnlyWhileRunning == \A s \in Syncs : sync[s].pc # "idle" => running
AckedIsStored == \A s \in Syncs : sync[s].pc = "stored" => sync[s].batch \subseteq Delivered
SentIsPrefix == \A s \in Syncs : Prefix(sync[s].batch)
LateIsPrefix == \A b \in orphans : Prefix(b)
DeliveredWasProduced == Delivered \subseteq 1..produced

Inv ==
    /\ TypeOK
    /\ InMemory
    /\ OnlyWhileRunning
    /\ AckedIsStored
    /\ SentIsPrefix
    /\ LateIsPrefix
    /\ DeliveredWasProduced
    /\ NeverSilentlyLossy
    /\ OnlyOverrunEvicts
    /\ NoGaps

\* Storing a batch adds it to what the server holds, and nothing else.
LEMMA StoresBatch ==
    ASSUME TypeOK, NEW batch, batch \subseteq 1..produced, CreateIncidents(batch)
    PROVE  /\ incidents' \in [Ids -> 0..2]
           /\ Delivered' = Delivered \cup batch
<1>1. batch \subseteq Ids
  <2>1. ASSUME NEW o \in batch  PROVE  o \in Ids
    BY QueueAssumption DEF TypeOK
  <2> QED
    BY <2>1
<1>2. incidents' \in [Ids -> 0..2]
  BY DEF TypeOK, CreateIncidents
<1>3. ASSUME NEW o \in Ids
      PROVE  incidents'[o] > 0 <=> incidents[o] > 0 \/ o \in batch
  BY <1>3 DEF TypeOK, CreateIncidents
<1> QED
  BY <1>1, <1>2, <1>3 DEF Delivered

\* What is waiting stays between the two bounds of the numbers handed out.
LEMMA MoreProduced ==
    ASSUME NEW m \in Nat, NEW Q, Q \subseteq 1..m
    PROVE  Q \subseteq 1..(m + 1) /\ Q \cup {m + 1} \subseteq 1..(m + 1)
<1>1. ASSUME NEW x \in Q  PROVE  x \in 1..(m + 1)
  BY <1>1
<1> QED
  BY <1>1

-----------------------------------------------------------------------------
(* The initial states satisfy the invariant.                               *)

LEMMA InitInv == Init => Inv
<1> SUFFICES ASSUME Init  PROVE  Inv
  OBVIOUS
<1>1. Cardinality({}) = 0
  BY FS_EmptySet
<1>2. TypeOK
  <2>1. sync \in [Syncs -> [pc : {"idle", "posted", "stored"}, batch : SUBSET (1..produced)]]
    BY DEF Init
  <2>2. incidents \in [Ids -> 0..2]
    BY DEF Init
  <2>3. Cardinality(queue) <= MaxQueue /\ Cardinality(disk) <= MaxQueue
    BY <1>1, QueueAssumption DEF Init
  <2>4. produced \in 0..MaxObs /\ crashes \in 0..MaxCrashes
    BY QueueAssumption DEF Init
  <2> QED
    BY <2>1, <2>2, <2>3, <2>4 DEF Init, TypeOK
<1>3. Delivered = {}
  BY DEF Init, Delivered
<1> QED
  BY <1>2, <1>3 DEF Init, Inv, InMemory, OnlyWhileRunning, AckedIsStored, SentIsPrefix,
     LateIsPrefix, Prefix, DeliveredWasProduced, NeverSilentlyLossy, OnlyOverrunEvicts, NoGaps
-----------------------------------------------------------------------------
(* Every step preserves the invariant: one lemma per action that moves an  *)
(* observation, and the remaining ones together.                           *)

\* A request stays a prefix while what covers it only grows and what becomes
\* safe is newer than it.
LEMMA PrefixKept ==
    ASSUME NEW batch, Prefix(batch),
           Delivered \subseteq Delivered', evicted \subseteq evicted',
           \A p \in accepted' \ accepted, o \in batch : ~(p < o)
    PROVE  Prefix(batch)'
BY DEF Prefix, Covered

LEMMA EnqueueInv ==
    ASSUME Inv, NEW ok \in BOOLEAN, Enqueue(ok)
    PROVE  Inv'
<1> DEFINE new == produced + 1
           all == queue \cup {new}
<1>1. /\ produced' = new /\ new \in 1..MaxObs /\ produced \in Nat
      /\ queue' = Newest(MaxQueue, all)
      /\ evicted' = evicted \cup (all \ queue')
      /\ disk' \in {queue', disk} /\ (ok => disk' = queue')
      /\ accepted' = IF ok THEN accepted \cup {new} ELSE accepted
      /\ running /\ running' = running /\ sync' = sync /\ orphans' = orphans
      /\ UNCHANGED <<uploading, enrolled, incidents, crashes>>
  BY QueueAssumption DEF Inv, TypeOK, Enqueue, Save
<1>2. Delivered' = Delivered
  BY <1>1 DEF Delivered
<1>3. all \subseteq 1..new
  BY <1>1, MoreProduced DEF Inv, TypeOK
<1>4. queue' \subseteq all /\ Cardinality(queue') <= MaxQueue
  <2>1. new \in Nat /\ MaxQueue \in Nat \ {0}
    BY <1>1, QueueAssumption
  <2> HIDE DEF all, new
  <2>2. Newest(MaxQueue, all) \subseteq all /\ Cardinality(Newest(MaxQueue, all)) <= MaxQueue
    BY <2>1, <1>3, NewestBound
  <2> QED
    BY <1>1, <2>2
<1>5. ASSUME NEW Q, Q \subseteq 1..produced  PROVE  Q \subseteq 1..new
  BY <1>1, <1>5, MoreProduced
<1>6. TypeOK'
  <2>1. sync' \in [Syncs -> [pc : {"idle", "posted", "stored"}, batch : SUBSET (1..produced')]]
    <3>1. SUBSET (1..produced) \subseteq SUBSET (1..new)
      BY <1>5
    <3> QED
      BY <1>1, <3>1 DEF Inv, TypeOK
  <2>2. orphans' \subseteq SUBSET (1..produced')
    BY <1>1, <1>5 DEF Inv, TypeOK
  <2>3. queue' \subseteq 1..produced' /\ disk' \subseteq 1..produced'
    BY <1>1, <1>3, <1>4, <1>5 DEF Inv, TypeOK
  <2>4. accepted' \subseteq 1..produced' /\ evicted' \subseteq 1..produced'
    <3>1. accepted \subseteq 1..new /\ evicted \subseteq 1..new
      BY <1>5 DEF Inv, TypeOK
    <3> QED
      BY <1>1, <1>3, <3>1
  <2>5. Cardinality(disk') <= MaxQueue
    BY <1>1, <1>4 DEF Inv, TypeOK
  <2>6. produced' \in 0..MaxObs
    BY <1>1
  <2> QED
    BY <1>1, <1>4, <2>1, <2>2, <2>3, <2>4, <2>5, <2>6 DEF Inv, TypeOK
<1>7. accepted' \subseteq queue' \cup Delivered' \cup evicted'
  BY <1>1, <1>2 DEF Inv, InMemory
<1>8. NeverSilentlyLossy'
  BY <1>1, <1>2, <1>7 DEF Inv, NeverSilentlyLossy
<1>9. \A o \in 1..produced : ~(new < o)
  BY <1>1
<1>10. SentIsPrefix' /\ LateIsPrefix'
  <2>1. \A s \in Syncs : sync[s].batch \subseteq 1..produced
    BY DEF Inv, TypeOK
  <2>2. ASSUME NEW batch, batch \subseteq 1..produced, Prefix(batch)  PROVE  Prefix(batch)'
    BY <1>1, <1>2, <1>9, <2>2, PrefixKept
  <2> QED
    BY <1>1, <2>1, <2>2 DEF Inv, TypeOK, SentIsPrefix, LateIsPrefix, Prefix, Covered
<1>11. OnlyOverrunEvicts'
  <2>1. ASSUME NEW o \in all \ queue'  PROVE  o + MaxQueue <= produced'
    BY <1>1, <1>3, <2>1, TrimmedOverrun, QueueAssumption
  <2>2. ASSUME NEW o \in evicted  PROVE  o + MaxQueue <= produced'
    <3>1. o \in Nat /\ o + MaxQueue <= produced
      BY DEF Inv, TypeOK, OnlyOverrunEvicts
    <3> QED
      BY <1>1, <3>1, QueueAssumption
  <2> QED
    BY <1>1, <2>1, <2>2 DEF OnlyOverrunEvicts
<1>12. NoGaps'
  BY <1>1, <1>2, <1>9 DEF Inv, NoGaps, DeliveredWasProduced
<1>13. DeliveredWasProduced'
  BY <1>1, <1>2, <1>5 DEF Inv, DeliveredWasProduced
<1> QED
  BY <1>1, <1>2, <1>6, <1>7, <1>8, <1>10, <1>11, <1>12, <1>13
  DEF Inv, InMemory, OnlyWhileRunning, AckedIsStored

LEMMA PostInv ==
    ASSUME Inv, NEW s \in Syncs, Post(s)
    PROVE  Inv'
<1> DEFINE batch == Oldest(BatchSize, queue)
<1>1. batch \subseteq queue /\ queue \subseteq 1..produced /\ produced \in Nat
  BY QueueAssumption DEF Oldest, Inv, TypeOK
<1>2. /\ running
      /\ sync' = [sync EXCEPT ![s] = [pc |-> "posted", batch |-> batch]]
      /\ UNCHANGED <<running, uploading, enrolled, produced, queue, disk, orphans,
                     incidents, accepted, evicted, crashes>>
  BY DEF Post
<1>3. Delivered' = Delivered
  BY <1>2 DEF Delivered
<1>4. TypeOK'
  <2>1. sync' \in [Syncs -> [pc : {"idle", "posted", "stored"}, batch : SUBSET (1..produced)]]
    <3> HIDE DEF batch
    <3> QED
      BY <1>1, <1>2 DEF Inv, TypeOK
  <2> QED
    BY <1>2, <2>1 DEF Inv, TypeOK
<1>5. Prefix(batch)
  <2>1. SUFFICES ASSUME NEW o \in batch, NEW p \in accepted, p < o, p \in queue
                 PROVE  p \in batch
    BY <1>2 DEF Prefix, Covered, Inv, InMemory
  <2> QED
    BY <1>1, <2>1, OldestIsPrefix, QueueAssumption
<1>6. SentIsPrefix'
  <2>1. ASSUME NEW t \in Syncs
        PROVE  sync'[t].batch = batch \/ Prefix(sync'[t].batch)
    <3> HIDE DEF batch
    <3> QED
      BY <1>2 DEF Inv, TypeOK, SentIsPrefix
  <2> QED
    BY <1>2, <1>3, <1>5, <2>1 DEF SentIsPrefix, Prefix, Covered
<1>7. LateIsPrefix'
  BY <1>2, <1>3 DEF Inv, LateIsPrefix, Prefix, Covered
<1>8. AckedIsStored' /\ OnlyWhileRunning'
  BY <1>2, <1>3 DEF Inv, TypeOK, AckedIsStored, OnlyWhileRunning
<1> QED
  BY <1>2, <1>3, <1>4, <1>6, <1>7, <1>8
  DEF Inv, InMemory, DeliveredWasProduced, NeverSilentlyLossy, OnlyOverrunEvicts, NoGaps

\* Storing a batch that is a prefix: what is shared by Ingest and IngestLate.
LEMMA StoreKeeps ==
    ASSUME Inv, NEW batch, batch \subseteq 1..produced, Prefix(batch),
           CreateIncidents(batch),
           UNCHANGED <<running, produced, queue, disk, accepted, evicted>>
    PROVE  /\ incidents' \in [Ids -> 0..2]
           /\ Delivered' = Delivered \cup batch
           /\ InMemory' /\ DeliveredWasProduced' /\ NeverSilentlyLossy'
           /\ OnlyOverrunEvicts' /\ NoGaps'
           /\ \A b : Prefix(b) => Prefix(b)'
<1>1. incidents' \in [Ids -> 0..2] /\ Delivered' = Delivered \cup batch
  BY StoresBatch DEF Inv
<1>2. InMemory' /\ DeliveredWasProduced' /\ NeverSilentlyLossy' /\ OnlyOverrunEvicts'
  BY <1>1 DEF Inv, InMemory, DeliveredWasProduced, NeverSilentlyLossy, OnlyOverrunEvicts
<1>3. NoGaps'
  BY <1>1 DEF Inv, NoGaps, Prefix, Covered
<1>4. \A b : Prefix(b) => Prefix(b)'
  BY <1>1 DEF Prefix, Covered
<1> QED
  BY <1>1, <1>2, <1>3, <1>4

LEMMA IngestInv ==
    ASSUME Inv, NEW s \in Syncs, Ingest(s)
    PROVE  Inv'
<1> DEFINE batch == sync[s].batch
<1>1. batch \subseteq 1..produced /\ Prefix(batch)
  BY DEF Inv, TypeOK, SentIsPrefix
<1>2. /\ CreateIncidents(batch)
      /\ sync[s].pc = "posted"
      /\ sync' = [sync EXCEPT ![s].pc = "stored"]
      /\ UNCHANGED <<running, uploading, enrolled, produced, queue, disk, orphans,
                     accepted, evicted, crashes>>
  BY DEF Ingest
<1>3. /\ incidents' \in [Ids -> 0..2]
      /\ Delivered' = Delivered \cup batch
      /\ InMemory' /\ DeliveredWasProduced' /\ NeverSilentlyLossy'
      /\ OnlyOverrunEvicts' /\ NoGaps'
      /\ \A b : Prefix(b) => Prefix(b)'
  BY <1>1, <1>2, StoreKeeps
<1>4. \A t \in Syncs : sync'[t].batch = sync[t].batch
                       /\ sync'[t].pc = IF t = s THEN "stored" ELSE sync[t].pc
  BY <1>2 DEF Inv, TypeOK
<1>5. TypeOK'
  <2>1. sync' \in [Syncs -> [pc : {"idle", "posted", "stored"}, batch : SUBSET (1..produced)]]
    BY <1>2 DEF Inv, TypeOK
  <2> QED
    BY <1>2, <1>3, <2>1 DEF Inv, TypeOK
<1>6. SentIsPrefix' /\ LateIsPrefix'
  BY <1>2, <1>3, <1>4 DEF Inv, SentIsPrefix, LateIsPrefix
<1>7. AckedIsStored' /\ OnlyWhileRunning'
  BY <1>2, <1>3, <1>4 DEF Inv, AckedIsStored, OnlyWhileRunning
<1> QED
  BY <1>3, <1>5, <1>6, <1>7 DEF Inv

LEMMA IngestLateInv ==
    ASSUME Inv, NEW batch \in orphans, IngestLate(batch)
    PROVE  Inv'
<1>1. batch \subseteq 1..produced /\ Prefix(batch)
  BY DEF Inv, TypeOK, LateIsPrefix
<1>2. /\ CreateIncidents(batch)
      /\ orphans' \subseteq orphans
      /\ UNCHANGED <<running, uploading, enrolled, produced, queue, disk, sync,
                     accepted, evicted, crashes>>
  BY DEF IngestLate
<1>3. /\ incidents' \in [Ids -> 0..2]
      /\ Delivered' = Delivered \cup batch
      /\ InMemory' /\ DeliveredWasProduced' /\ NeverSilentlyLossy'
      /\ OnlyOverrunEvicts' /\ NoGaps'
      /\ \A b : Prefix(b) => Prefix(b)'
  BY <1>1, <1>2, StoreKeeps
<1>4. TypeOK'
  BY <1>2, <1>3 DEF Inv, TypeOK
<1>5. SentIsPrefix' /\ LateIsPrefix' /\ AckedIsStored' /\ OnlyWhileRunning'
  BY <1>2, <1>3 DEF Inv, SentIsPrefix, LateIsPrefix, AckedIsStored, OnlyWhileRunning
<1> QED
  BY <1>3, <1>4, <1>5 DEF Inv

LEMMA AckBatchInv ==
    ASSUME Inv, NEW s \in Syncs, NEW ok \in BOOLEAN, AckBatch(s, ok)
    PROVE  Inv'
<1> DEFINE batch == sync[s].batch
<1>1. /\ batch \subseteq Delivered /\ running
      /\ queue' = queue \ batch
      /\ disk' \in {queue', disk}
      /\ sync' = [sync EXCEPT ![s] = Idle]
      /\ UNCHANGED <<running, uploading, enrolled, produced, orphans, incidents,
                     accepted, evicted, crashes>>
  BY DEF Inv, AckedIsStored, OnlyWhileRunning, AckBatch, Save
<1>2. Delivered' = Delivered
  BY <1>1 DEF Delivered
<1>3. Cardinality(queue') <= MaxQueue
  <2>1. produced \in Nat /\ queue \subseteq 1..produced /\ queue' \in SUBSET queue
    BY <1>1, QueueAssumption DEF Inv, TypeOK
  <2>2. Cardinality(queue') <= Cardinality(queue) /\ Cardinality(queue') \in Nat
    BY <2>1, SmallerQueue
  <2>3. Cardinality(queue) \in Nat /\ Cardinality(queue) <= MaxQueue
    BY <2>1, UpToFinite DEF Inv, TypeOK
  <2> QED
    BY <2>2, <2>3, QueueAssumption
<1>4. sync' \in [Syncs -> [pc : {"idle", "posted", "stored"}, batch : SUBSET (1..produced)]]
  BY <1>1 DEF Inv, TypeOK
<1>5. TypeOK'
  BY <1>1, <1>3, <1>4 DEF Inv, TypeOK
<1>6. ASSUME NEW t \in Syncs
      PROVE  sync'[t] = sync[t] \/ sync'[t] = Idle
  BY <1>1 DEF Inv, TypeOK
<1>7. SentIsPrefix' /\ AckedIsStored' /\ OnlyWhileRunning'
  BY <1>1, <1>2, <1>6
  DEF Inv, SentIsPrefix, AckedIsStored, OnlyWhileRunning, Prefix, Covered
<1>8. InMemory'
  BY <1>1, <1>2 DEF Inv, InMemory
<1>9. NeverSilentlyLossy'
  BY <1>1, <1>2, <1>8 DEF Inv, InMemory, NeverSilentlyLossy
<1> QED
  BY <1>1, <1>2, <1>5, <1>7, <1>8, <1>9
  DEF Inv, LateIsPrefix, Prefix, Covered, DeliveredWasProduced, OnlyOverrunEvicts, NoGaps

LEMMA ExitInv ==
    ASSUME Inv, Exit
    PROVE  Inv'
<1>1. /\ running' = FALSE /\ uploading' = FALSE /\ queue' = {}
      /\ sync' = [s \in Syncs |-> Idle]
      /\ orphans' \subseteq orphans \cup {sync[s].batch : s \in Syncs}
      /\ crashes' \in 0..MaxCrashes
      /\ UNCHANGED <<enrolled, produced, disk, incidents, accepted, evicted>>
  <2>1. orphans' \subseteq orphans \cup {sync[s].batch : s \in Syncs}
    BY DEF Exit, Abandon
  <2>2. crashes' \in 0..MaxCrashes
    <3>1. crashes \in 0..MaxCrashes /\ crashes < MaxCrashes /\ crashes' = crashes + 1
      BY DEF Inv, TypeOK, Exit
    <3> QED
      BY <3>1, QueueAssumption
  <2> QED
    BY <2>1, <2>2 DEF Exit
<1>2. Delivered' = Delivered
  BY <1>1 DEF Delivered
<1>3. ASSUME NEW b \in orphans'  PROVE  b \subseteq 1..produced /\ Prefix(b)
  BY <1>1, <1>3 DEF Inv, TypeOK, LateIsPrefix, SentIsPrefix
<1>4. TypeOK'
  <2>1. sync' \in [Syncs -> [pc : {"idle", "posted", "stored"}, batch : SUBSET (1..produced)]]
    BY <1>1
  <2>2. Cardinality(queue') <= MaxQueue
    BY <1>1, FS_EmptySet, QueueAssumption
  <2>3. orphans' \subseteq SUBSET (1..produced)
    BY <1>3
  <2> QED
    BY <1>1, <2>1, <2>2, <2>3 DEF Inv, TypeOK
<1>5. LateIsPrefix'
  BY <1>1, <1>2, <1>3 DEF LateIsPrefix, Prefix, Covered
<1>6. InMemory' /\ OnlyWhileRunning' /\ AckedIsStored' /\ SentIsPrefix'
  BY <1>1 DEF InMemory, OnlyWhileRunning, AckedIsStored, SentIsPrefix, Prefix
<1> QED
  BY <1>1, <1>2, <1>4, <1>5, <1>6
  DEF Inv, DeliveredWasProduced, NeverSilentlyLossy, OnlyOverrunEvicts, NoGaps

LEMMA StartInv ==
    ASSUME Inv, Start
    PROVE  Inv'
<1>1. /\ running' = TRUE /\ queue' = disk /\ uploading' = enrolled
      /\ UNCHANGED <<enrolled, produced, disk, sync, orphans, incidents, accepted,
                     evicted, crashes>>
  BY DEF Start
<1>2. Delivered' = Delivered
  BY <1>1 DEF Delivered
<1>3. TypeOK'
  BY <1>1 DEF Inv, TypeOK
<1>4. InMemory' /\ OnlyWhileRunning'
  BY <1>1, <1>2 DEF Inv, NeverSilentlyLossy, InMemory, OnlyWhileRunning
<1> QED
  BY <1>1, <1>2, <1>3, <1>4
  DEF Inv, AckedIsStored, SentIsPrefix, LateIsPrefix, Prefix, Covered,
      DeliveredWasProduced, NeverSilentlyLossy, OnlyOverrunEvicts, NoGaps

\* A step that only gives up on a request, or that touches the enrollment.
LEMMA QuietInv ==
    ASSUME Inv,
           \/ Enroll
           \/ \E s \in Syncs : Refuse(s) \/ PostFails(s) \/ ReplyLost(s)
           \/ UNCHANGED vars
    PROVE  Inv'
<1>1. /\ enrolled' \in BOOLEAN
      /\ UNCHANGED <<running, uploading, produced, queue, disk, incidents,
                     accepted, evicted, crashes>>
      /\ \A s \in Syncs : sync'[s] = sync[s] \/ sync'[s] = Idle
      /\ sync' \in [Syncs -> [pc : {"idle", "posted", "stored"}, batch : SUBSET (1..produced)]]
      /\ orphans' \subseteq orphans \cup {sync[s].batch : s \in Syncs}
  <2>1. CASE Enroll \/ UNCHANGED vars
    BY <2>1 DEF Inv, TypeOK, Enroll, vars
  <2>2. CASE \E s \in Syncs : Refuse(s) \/ PostFails(s) \/ ReplyLost(s)
    <3>1. PICK s \in Syncs : Refuse(s) \/ PostFails(s) \/ ReplyLost(s)
      BY <2>2
    <3>2. /\ UNCHANGED <<enrolled, running, uploading, produced, queue, disk, incidents,
                         accepted, evicted, crashes>>
          /\ sync' = [sync EXCEPT ![s] = Idle]
      BY <3>1 DEF Refuse, PostFails, ReplyLost
    <3>3. orphans' \subseteq orphans \cup {sync[t].batch : t \in Syncs}
      BY <3>1 DEF Refuse, PostFails, ReplyLost, Abandon
    <3>4. sync \in [Syncs -> [pc : {"idle", "posted", "stored"}, batch : SUBSET (1..produced)]]
      BY DEF Inv, TypeOK
    <3>5. Idle \in [pc : {"idle", "posted", "stored"}, batch : SUBSET (1..produced)]
      OBVIOUS
    <3>6. sync' \in [Syncs -> [pc : {"idle", "posted", "stored"}, batch : SUBSET (1..produced)]]
      BY <3>2, <3>4, <3>5
    <3> QED
      BY <3>2, <3>3, <3>4, <3>6 DEF Inv, TypeOK
  <2> QED
    BY <2>1, <2>2
<1>2. Delivered' = Delivered
  BY <1>1 DEF Delivered
<1>3. ASSUME NEW b \in orphans'  PROVE  b \subseteq 1..produced /\ Prefix(b)
  BY <1>1, <1>3 DEF Inv, TypeOK, LateIsPrefix, SentIsPrefix
<1>4. orphans' \subseteq SUBSET (1..produced)
  BY <1>3
<1>5. TypeOK'
  BY <1>1, <1>4 DEF Inv, TypeOK
<1>6. LateIsPrefix'
  BY <1>1, <1>2, <1>3 DEF LateIsPrefix, Prefix, Covered
<1>7. SentIsPrefix' /\ AckedIsStored' /\ OnlyWhileRunning'
  BY <1>1, <1>2 DEF Inv, SentIsPrefix, AckedIsStored, OnlyWhileRunning, Prefix, Covered
<1> QED
  BY <1>1, <1>2, <1>5, <1>6, <1>7
  DEF Inv, InMemory, DeliveredWasProduced, NeverSilentlyLossy, OnlyOverrunEvicts, NoGaps

LEMMA NextInv == Inv /\ [Next]_vars => Inv'
<1> SUFFICES ASSUME Inv, [Next]_vars  PROVE  Inv'
  OBVIOUS
<1>1. CASE Start
  BY <1>1, StartInv
<1>2. CASE Exit
  BY <1>2, ExitInv
<1>3. CASE \E ok \in BOOLEAN : Enqueue(ok)
  BY <1>3, EnqueueInv
<1>4. CASE \E s \in Syncs : Post(s)
  BY <1>4, PostInv
<1>5. CASE \E s \in Syncs : Ingest(s)
  BY <1>5, IngestInv
<1>6. CASE \E s \in Syncs, ok \in BOOLEAN : AckBatch(s, ok)
  BY <1>6, AckBatchInv
<1>7. CASE \E b \in orphans : IngestLate(b)
  BY <1>7, IngestLateInv
<1>8. CASE \/ Enroll
           \/ \E s \in Syncs : Refuse(s) \/ PostFails(s) \/ ReplyLost(s)
           \/ UNCHANGED vars
  BY <1>8, QuietInv
<1> QED
  BY <1>1, <1>2, <1>3, <1>4, <1>5, <1>6, <1>7, <1>8 DEF Next

\* The strengthening holds in every reachable state.
THEOREM Invariance == Spec => []Inv
BY InitInv, NextInv, PTL DEF Spec

-----------------------------------------------------------------------------
(* The results.                                                            *)

\* The queue, its file, the batches and the server's counts stay well formed,
\* and neither the queue nor its file ever exceeds MaxQueue entries.
THEOREM TypeCorrect == Spec => []TypeOK
BY Invariance, PTL DEF Inv

\* What Enqueue reported as saved is on disk, on the server or overrun, in
\* every interleaving of uploads, acks, failed writes, lost replies and exits.
THEOREM Lossless == Spec => []NeverSilentlyLossy
BY Invariance, PTL DEF Inv

\* An observation is only ever dropped for MaxQueue newer ones.
THEOREM Overrun == Spec => []OnlyOverrunEvicts
BY Invariance, PTL DEF Inv

\* The server's record never skips a safely queued observation.
THEOREM Gapless == Spec => []NoGaps
BY Invariance, PTL DEF Inv

LEMMA OutboxInit == Init => O!Init
BY DEF Init, O!Init, Delivered

LEMMA OutboxStep == Inv /\ [Next]_vars => [O!Next]_O!vars
<1> SUFFICES ASSUME Inv, [Next]_vars  PROVE  [O!Next]_O!vars
  OBVIOUS
<1>1. CASE \E ok \in BOOLEAN : Enqueue(ok)
  <2>1. PICK ok \in BOOLEAN : Enqueue(ok)
    BY <1>1
  <2>2. Inv'
    BY <2>1, EnqueueInv
  <2>3. Delivered' = Delivered
    BY <2>1 DEF Enqueue, Delivered
  <2>4. /\ produced' = produced + 1
        /\ accepted' \in {accepted, accepted \cup {produced'}}
        /\ evicted \subseteq evicted'
    BY <2>1 DEF Enqueue
  <2>5. ASSUME NEW o \in evicted' \ evicted
        PROVE  o \in 1..produced' /\ o + MaxQueue <= produced'
    BY <2>2 DEF Inv, TypeOK, OnlyOverrunEvicts
  <2> QED
    BY <2>3, <2>4, <2>5 DEF O!Next, O!Record
<1>2. ASSUME NEW batch, batch \subseteq 1..produced, Prefix(batch), CreateIncidents(batch),
             UNCHANGED <<produced, accepted, evicted>>
      PROVE  O!Deliver
  <2>1. Delivered' = Delivered \cup batch
    BY <1>2, StoresBatch DEF Inv
  <2>2. \A o \in batch, p \in accepted : p < o => p \in Delivered' \cup evicted
    BY <1>2, <2>1 DEF Prefix, Covered
  <2> QED
    BY <1>2, <2>1, <2>2 DEF O!Deliver
<1>3. CASE \E s \in Syncs : Ingest(s)
  <2>1. PICK s \in Syncs : Ingest(s)
    BY <1>3
  <2> DEFINE batch == sync[s].batch
  <2>2. batch \subseteq 1..produced /\ Prefix(batch)
    BY DEF Inv, TypeOK, SentIsPrefix
  <2> QED
    BY <1>2, <2>1, <2>2 DEF Ingest, O!Next
<1>4. CASE \E b \in orphans : IngestLate(b)
  <2>1. PICK b \in orphans : IngestLate(b)
    BY <1>4
  <2>2. b \subseteq 1..produced /\ Prefix(b)
    BY DEF Inv, TypeOK, LateIsPrefix
  <2> QED
    BY <1>2, <2>1, <2>2 DEF IngestLate, O!Next
<1>5. CASE \/ Enroll \/ Start \/ Exit
           \/ \E s \in Syncs : Post(s) \/ Refuse(s) \/ PostFails(s) \/ ReplyLost(s)
           \/ \E s \in Syncs, ok \in BOOLEAN : AckBatch(s, ok)
           \/ UNCHANGED vars
  <2>1. UNCHANGED <<produced, incidents, accepted, evicted>>
    BY <1>5 DEF Enroll, Start, Exit, Post, Refuse, PostFails, ReplyLost, AckBatch, vars
  <2> QED
    BY <2>1 DEF O!vars, Delivered
<1> QED
  BY <1>1, <1>3, <1>4, <1>5 DEF Next

\* The queue implements the outbox: every step of the code, faults and exits
\* included, records, delivers in order without gaps, or changes nothing there.
THEOREM ImplementsOutbox == Spec => OutboxSpec
BY OutboxInit, OutboxStep, Invariance, PTL DEF Spec, OutboxSpec, O!Spec
=============================================================================
