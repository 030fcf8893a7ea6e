------------------------ MODULE BlocklistSync_proofs ------------------------
(***************************************************************************)
(* What the agent may rely on, for every number of overlapping goroutines,  *)
(* of publications, outages, restarts and lost keys: the lists it uses were  *)
(* signed with a key that was pinned; and as long as no two goroutines of   *)
(* one kind overlap and no write fails, it matches against what it has on   *)
(* disk and never goes back to an older list.                               *)
(***************************************************************************)
EXTENDS BlocklistSync, TLAPS

\* Keys are only replaced by later ones, at the server and then at the agent.
KeysGrow ==
    /\ pinned <= key
    /\ inUse.list.key <= pinned
    /\ disk.key <= pinned
    /\ \A s \in Syncs : sync[s].list.key <= pinned

\* Publications are numbered in order, and nothing is newer than the last.
SeqsGrow ==
    /\ published # NoList => published.seq = seq
    /\ inUse.list.seq <= seq
    /\ disk.seq <= seq
    /\ \A s \in Syncs : sync[s].list.seq <= seq

\* Where the agent's goroutines can be.
Staged ==
    /\ stage \in {"down", "feeds"} => \A s \in Syncs : sync[s].pc = "idle"
    /\ stage \in {"down", "list"} => \A r \in Refreshes : refresh[r].pc = "idle"
    /\ stage = "feeds" =>
        \A q, r \in Refreshes : refresh[q].pc # "idle" /\ refresh[r].pc # "idle" => q = r
    /\ stage # "loop" => inUse = Unused

\* The feeds in memory, or those that a goroutine is about to put there, are
\* those of the cache.
FeedsOnDisk ==
    ~overlapped /\ ~unsaved =>
        /\ \A q, r \in Refreshes : refresh[q].pc # "idle" /\ refresh[r].pc # "idle" => q = r
        /\ \A r \in Refreshes : refresh[r].pc = "fetched" => refresh[r].entries = cache["agent"]
        /\ stage \in {"list", "loop"} /\ (\A r \in Refreshes : refresh[r].pc = "idle")
                => feeds = cache["agent"]

\* The list in memory, or the one that a goroutine is about to put there, is
\* the one on disk; one that was just fetched is newer.
ListOnDisk ==
    ~overlapped /\ ~unsaved =>
        /\ \A s, t \in Syncs : sync[s].pc # "idle" /\ sync[t].pc # "idle" => s = t
        /\ \A s \in Syncs : sync[s].pc = "got" => sync[s].list.seq >= disk.seq
        /\ \A s \in Syncs : sync[s].pc = "merging" => sync[s].list = disk
        /\ stage = "loop" /\ (\A s \in Syncs : sync[s].pc = "idle") => inUse.list = disk
        /\ inUse.list.seq <= disk.seq

Inv == TypeOK /\ KeysGrow /\ SeqsGrow /\ Staged /\ FeedsOnDisk /\ ListOnDisk

-----------------------------------------------------------------------------
(* Fetching a feed.                                                        *)

\* What a fetch returns are prefixes; it is what the cache then holds, unless
\* the cache could not be written.
LEMMA FetchedIsCached ==
    ASSUME feed \subseteq Prefixes, NEW old \in SUBSET Prefixes, NEW got \in CachedFetch(old)
    PROVE  /\ got.entries \subseteq Prefixes
           /\ got.cache \subseteq Prefixes
           /\ ~WriteFailed(got) => got.entries = got.cache
<1>1. CASE got \in [entries : {old} \ {{}}, cache : {old}]
    BY <1>1
<1>2. CASE got \in Asked(old, old)
    <2>1. PICK answer \in Downloads :
              got \in IF answer = {} THEN {[entries |-> old, cache |-> c] : c \in {old}}
                      ELSE {[entries |-> answer, cache |-> c] : c \in WriteCache(old, answer)}
        BY <1>2 DEF Asked
    <2>2. CASE answer = {}
        BY <2>1, <2>2
    <2>3. CASE answer # {}
        <3>1. answer = feed
            BY <2>3 DEF Downloads
        <3>2. PICK c \in {feed, old} : got = [entries |-> feed, cache |-> c]
            BY <2>1, <2>3, <3>1 DEF WriteCache
        <3> QED
            BY <3>2 DEF WriteFailed
    <2> QED
        BY <2>2, <2>3
<1> QED
    BY <1>1, <1>2 DEF CachedFetch

-----------------------------------------------------------------------------
(* Types.                                                                  *)

LEMMA TypeInit == Init => TypeOK
<1> USE SyncAssumption DEF SyncAssumption
<1>1. NoList \in Lists
    BY DEF NoList, Lists
<1>2. Idle \in [pc : {"idle", "asking", "got", "merging"}, local : SUBSET Prefixes, list : Lists]
    BY <1>1 DEF Idle
<1>3. Unused \in [local : SUBSET Prefixes, list : Lists]
    BY <1>1 DEF Unused
<1> SUFFICES ASSUME Init PROVE TypeOK
    OBVIOUS
<1>4. sync \in [Syncs -> [pc : {"idle", "asking", "got", "merging"}, local : SUBSET Prefixes, list : Lists]]
    BY <1>2 DEF Init
<1>5. refresh \in [Refreshes -> [pc : {"idle", "fetched"}, entries : SUBSET Prefixes]]
    BY DEF Init
<1>6. cache \in [{"server", "agent"} -> SUBSET Prefixes]
    BY DEF Init
<1>7. inUse \in [local : SUBSET Prefixes, list : Lists] /\ disk \in Lists /\ published \in Lists
    BY <1>1, <1>3 DEF Init
<1>8. feed \subseteq Prefixes /\ confirmed \subseteq Reported /\ feeds \subseteq Prefixes
    BY DEF Init
<1>9. /\ changes \in 0..MaxChanges /\ key \in 1..MaxKeys /\ pinned \in 1..MaxKeys
      /\ seq \in 0..MaxSeq /\ version \in 0..seq /\ stops \in 0..MaxStops
    BY DEF Init
<1>10. up \in BOOLEAN /\ overlapped \in BOOLEAN /\ unsaved \in BOOLEAN /\ stage = "down"
    BY DEF Init
<1> QED
    BY <1>4, <1>5, <1>6, <1>7, <1>8, <1>9, <1>10 DEF TypeOK

LEMMA TypeStep == TypeOK /\ [Next]_vars => TypeOK'
<1> SUFFICES ASSUME TypeOK, [Next]_vars PROVE TypeOK'
    OBVIOUS
<1> USE SyncAssumption DEF SyncAssumption, TypeOK, world, serverVars, agentVars
<1>1. NoList \in Lists
    BY DEF NoList, Lists
<1>2. Idle \in [pc : {"idle", "asking", "got", "merging"}, local : SUBSET Prefixes, list : Lists]
    BY <1>1 DEF Idle
<1>3. Unused \in [local : SUBSET Prefixes, list : Lists]
    BY <1>1 DEF Unused
<1>4. ASSUME StartServer PROVE TypeOK'
    BY <1>1, <1>4 DEF StartServer
<1>5. ASSUME Publish PROVE TypeOK'
    <2>1. PICK counted \in BOOLEAN, got \in CachedFetch(cache["server"]) :
              /\ up
              /\ seq < MaxSeq
              /\ cache' = [cache EXCEPT !["server"] = got.cache]
              /\ version' = version + 1
              /\ seq' = seq + 1
              /\ published' = Signed(version + 1, got.entries \cup Consensus(counted))
              /\ unsaved' = (unsaved \/ WriteFailed(got))
              /\ UNCHANGED <<world, up, key, pinned, agentVars, stops, overlapped>>
        BY <1>5 DEF Publish
    <2>2. got.entries \subseteq Prefixes /\ got.cache \subseteq Prefixes
        BY FetchedIsCached
    <2>3. Consensus(counted) \subseteq Prefixes
        BY DEF Consensus
    <2>4. published' \in Lists
        BY <2>1, <2>2, <2>3 DEF Signed, Lists
    <2>5. cache' \in [{"server", "agent"} -> SUBSET Prefixes]
        BY <2>1, <2>2
    <2>6. seq' \in 0..MaxSeq /\ version' \in 0..seq' /\ unsaved' \in BOOLEAN
        BY <2>1
    <2> QED
        BY <2>1, <2>4, <2>5, <2>6
<1>6. ASSUME StopServer PROVE TypeOK'
    <2>1. key' \in 1..MaxKeys
        BY <1>6 DEF StopServer, LoadOrCreateSigningKey
    <2>2. stops' \in 0..MaxStops
        BY <1>6 DEF StopServer
    <2> QED
        BY <1>6, <2>1, <2>2 DEF StopServer
<1>7. ASSUME StartAgent PROVE TypeOK'
    BY <1>7 DEF StartAgent
<1>8. ASSUME StopAgent PROVE TypeOK'
    BY <1>2, <1>3, <1>8 DEF StopAgent
<1>9. ASSUME Reenroll PROVE TypeOK'
    BY <1>9 DEF Reenroll
<1>10. ASSUME FeedChanges \/ IncidentsChange PROVE TypeOK'
    BY <1>10 DEF FeedChanges, IncidentsChange
<1>11. ASSUME NEW r \in Refreshes, FetchFeeds(r) PROVE TypeOK'
    <2>1. PICK got \in CachedFetch(cache["agent"]) :
              /\ cache' = [cache EXCEPT !["agent"] = got.cache]
              /\ refresh' = [refresh EXCEPT ![r] = [pc |-> "fetched", entries |-> got.entries]]
              /\ overlapped' = (overlapped \/ \E q \in Refreshes : refresh[q].pc # "idle")
              /\ unsaved' = (unsaved \/ WriteFailed(got))
              /\ UNCHANGED <<world, serverVars, pinned, stage, feeds, inUse, disk, sync, stops>>
        BY <1>11 DEF FetchFeeds
    <2>2. got.entries \subseteq Prefixes /\ got.cache \subseteq Prefixes
        BY FetchedIsCached
    <2> QED
        BY <2>1, <2>2 DEF WriteFailed
<1>12. ASSUME NEW r \in Refreshes, SetFeeds(r) PROVE TypeOK'
    BY <1>12 DEF SetFeeds
<1>13. ASSUME NEW s \in Syncs, BeginSync(s) PROVE TypeOK'
    BY <1>1, <1>13 DEF BeginSync
<1>14. ASSUME NEW s \in Syncs, Fetched(s) PROVE TypeOK'
    BY <1>14 DEF Fetched, Goto
<1>15. ASSUME NEW s \in Syncs, SaveList(s) PROVE TypeOK'
    <2>1. sync[s] \in [pc : {"idle", "asking", "got", "merging"}, local : SUBSET Prefixes, list : Lists]
        OBVIOUS
    <2>2. disk' \in Lists /\ unsaved' \in BOOLEAN
        BY <1>15, <2>1 DEF SaveList
    <2>3. sync' \in [Syncs -> [pc : {"idle", "asking", "got", "merging"},
                              local : SUBSET Prefixes, list : Lists]]
        BY <1>15, <2>1 DEF SaveList, Goto
    <2> QED
        BY <1>15, <2>2, <2>3 DEF SaveList
<1>16. ASSUME NEW s \in Syncs, FallBack(s) PROVE TypeOK'
    BY <1>16 DEF FallBack, Goto
<1>17. ASSUME NEW s \in Syncs, Use(s) PROVE TypeOK'
    BY <1>2, <1>17 DEF Use
<1>18. CASE UNCHANGED vars
    BY <1>18 DEF vars
<1> QED
    BY <1>4, <1>5, <1>6, <1>7, <1>8, <1>9, <1>10, <1>11, <1>12, <1>13, <1>14, <1>15, <1>16,
       <1>17, <1>18 DEF Next

\* The goroutines' records, as the steps below need them.
LEMMA Records ==
    ASSUME TypeOK
    PROVE  /\ \A s \in Syncs : sync[s].list \in Lists
           /\ inUse.list \in Lists /\ disk \in Lists /\ published \in Lists
           /\ \A l \in Lists : l.seq \in Nat /\ l.key \in Nat
           /\ pinned \in Nat /\ key \in Nat /\ seq \in Nat
BY SyncAssumption DEF SyncAssumption, TypeOK, Lists

-----------------------------------------------------------------------------
(* Keys.                                                                   *)

LEMMA KeysStep == TypeOK /\ KeysGrow /\ [Next]_vars => KeysGrow'
<1> SUFFICES ASSUME TypeOK, KeysGrow, [Next]_vars PROVE KeysGrow'
    OBVIOUS
<1> USE Records DEF TypeOK, KeysGrow, world, serverVars, agentVars
<1>1. Idle.list.key = 0 /\ Unused.list.key = 0
    BY DEF Idle, Unused, NoList
<1>2. ASSUME StartServer \/ StartAgent \/ FeedChanges \/ IncidentsChange PROVE KeysGrow'
    BY <1>2 DEF StartServer, StartAgent, FeedChanges, IncidentsChange
<1>3. ASSUME Publish PROVE KeysGrow'
    BY <1>3 DEF Publish
<1>4. ASSUME StopServer PROVE KeysGrow'
    BY <1>4 DEF StopServer, LoadOrCreateSigningKey
<1>5. ASSUME StopAgent PROVE KeysGrow'
    BY <1>1, <1>5 DEF StopAgent
<1>6. ASSUME Reenroll PROVE KeysGrow'
    BY <1>6 DEF Reenroll
<1>7. ASSUME NEW r \in Refreshes, FetchFeeds(r) \/ SetFeeds(r) PROVE KeysGrow'
    BY <1>7 DEF FetchFeeds, SetFeeds
<1>8. ASSUME NEW s \in Syncs, BeginSync(s) PROVE KeysGrow'
    BY <1>8 DEF BeginSync, NoList
<1>9. ASSUME NEW s \in Syncs, Fetched(s) PROVE KeysGrow'
    BY <1>9 DEF Fetched, Goto, Answers, Verified
<1>10. ASSUME NEW s \in Syncs, SaveList(s) PROVE KeysGrow'
    BY <1>10 DEF SaveList, Goto
<1>11. ASSUME NEW s \in Syncs, FallBack(s) PROVE KeysGrow'
    BY <1>11 DEF FallBack, Goto
<1>12. ASSUME NEW s \in Syncs, Use(s) PROVE KeysGrow'
    BY <1>1, <1>12 DEF Use
<1>13. CASE UNCHANGED vars
    BY <1>13 DEF vars
<1> QED
    BY <1>2, <1>3, <1>4, <1>5, <1>6, <1>7, <1>8, <1>9, <1>10, <1>11, <1>12, <1>13 DEF Next

-----------------------------------------------------------------------------
(* Numbers.                                                                *)

LEMMA SeqsStep == TypeOK /\ SeqsGrow /\ [Next]_vars => SeqsGrow'
<1> SUFFICES ASSUME TypeOK, SeqsGrow, [Next]_vars PROVE SeqsGrow'
    OBVIOUS
<1> USE Records DEF TypeOK, SeqsGrow, world, serverVars, agentVars
<1>1. Idle.list.seq = 0 /\ Unused.list.seq = 0 /\ NoList.seq = 0
    BY DEF Idle, Unused, NoList
<1>2. ASSUME StartServer PROVE SeqsGrow'
    BY <1>2 DEF StartServer
<1>3. ASSUME Publish PROVE SeqsGrow'
    BY <1>3 DEF Publish, Signed
<1>4. ASSUME StopServer \/ StartAgent \/ Reenroll \/ FeedChanges \/ IncidentsChange PROVE SeqsGrow'
    BY <1>4 DEF StopServer, StartAgent, Reenroll, FeedChanges, IncidentsChange
<1>5. ASSUME StopAgent PROVE SeqsGrow'
    BY <1>1, <1>5 DEF StopAgent
<1>6. ASSUME NEW r \in Refreshes, FetchFeeds(r) \/ SetFeeds(r) PROVE SeqsGrow'
    BY <1>6 DEF FetchFeeds, SetFeeds
<1>7. ASSUME NEW s \in Syncs, BeginSync(s) PROVE SeqsGrow'
    BY <1>1, <1>7 DEF BeginSync
<1>8. ASSUME NEW s \in Syncs, Fetched(s) PROVE SeqsGrow'
    BY <1>8 DEF Fetched, Goto, Answers, Serving
<1>9. ASSUME NEW s \in Syncs, SaveList(s) PROVE SeqsGrow'
    BY <1>9 DEF SaveList, Goto
<1>10. ASSUME NEW s \in Syncs, FallBack(s) PROVE SeqsGrow'
    BY <1>10 DEF FallBack, Goto
<1>11. ASSUME NEW s \in Syncs, Use(s) PROVE SeqsGrow'
    BY <1>1, <1>11 DEF Use
<1>12. CASE UNCHANGED vars
    BY <1>12 DEF vars
<1> QED
    BY <1>2, <1>3, <1>4, <1>5, <1>6, <1>7, <1>8, <1>9, <1>10, <1>11, <1>12 DEF Next

-----------------------------------------------------------------------------
(* Stages.                                                                 *)

LEMMA StagedStep == TypeOK /\ Staged /\ [Next]_vars => Staged'
<1> SUFFICES ASSUME TypeOK, Staged, [Next]_vars PROVE Staged'
    OBVIOUS
<1> USE DEF TypeOK, Staged, world, serverVars, agentVars
<1>1. Idle.pc = "idle"
    BY DEF Idle
<1>2. ASSUME StartServer \/ StopServer \/ Reenroll \/ FeedChanges \/ IncidentsChange PROVE Staged'
    BY <1>2 DEF StartServer, StopServer, Reenroll, FeedChanges, IncidentsChange
<1>3. ASSUME Publish PROVE Staged'
    BY <1>3 DEF Publish
<1>4. ASSUME StartAgent \/ StopAgent PROVE Staged'
    BY <1>1, <1>4 DEF StartAgent, StopAgent
<1>5. ASSUME NEW r \in Refreshes, FetchFeeds(r) PROVE Staged'
    BY <1>5 DEF FetchFeeds
<1>6. ASSUME NEW r \in Refreshes, SetFeeds(r) PROVE Staged'
    BY <1>6 DEF SetFeeds
<1>7. ASSUME NEW s \in Syncs, BeginSync(s) PROVE Staged'
    BY <1>7 DEF BeginSync
<1>8. ASSUME NEW s \in Syncs, Fetched(s) \/ SaveList(s) \/ FallBack(s) PROVE Staged'
    BY <1>8 DEF Fetched, SaveList, FallBack, Goto
<1>9. ASSUME NEW s \in Syncs, Use(s) PROVE Staged'
    BY <1>1, <1>9 DEF Use
<1>10. CASE UNCHANGED vars
    BY <1>10 DEF vars
<1> QED
    BY <1>2, <1>3, <1>4, <1>5, <1>6, <1>7, <1>8, <1>9, <1>10 DEF Next

-----------------------------------------------------------------------------
(* Feeds.                                                                  *)

LEMMA FeedsStep == TypeOK /\ Staged /\ FeedsOnDisk /\ [Next]_vars => FeedsOnDisk'
<1> SUFFICES ASSUME TypeOK, Staged, FeedsOnDisk, [Next]_vars PROVE FeedsOnDisk'
    OBVIOUS
<1> USE DEF TypeOK, Staged, FeedsOnDisk, world, serverVars, agentVars
<1>1. ASSUME StartServer \/ StopServer \/ Reenroll \/ FeedChanges \/ IncidentsChange PROVE FeedsOnDisk'
    BY <1>1 DEF StartServer, StopServer, Reenroll, FeedChanges, IncidentsChange
<1>2. ASSUME Publish PROVE FeedsOnDisk'
    BY <1>2 DEF Publish
<1>3. ASSUME StartAgent \/ StopAgent PROVE FeedsOnDisk'
    BY <1>3 DEF StartAgent, StopAgent
<1>4. ASSUME NEW r \in Refreshes, FetchFeeds(r) PROVE FeedsOnDisk'
    <2>1. PICK got \in CachedFetch(cache["agent"]) :
              /\ cache' = [cache EXCEPT !["agent"] = got.cache]
              /\ refresh' = [refresh EXCEPT ![r] = [pc |-> "fetched", entries |-> got.entries]]
              /\ overlapped' = (overlapped \/ \E q \in Refreshes : refresh[q].pc # "idle")
              /\ unsaved' = (unsaved \/ WriteFailed(got))
              /\ UNCHANGED <<world, serverVars, pinned, stage, feeds, inUse, disk, sync, stops>>
        BY <1>4 DEF FetchFeeds
    <2>2. SUFFICES ASSUME ~overlapped', ~unsaved' PROVE FeedsOnDisk'
        OBVIOUS
    <2>3. got.entries = got.cache
        BY <2>1, <2>2, FetchedIsCached
    <2>4. \A q \in Refreshes : refresh[q].pc = "idle"
        BY <2>1, <2>2
    <2>5. cache'["agent"] = got.entries
        BY <2>1, <2>3
    <2>6. \A q \in Refreshes : refresh'[q] = IF q = r THEN [pc |-> "fetched", entries |-> got.entries]
                                           ELSE refresh[q]
        BY <2>1
    <2> QED
        BY <2>4, <2>5, <2>6
<1>5. ASSUME NEW r \in Refreshes, SetFeeds(r) PROVE FeedsOnDisk'
    BY <1>5 DEF SetFeeds
<1>6. ASSUME NEW s \in Syncs, BeginSync(s) \/ Fetched(s) \/ FallBack(s) PROVE FeedsOnDisk'
    BY <1>6 DEF BeginSync, Fetched, FallBack
<1>7. ASSUME NEW s \in Syncs, SaveList(s) PROVE FeedsOnDisk'
    BY <1>7 DEF SaveList
<1>8. ASSUME NEW s \in Syncs, Use(s) PROVE FeedsOnDisk'
    BY <1>8 DEF Use
<1>9. CASE UNCHANGED vars
    BY <1>9 DEF vars
<1> QED
    BY <1>1, <1>2, <1>3, <1>4, <1>5, <1>6, <1>7, <1>8, <1>9 DEF Next

-----------------------------------------------------------------------------
(* Lists.                                                                  *)

LEMMA ListStep == TypeOK /\ SeqsGrow /\ Staged /\ ListOnDisk /\ [Next]_vars => ListOnDisk'
<1> SUFFICES ASSUME TypeOK, SeqsGrow, Staged, ListOnDisk, [Next]_vars PROVE ListOnDisk'
    OBVIOUS
<1> USE Records DEF TypeOK, Staged, ListOnDisk, world, serverVars, agentVars
<1>1. Idle.pc = "idle" /\ Unused.list.seq = 0
    BY DEF Idle, Unused, NoList
<1>2. ASSUME StartServer \/ StopServer \/ Reenroll \/ FeedChanges \/ IncidentsChange PROVE ListOnDisk'
    BY <1>2 DEF StartServer, StopServer, Reenroll, FeedChanges, IncidentsChange
<1>3. ASSUME Publish PROVE ListOnDisk'
    BY <1>3 DEF Publish
<1>4. ASSUME StartAgent \/ StopAgent PROVE ListOnDisk'
    BY <1>1, <1>4 DEF StartAgent, StopAgent
<1>5. ASSUME NEW r \in Refreshes, FetchFeeds(r) PROVE ListOnDisk'
    BY <1>5 DEF FetchFeeds
<1>6. ASSUME NEW r \in Refreshes, SetFeeds(r) PROVE ListOnDisk'
    BY <1>6 DEF SetFeeds
<1>7. ASSUME NEW s \in Syncs, BeginSync(s) PROVE ListOnDisk'
    BY <1>7 DEF BeginSync
<1>8. ASSUME NEW s \in Syncs, Fetched(s) PROVE ListOnDisk'
    <2>1. published.seq >= disk.seq
        BY <1>8 DEF Fetched, Answers, Serving, SeqsGrow
    <2> QED
        BY <1>8, <2>1 DEF Fetched, Goto
<1>9. ASSUME NEW s \in Syncs, SaveList(s) PROVE ListOnDisk'
    <2>1. SUFFICES ASSUME ~overlapped', ~unsaved' PROVE ListOnDisk'
        OBVIOUS
    <2>2. disk' = sync[s].list
        BY <1>9, <2>1 DEF SaveList
    <2> QED
        BY <1>9, <2>1, <2>2 DEF SaveList, Goto
<1>10. ASSUME NEW s \in Syncs, FallBack(s) PROVE ListOnDisk'
    BY <1>10 DEF FallBack, Goto
<1>11. ASSUME NEW s \in Syncs, Use(s) PROVE ListOnDisk'
    BY <1>1, <1>11 DEF Use
<1>12. CASE UNCHANGED vars
    BY <1>12 DEF vars
<1> QED
    BY <1>2, <1>3, <1>4, <1>5, <1>6, <1>7, <1>8, <1>9, <1>10, <1>11, <1>12 DEF Next

-----------------------------------------------------------------------------
LEMMA InvInit == Init => Inv
<1> SUFFICES ASSUME Init PROVE Inv
    OBVIOUS
<1>1. TypeOK
    BY TypeInit
<1>2. KeysGrow /\ SeqsGrow
    BY DEF Init, KeysGrow, SeqsGrow, Idle, Unused, NoList
<1>3. Staged /\ FeedsOnDisk
    BY DEF Init, Staged, FeedsOnDisk, Idle
<1>4. ListOnDisk
    BY DEF Init, ListOnDisk, Idle, Unused, NoList
<1> QED
    BY <1>1, <1>2, <1>3, <1>4 DEF Inv

LEMMA InvStep == Inv /\ [Next]_vars => Inv'
BY TypeStep, KeysStep, SeqsStep, StagedStep, FeedsStep, ListStep DEF Inv

LEMMA Invariance == Spec => []Inv
BY InvInit, InvStep, PTL DEF Spec

\* No list reaches the agent that was not signed with a key it had pinned,
\* whatever is lost, restarted or out of order.
THEOREM OnlyTrustedLists == Spec => []Trusted
<1>1. Inv => Trusted
    BY DEF Inv, KeysGrow, Trusted
<1> QED
    BY <1>1, Invariance, PTL

\* Between two cycles the agent matches against what it has on disk, as long
\* as goroutines do not overlap and writes do not fail.
THEOREM OutageTakesNothing == Spec => []CacheFirst
<1>1. Inv => CacheFirst
    BY DEF Inv, TypeOK, FeedsOnDisk, ListOnDisk, CacheFirst, Quiet
<1> QED
    BY <1>1, Invariance, PTL

\* A running agent never goes back to an older list, as long as goroutines do
\* not overlap and writes do not fail.
THEOREM NeverOlder == Spec => NewerOnly
<1>1. ASSUME Inv, [Next]_vars, stage # "down", stage' # "down", ~overlapped', ~unsaved'
      PROVE  inUse'.list.seq >= inUse.list.seq
    <2>1. CASE UNCHANGED inUse
        BY <1>1, <2>1, Records DEF Inv
    <2>2. ASSUME NEW s \in Syncs, Use(s) PROVE inUse'.list.seq >= inUse.list.seq
        BY <1>1, <2>2, Records DEF Inv, ListOnDisk, Use, TypeOK
    <2>3. ~StopAgent
        BY <1>1 DEF StopAgent
    <2> QED
        BY <1>1, <2>1, <2>2, <2>3
           DEF Next, vars, agentVars, StartServer, Publish, StopServer, StartAgent, Reenroll, FeedChanges,
               IncidentsChange, FetchFeeds, SetFeeds, BeginSync, Fetched, SaveList, FallBack
<1>2. Inv /\ Inv' /\ [Next]_vars
        => [stage # "down" /\ stage' # "down" /\ ~overlapped' /\ ~unsaved'
                => inUse'.list.seq >= inUse.list.seq]_vars
    BY <1>1
<1> QED
    BY <1>2, Invariance, PTL DEF Spec, NewerOnly
=============================================================================
