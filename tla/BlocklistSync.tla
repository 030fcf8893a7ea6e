---------------------------- MODULE BlocklistSync ----------------------------
(***************************************************************************)
(* How a blocklist gets from the public feeds to an agent's memory: the    *)
(* server's publisher merges feeds (through an on-disk cache) with the      *)
(* addresses its agents report, numbers and signs the result; an enrolled   *)
(* agent fetches it, verifies it with the key pinned at enrollment, keeps   *)
(* a copy on disk and matches addresses against it and against its own      *)
(* feeds.  Each tick of the agent starts a refreshFeeds and a               *)
(* syncEnrollment goroutine that nobody waits for.                          *)
(*                                                                         *)
(* A list is identified by the number `seq' of its publication; `version'   *)
(* is the number it carries.                                                *)
(***************************************************************************)
EXTENDS Naturals, FiniteSets

CONSTANTS
    Prefixes,     \* prefixes that feeds and reports are about
    Reported,     \* those that agents report incidents of
    Syncs,        \* syncEnrollment goroutines that may overlap
    Refreshes,    \* refreshFeeds goroutines that may overlap
    MaxSeq,       \* bound: publications
    MaxChanges,   \* bound: changes of the public feed
    MaxStops,     \* bound: times the server or the agent process ends
    MaxKeys,      \* bound: signing keys
    WritesFail    \* bound: whether a write of a cache or of blocklist.json may fail

ASSUME SyncAssumption ==
    /\ Reported \subseteq Prefixes
    /\ MaxSeq \in Nat \ {0}
    /\ MaxChanges \in Nat
    /\ MaxStops \in Nat
    /\ MaxKeys \in Nat \ {0}
    /\ WritesFail \in BOOLEAN

VARIABLES
    feed,         \* what the public feed serves
    changes,      \* bound on changes of it
    confirmed,    \* reported prefixes with at least 3 incidents in the last 24 hours
    up,           \* the server process
    key,          \* the server's signing key
    cache,        \* the feed cache of the "server" and of the "agent", {} if there is none
    version,      \* Publisher.version
    published,    \* Publisher.current
    seq,          \* history: publications so far
    pinned,       \* Enrollment.PublicKey
    stage,        \* agent: "down", before its first feeds, first list, in its loop
    feeds,        \* Agent.feedEntries
    inUse,        \* Agent.blocklistEntries: the merged local entries and the list
    disk,         \* blocklist.json
    sync,         \* per goroutine: where it stands, its local entries, its list
    refresh,      \* per goroutine: where it stands, the entries it fetched
    stops,        \* bound
    overlapped,   \* history: two goroutines of one kind were at work together
    unsaved       \* history: a write of a cache or of blocklist.json failed

serverVars == <<up, key, version, published, seq>>
agentVars == <<stage, feeds, inUse, disk, sync, refresh>>
world == <<feed, changes, confirmed>>
vars == <<world, serverVars, cache, pinned, agentVars, stops, overlapped, unsaved>>

NoList == [seq |-> 0, version |-> 0, entries |-> {}, key |-> 0]
Lists == [seq : 0..MaxSeq, version : 0..MaxSeq, entries : SUBSET Prefixes, key : 0..MaxKeys]
Idle == [pc |-> "idle", local |-> {}, list |-> NoList]
Unused == [local |-> {}, list |-> NoList]

TypeOK ==
    /\ feed \subseteq Prefixes /\ changes \in 0..MaxChanges
    /\ confirmed \subseteq Reported
    /\ up \in BOOLEAN /\ key \in 1..MaxKeys
    /\ cache \in [{"server", "agent"} -> SUBSET Prefixes]
    /\ seq \in 0..MaxSeq /\ version \in 0..seq /\ published \in Lists
    /\ pinned \in 1..MaxKeys
    /\ stage \in {"down", "feeds", "list", "loop"}
    /\ feeds \subseteq Prefixes
    /\ inUse \in [local : SUBSET Prefixes, list : Lists]
    /\ disk \in Lists
    /\ sync \in [Syncs -> [pc : {"idle", "asking", "got", "merging"},
                           local : SUBSET Prefixes, list : Lists]]
    /\ refresh \in [Refreshes -> [pc : {"idle", "fetched"}, entries : SUBSET Prefixes]]
    /\ stops \in 0..MaxStops
    /\ overlapped \in BOOLEAN /\ unsaved \in BOOLEAN

Init ==
    /\ feed = Prefixes /\ changes = 0
    /\ confirmed = {}
    /\ up = FALSE /\ key = 1
    /\ cache = [who \in {"server", "agent"} |-> {}]
    /\ version = 0 /\ published = NoList /\ seq = 0
    /\ pinned = 1
    /\ stage = "down"
    /\ feeds = {} /\ inUse = Unused /\ disk = NoList
    /\ sync = [s \in Syncs |-> Idle]
    /\ refresh = [r \in Refreshes |-> [pc |-> "idle", entries |-> {}]]
    /\ stops = 0 /\ overlapped = FALSE /\ unsaved = FALSE

-----------------------------------------------------------------------------
(* Feeds and their cache.                                                  *)

\* A provider's Fetch: no connection, no answer in time, a status other than
\* 200 or nothing that parses, all {} here; or what the feed serves now.
Downloads == {{}, feed}

\* writeCache: the new cache, or the old one.  It is never empty, as no empty
\* answer is written.
WriteCache(old, entries) == IF WritesFail THEN {entries, old} ELSE {entries}

\* The results of a fetch that asks the provider: an error or an empty answer
\* gives what stands in for it, another answer is written to the cache.
Asked(old, standIn) ==
    LET results(entries, caches) == {[entries |-> entries, cache |-> c] : c \in caches}
    IN  UNION {IF got = {} THEN results(standIn, {old}) ELSE results(got, WriteCache(old, got)) :
                   got \in Downloads}

\* Plausible bug: an error of the provider is reported although there is a cache.
CachedFetchNoFallback(old) == [entries : {old} \ {{}}, cache : {old}] \cup Asked(old, {})

\* CachedProvider.Fetch with the cache `old': if there is one and it is younger
\* than its TTL, it is the answer; one of any age stands in for an answer.
CachedFetch(old) == [entries : {old} \ {{}}, cache : {old}] \cup Asked(old, old)

WriteFailed(result) == result.entries = feed /\ result.cache # feed

-----------------------------------------------------------------------------
(* The server.                                                             *)

\* server.New loads or creates the key; the list is not kept over a restart.
StartServer ==
    /\ ~up
    /\ up' = TRUE
    /\ version' = 0
    /\ published' = NoList
    /\ UNCHANGED <<world, key, seq, cache, pinned, agentVars, stops, overlapped, unsaved>>

\* confirmedFromIncidents; an error of the query is only logged.
Consensus(counted) == IF counted THEN confirmed ELSE {}

\* Sign, with the number given.
Signed(number, entries) == [seq |-> seq + 1, version |-> number, entries |-> entries, key |-> key]

\* handleGetBlocklist has something to serve.
Serving == up /\ published # NoList

\* refresh, on the publisher's only goroutine: the union of the feeds that
\* answer and the consensus (blocklistSource itself reports no error, so
\* "keeping last-published list" never happens), numbered and signed.
Publish ==
    \E counted \in BOOLEAN, got \in CachedFetch(cache["server"]) :
        /\ up
        /\ seq < MaxSeq
        /\ cache' = [cache EXCEPT !["server"] = got.cache]
        /\ version' = version + 1
        /\ seq' = seq + 1
        /\ published' = Signed(version + 1, got.entries \cup Consensus(counted))
        /\ unsaved' = (unsaved \/ WriteFailed(got))
        /\ UNCHANGED <<world, up, key, pinned, agentVars, stops, overlapped>>

\* LoadOrCreateSigningKey: the key on disk, or, if its file was lost with the
\* data directory, a new one.
LoadOrCreateSigningKey == {k \in {key, key + 1} : k <= MaxKeys}

\* The process ends; which key it will find is settled here.
StopServer ==
    /\ up
    /\ stops < MaxStops
    /\ stops' = stops + 1
    /\ up' = FALSE
    /\ key' \in LoadOrCreateSigningKey
    /\ UNCHANGED <<world, version, published, seq, cache, pinned, agentVars, overlapped, unsaved>>

-----------------------------------------------------------------------------
(* The agent.                                                              *)

StartAgent ==
    /\ stage = "down"
    /\ stage' = "feeds"
    /\ UNCHANGED <<world, serverVars, cache, pinned, feeds, inUse, disk, sync, refresh, stops, overlapped, unsaved>>

\* refreshFeeds: the first one is called by Run, later ones by its ticker.  A
\* feed that fails without a cache contributes nothing.
FetchFeeds(r) ==
    \E got \in CachedFetch(cache["agent"]) :
        /\ stage \in {"feeds", "loop"}
        /\ refresh[r].pc = "idle"
        /\ stage = "feeds" => \A q \in Refreshes : refresh[q].pc = "idle"
        /\ cache' = [cache EXCEPT !["agent"] = got.cache]
        /\ refresh' = [refresh EXCEPT ![r] = [pc |-> "fetched", entries |-> got.entries]]
        /\ overlapped' = (overlapped \/ \E q \in Refreshes : refresh[q].pc # "idle")
        /\ unsaved' = (unsaved \/ WriteFailed(got))
        /\ UNCHANGED <<world, serverVars, pinned, stage, feeds, inUse, disk, sync, stops>>

SetFeeds(r) ==
    /\ refresh[r].pc = "fetched"
    /\ feeds' = refresh[r].entries
    /\ refresh' = [refresh EXCEPT ![r] = [pc |-> "idle", entries |-> {}]]
    /\ stage' = IF stage = "feeds" THEN "list" ELSE stage
    /\ UNCHANGED <<world, serverVars, cache, pinned, inUse, disk, sync, stops, overlapped, unsaved>>

\* syncEnrollment, after the upload: a copy of the feeds' entries ...
BeginSync(s) ==
    /\ stage \in {"list", "loop"}
    /\ sync[s].pc = "idle"
    /\ stage = "list" => \A t \in Syncs : sync[t].pc = "idle"
    /\ sync' = [sync EXCEPT ![s] = [pc |-> "asking", local |-> feeds, list |-> NoList]]
    /\ overlapped' = (overlapped \/ \E t \in Syncs : sync[t].pc # "idle")
    /\ UNCHANGED <<world, serverVars, cache, pinned, stage, feeds, inUse, disk, refresh, stops, unsaved>>

\* Its goroutine goes on, with a list.
Goto(s, pc, list) == sync' = [sync EXCEPT ![s] = [pc |-> pc, local |-> sync[s].local, list |-> list]]

\* Verify: the signature is by the pinned key.
Verified(list) == list.key = pinned

\* Plausible bugs: the signature is not looked at; a list is only taken if its
\* version is higher than the one in use.
UnverifiedAnswers(s) == Serving
VersionAnswers(s) == Serving /\ Verified(published) /\ published.version > inUse.list.version

\* ... then FetchAndVerify.
Answers(s) == Serving /\ Verified(published)

Fetched(s) ==
    /\ sync[s].pc = "asking"
    /\ Answers(s)
    /\ Goto(s, "got", published)
    /\ UNCHANGED <<world, serverVars, cache, pinned, stage, feeds, inUse, disk, refresh, stops, overlapped, unsaved>>

\* SaveBlocklist, whose failure is only logged.
SaveList(s) ==
    /\ sync[s].pc = "got"
    /\ \/ disk' = sync[s].list /\ unsaved' = unsaved
       \/ WritesFail /\ disk' = disk /\ unsaved' = TRUE
    /\ Goto(s, "merging", sync[s].list)
    /\ UNCHANGED <<world, serverVars, cache, pinned, stage, feeds, inUse, refresh, stops, overlapped>>

\* Plausible bug: the failure is returned without looking for the copy.
FallBackToNothing(s) ==
    /\ sync[s].pc = "asking"
    /\ Goto(s, "merging", NoList)
    /\ UNCHANGED <<world, serverVars, cache, pinned, stage, feeds, inUse, disk, refresh, stops, overlapped, unsaved>>

\* No connection, a status other than 200 (503 before the first list), a
\* signature that does not verify: the copy on disk, of any age and from any
\* server, if there is one.
FallBack(s) ==
    /\ sync[s].pc = "asking"
    /\ Goto(s, "merging", disk)
    /\ UNCHANGED <<world, serverVars, cache, pinned, stage, feeds, inUse, disk, refresh, stops, overlapped, unsaved>>

\* Plausible bug: what is in use is never removed, "union" taken too far.
UseAccumulating(s) ==
    /\ sync[s].pc = "merging"
    /\ inUse' = [local |-> inUse.local \cup sync[s].local, list |-> sync[s].list]
    /\ sync' = [sync EXCEPT ![s] = Idle]
    /\ stage' = "loop"
    /\ UNCHANGED <<world, serverVars, cache, pinned, feeds, disk, refresh, stops, overlapped, unsaved>>

\* The merged entries replace those in use.
Use(s) ==
    /\ sync[s].pc = "merging"
    /\ inUse' = [local |-> sync[s].local, list |-> sync[s].list]
    /\ sync' = [sync EXCEPT ![s] = Idle]
    /\ stage' = "loop"
    /\ UNCHANGED <<world, serverVars, cache, pinned, feeds, disk, refresh, stops, overlapped, unsaved>>

\* Merge: a prefix is in the union if it is in one of the two.
Merge(local, list) == local \cup list.entries

\* What feedMatch matches an address against.
Matched == feeds \cup Merge(inUse.local, inUse.list)

\* The agent's process ends; the cache and blocklist.json stay.
StopAgent ==
    /\ stage # "down"
    /\ stops < MaxStops
    /\ stops' = stops + 1
    /\ stage' = "down"
    /\ feeds' = {} /\ inUse' = Unused
    /\ sync' = [s \in Syncs |-> Idle]
    /\ refresh' = [r \in Refreshes |-> [pc |-> "idle", entries |-> {}]]
    /\ UNCHANGED <<world, serverVars, cache, pinned, disk, overlapped, unsaved>>

\* `agent enroll` once more, as the next start will see it.
Reenroll ==
    /\ stage = "down"
    /\ up
    /\ pinned # key
    /\ pinned' = key
    /\ UNCHANGED <<world, serverVars, cache, agentVars, stops, overlapped, unsaved>>

-----------------------------------------------------------------------------
(* The world: the feed's publisher, other agents' uploads, time.           *)

FeedChanges ==
    /\ changes < MaxChanges
    /\ changes' = changes + 1
    /\ \E p \in Prefixes : feed' \in {feed \cup {p}, feed \ {p}} \ {feed}
    /\ UNCHANGED <<confirmed, serverVars, cache, pinned, agentVars, stops, overlapped, unsaved>>

IncidentsChange ==
    /\ changes < MaxChanges
    /\ changes' = changes + 1
    /\ confirmed' \in (SUBSET Reported) \ {confirmed}
    /\ UNCHANGED <<feed, serverVars, cache, pinned, agentVars, stops, overlapped, unsaved>>

-----------------------------------------------------------------------------
Next ==
    \/ StartServer \/ Publish \/ StopServer
    \/ StartAgent \/ StopAgent \/ Reenroll
    \/ FeedChanges \/ IncidentsChange
    \/ \E r \in Refreshes : FetchFeeds(r) \/ SetFeeds(r)
    \/ \E s \in Syncs :
        BeginSync(s) \/ Fetched(s) \/ SaveList(s) \/ FallBack(s) \/ Use(s)

Spec == Init /\ [][Next]_vars

\* The ticker starts goroutines for ever and the calls of each are bounded by
\* timeouts; a feed or a server that is asked again and again answers again
\* and again, though maybe never the same goroutine; caches age.
Fairness ==
    /\ WF_vars(\E r \in Refreshes : FetchFeeds(r))
    /\ SF_vars(\E r \in Refreshes : FetchFeeds(r) /\ refresh'[r].entries = feed)
    /\ \A r \in Refreshes : WF_vars(SetFeeds(r))
    /\ WF_vars(\E s \in Syncs : BeginSync(s))
    /\ SF_vars(\E s \in Syncs : Fetched(s))
    /\ \A s \in Syncs : WF_vars(Fetched(s) \/ SaveList(s) \/ FallBack(s) \/ Use(s))

FairSpec == Spec /\ Fairness

-----------------------------------------------------------------------------
(* Properties.                                                             *)

\* No list reaches the agent's memory or its disk that was not signed with a
\* key the user had pinned, then or earlier: not after the server lost its
\* key, nor through the copy on disk, whose key nobody compares again.
\* (Checked together with TypeOK.)
Trusted ==
    /\ TypeOK
    /\ \A l \in {inUse.list, disk} \cup {sync[s].list : s \in Syncs} : l.key <= pinned

Quiet ==
    /\ \A s \in Syncs : sync[s].pc = "idle"
    /\ \A r \in Refreshes : refresh[r].pc = "idle"

\* "Cache first, ask later": between two cycles the running agent matches
\* against everything it has on disk, whatever failed since and however often
\* either process was restarted; so an outage takes no protection away.
\* Except after two goroutines of one kind overlapped, which may finish in the
\* wrong order, or after a write failed.
CacheFirst ==
    stage = "loop" /\ Quiet /\ ~overlapped /\ ~unsaved =>
        feeds = cache["agent"] /\ inUse.list = disk

\* With the same exceptions a running agent never goes back to an older list,
\* though it compares no versions (and must not: a restarted server counts
\* from 1 again).
NewerOnly ==
    [][ stage # "down" /\ stage' # "down" /\ ~overlapped' /\ ~unsaved'
            => inUse'.list.seq >= inUse.list.seq ]_vars

Trusts == stage # "down" /\ Serving /\ Verified(published)
Settled == <>[]Trusts /\ <>[][FALSE]_<<feed, published>>

\* Whatever happened before, restarts included, and although syncs go on
\* overlapping: when both run on, the agent trusts the server's key and nothing
\* new is published, the published list arrives.
ListArrives == Settled => []<>(inUse.list = published)

\* "Union, never overwrite" does not mean for ever: a prefix that the feed and
\* the server have dropped is in the end no longer matched, though it may come
\* back from a cache, from the copy on disk and from a late sync, which carries
\* the feeds' entries and the list of an earlier tick.  (A feed that serves
\* nothing at all is taken for a failure and drops nothing.)
Forgets ==
    Settled /\ []~unsaved /\ <>[](feed # {})
        => <>[](Matched \subseteq feed \cup published.entries)
=============================================================================
