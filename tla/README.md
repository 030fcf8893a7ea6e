# Breach Harbor in TLA+

Models of the parts of Breach Harbor whose correctness depends on order, failure and
interleaving: how a log line becomes an event and a score, the agent's decision to block, its
upload queue and what the server does with an upload, how blocklists travel back to the agent,
the lock on the data directory, the firewall backends, the agent that the server can run inside
its own process, and what updates and installs leave on a host. TLC checks small instances of
each; TLAPS proves the main safety properties of eight of them for every value of the constants.
Paths below are relative to the repository.

## 1. Inventory

### The system

`breachharbor agent` watches one machine: log sources produce events, events are scored per
address, an address whose score passes a threshold is blocked in a dedicated firewall table
(if enforcing) and every event is queued and uploaded (if enrolled). `breachharbor server`
stores what agents upload, merges it with public feeds and publishes signed blocklists that
agents fetch to weigh addresses. The dashboard can also run one agent inside the server.

| Component | State it keeps | Operations | Talks to |
|---|---|---|---|
| Agent loop (`agent/agent.go`) | `Config.Enforce`, feed index, one sliding window per address | `Run`, `handleEvent`, `block`, `reconcileState`, `refreshFeeds`, `syncEnrollment` | log sources (channel), store, firewall, fail2ban (command), uploader (goroutines) |
| Windows (`agent/offender.go`) | time-stamped hits of an address | `Add`, `prune`, `Score`, `BlockEligible`, `ForceFeedMatch` | called by the loop |
| Agent state (`agent/state.go`) | `agent-state.json`: PID, mode | `LoadState`, `SaveState` | loop, `agent enforce`, dashboard: no lock between them |
| Store (`store/filestore.go`) | offenders, queue, their files, `agent.lock` | `Open`, `Close`, `PutOffender`, `Enqueue`, `Dequeue`, `Ack` | loop, upload goroutines, drain loop (one mutex) |
| Uploader (`agent/uploader.go`) | none (cached blocklist file) | `UploadPending`, `SendHeartbeat`, `ReportFirewall`, `RefreshBlocklist` | server (HTTP) |
| Enrollment (`agent/enroll.go`, `server/enroll.go`) | `enrollment.json`; collectors and tokens | `Enroll`, `LoadEnrollment` | agent start, server |
| Firewall (`firewall/`) | the host's tables | `Detect`, `Init`, `Block`, `Unblock`, `List`, `Flush` | nft, ipset, iptables, ufw, pfctl commands |
| Log sources (`logsource/`) | offset and identity of a followed file, the unfinished line | `Watch`, `tick`, parsers | agent loop (channel) |
| Ingest (`server/ingest.go`, `services/collector.go`, `services/location.go`) | incidents, addresses, locations, collectors (database) | `handleObservations`, `CreateIncidentsBatch`, `resolveIPAddress`, `GetOrCreateLocation`, `RecordFirewallStatus` | agents, database |
| Publisher (`server/publisher.go`, `blocklist/`, `feed/`) | feed cache, published list, signing key | tick, `BuildConsensus`, sign, fetch | feeds, database, agents |
| Dashboard's local agent (`server/localagent.go`) | the current run, shown mode, log ring | `Start`, `Stop`, `SetEnforce`, drain loop, firewall report | agent loop, store, database |
| Command line (`cli/`) | none | `run`, `enforce`, `flush`, `uninstall`, `status`, ... | state file, firewall, store |
| Self-update (`selfupdate/`) | the binary, under two names | `Resolve`, `Fetch`, `Install` | release server |
| Installers (`agent/`, `server/`: `systemd.go`, `launchd.go`; `cli/agent_install.go`) | unit file or plist, what the manager has loaded | `Install`, `Uninstall` | systemd, launchd, firewall |
| Sessions, views | database rows | CRUD and rendering | database |

### What is hard, and what makes each part correct

- **Upload queue.** `syncEnrollment` runs in a fresh goroutine per tick, so uploads overlap with
  each other and with `Enqueue`; replies get lost; the bound drops entries that are being
  uploaded; writes of the file fail; the process ends anywhere. Correct: nothing safely queued
  is lost except by the bound; the bound costs only the oldest; what arrives has no holes; it
  does arrive.
- **Enforcement.** A crossing is noticed once; mode switches, failing firewall commands,
  restarts, decay and outside flushes come between the crossing and the record. Correct: a dry
  run touches nothing; records and rules explain each other; no crossing goes unexplained; the
  mode follows `agent-state.json`.
- **Lock.** Create, write PID, read, remove and retry are separate system calls. Correct: one
  agent per data directory, and a dead agent's lock keeps nobody out.
- **Firewall backends.** `Init`, `Block` and `Flush` are sequences of commands, any of which
  may fail, guarded by probes whose own failure means "absent". Correct: what `Block` reported
  is dropped, `Flush` leaves nothing, and a half-done call can be repeated.
- **Local agent.** Stop drops the mutex while it waits; the drain loop is never waited for; the
  data directory outlives a run. Correct: one run at a time, none forgotten, nothing lost,
  Stop returns.
- **Log sources.** The tailer polls a path: rotation, truncation, disappearance and a half-written
  line can fall between any two of its calls, and its callback waits on a bounded channel.
  Correct: each line once, in order and whole; no readable line given up; it stops when told.
- **Windows.** Events arrive late and out of order from several sources, with times of their
  own. Correct: the score is what the address did within the window, each attempt once.
- **Blocklist.** Four caches stand between a feed and the agent's memory (the server's and the
  agent's feed cache, the published list, `blocklist.json`), refreshed by goroutines that
  nobody waits for. Correct: only verified lists; never less protection because something is
  down; nothing stale for ever.
- **Ingest.** A batch is many statements, of which only the last is a transaction, beside the
  same statements of other batches. Correct: a conflict is healed by the retry; a batch is
  stored whole; tables refer to each other correctly.
- **Deployment.** An update replaces two files; an install is three or four commands, while the
  service runs and restarts by itself. Correct: whole binaries, in step; success means that it
  took effect; uninstall leaves no rule.

`PROJECT.json` lists every component with its status and every hazard with its line.

## 2. Modules

| Module | Models | Code |
|---|---|---|
| `Outbox` | abstract: what the queue promises | - |
| `ObservationQueue` | queue, file, uploads, server insert, process ends; implements `Outbox` | `store/filestore.go`, `agent/uploader.go`, `agent/agent.go`, `services/collector.go` |
| `AgentEnforcement` | start, events, block, record, mode, outside commands | `agent/agent.go`, `agent/state.go`, `store/filestore.go`, `cli/agent_enforce.go`, `cli/agent_cmd.go` |
| `StoreLock` | `agent.lock`, system call by system call | `store/filestore.go` |
| `LocalAgent` | the server's own agent: requests, run, drain loop | `server/localagent.go` |
| `FirewallBackend` | five backends, command by command | `firewall/*.go` |
| `LogTailer` | one followed log: poll, rotation, truncation, half lines, the events channel | `logsource/tail.go`, `authlog.go`, `nginx.go`, `agent/agent.go` |
| `OffenderWindow` | attempt to log line to event to score | `logsource/*.go`, `agent/offender.go`, `agent/agent.go` |
| `BlocklistSync` | feed, cache, publisher, signature, fetch, copy on disk, memory | `feed/`, `blocklist/`, `server/publisher.go`, `agent/uploader.go`, `agent/agent.go` |
| `Ingest` | a batch statement by statement; firewall reports | `server/ingest.go`, `services/collector.go`, `services/location.go`, `middleware/`, `agent/agent.go` |
| `Deployment` | `update`, `install`, `uninstall` and the service beside them | `selfupdate/`, `cli/update_cmd.go`, `cli/agent_install.go`, `agent/` and `server/` installers |
| `*_proofs` | theorems of the module they extend | - |
| `MC*` | constants and symmetry for TLC | - |

The modules meet where one's result is another's input: `LogTailer`'s events are
`OffenderWindow`'s lines, the window's score is `AgentEnforcement`'s saturating score, its events
are `ObservationQueue`'s observations, that queue's server is opened up in `Ingest`, the
incidents there are `BlocklistSync`'s `confirmed`, and that module's `Matched` is the feed match
(`listed`) of `OffenderWindow`. `AgentEnforcement`'s `armed` is `FirewallBackend`'s table.

A step that says *plausible bug* is not part of `Next`: it is a variant of the definition next
to it, used to show that a property notices the difference.

### ObservationQueue

The code appends at the back, drops from the front and filters in place, so the queue is
always ascending in the order of `Enqueue` and is modelled by the set of its numbers; `Oldest`
is `Dequeue`'s prefix, `Newest` what `Enqueue` keeps. `Post` copies the head under the mutex
and lets go of it; `Ingest` is the server's transaction; `AckBatch` the removal by ID after a
2xx. The three may be separated by anything, in particular by the same steps of another
goroutine. `Exit` is a crash or a signal: `Run` waits for its log sources, never for
`syncEnrollment`, so its requests are abandoned and may still arrive (`IngestLate`).
`Save(FALSE)` is a failed write: memory is ahead of the file. `Uploader` is set at start only,
hence `uploading` apart from `enrolled`. `incidents` counts to "several": the server does not
recognise a batch that it stored before, duplicates are the documented at-least-once delivery.

### AgentEnforcement

`Start`, `StartInit`/`StartDry`, `StartSave` are `Run` up to its loop: the state is loaded in
the first and written back in the last, which is the window an `agent enforce` can fall into.
In the loop, `Observe` scores an event and decides whether `block` is called, `Block*` are the
outcomes of `block`, `Put` is `PutOffender`. `Decay` lets hits leave the window; the score
saturates at the threshold because the code only compares with it, and the weights (kind,
feed match, event too old) are a set of possible contributions. `EnforceCmd`, `Flush`,
`Ban`/`Unban`, `Exit` and `Reboot` come from outside; the constant `Events` says which kinds of
failure and outside event an instance contains. `armed` stands for the table that `Init` makes;
how the backends make it is `FirewallBackend`'s subject. History variables (`requested`,
`wish`, `undone`, `unsaved`, `missed`) record why a rule or a record is missing.

### StoreLock

A process is its PID. The file is known by its creator and by whether the PID is in it, since
`O_CREATE|O_EXCL` and `writePID` are two calls. `Contend`, `FindStale`/`Refuse`, `RemoveStale`,
`Recreate`/`StillContended` are the branches of `acquireLock` with its one retry. `Alive` is the
signal-0 probe. `happens`, fixed at the start of a behaviour, says which of overlapping starts,
crashes and PID reuse it may contain, so that one instance covers all combinations and each
property can name the ones it needs.

### LocalAgent

Runs are numbered. A Stop is `BeginStop` (under the manager's mutex), `CancelRun` (it lets go of
the mutex and waits for the run's goroutine) and `EndStop` (it has the mutex again); several
dashboard requests may be in between. `HoldsMutex` is the request that has the mutex between two
steps; `ReportsError`, a failed run's goroutine writing `lastErr`, needs the mutex as well, before
Stop hears that the run is done. `DrainTakes`, `DrainStores`/`DrainFails`, `DrainAcks` are the
steps of `drainOnce`; nobody waits for a drain loop, so it may store and ack, through a store that
is closed, beside any later run. All runs use one data directory (`stateFile`, `queueFile`), each
has its own copy of the queue in memory, and every write of the file may fail (`Save`). Histories:
`accepted` is what an `Enqueue` without an error has promised, `owed` what the last run found on
disk or made itself, both without what the bound has dropped; `overtaken` says that a drain loop
wrote the file after a later run's start. The run itself is reduced to what the manager sees;
`AgentEnforcement` and `ObservationQueue` model its inside. Two stores that write at the same
moment also share a temporary file name; a write is one step here.

### FirewallBackend

A call is a plan of parts in the order of the code (`InitParts`, `BlockParts`, `FlushParts`):
each part is a few commands that run always, only if a probe finds an object missing, or only if
it finds it. `todo` is the parts left, `doing` the commands left of the current one: `Enter` and
`Probe` go into the next part, `RunCommand` carries out one command, `ListRules` turns ufw's list
into the deletions it asks for, and `CommandFails` may end the call at any command. `Needs`,
`HeldBy`, `Inside`, `Accepts` and `Obey` say what the host answers and are external: an iptables
chain cannot be deleted while something jumps to it, an ipset not while a rule uses it, an
iptables rule that is added twice is there twice. `blind` hosts also answer a probe with "absent"
when the object is there (no privilege, xtables lock held): the code takes any error of a probe
for absence. A backend is chosen once per behaviour; calls do not overlap.

In the modules below the type invariant is a conjunct of the first property of the run.

### LogTailer

A line is two pieces, its beginning and the rest with the newline, so that a poll can fall
between them; a file is a sequence of pieces, known by its number and by how often it was
truncated (`age`). `StatFinds` and `Open`, and `StatFinds`, `Drain` and `Reopen`, are apart,
since the code calls `os.Stat` first and opens or reads later. `info` is what the code keeps of
the last `Stat`, `off` the reader's offset, `pending` the text without a newline yet. `Emit`
hands on one line and, if it is an event, sends it: `Send` is the `select` on the channel and
`ctx.Done`. `WriteLine`, `WriteHalf`, `WriteRest`, `MoveAway`, `Create`, `WriterReopens`,
`Truncate` are the log's writer and logrotate. The history `startAge` is the age from which the
open file is being read; the histories `slipped`, `carried`, `refilled` and `skipped` name what
the tailer cannot see or does not want: a file changed between `Stat` and the read, a half line
kept when the file vanished, a truncation hidden by the new size, and what was there before the
first open.

### OffenderWindow

One address, as windows do not touch each other. `Attempt` makes a line in every watched log
that carries its kind; `HandleEvent` takes a source's next line, in the source's order and at
any time later, prunes, adds the event (and the feed match), and flags the address on a
crossing. `Parsed` is what each parser makes of a line: its kind and time, auth.log's with
the year of the reader (`NewYear`, `Year`). The weights are those of `DefaultWeights`. `Hosts` says
which logs a host has. `Deserved` is the reference for a flag: the weight (`WeightOf`) of the
attempts of the last `Window` ticks, computed from what happened and not from what was reported.
The table above `ScoreWeights` lets only ssh and nginx hits decay (`Decays`), while `prune` drops
every kind: `ScoreIsDeserved` compares the part of the score that is meant to decay with
`RecentDecaying`, and `TrustedStays` (section 3) states what the table says of the rest.

### BlocklistSync

A list is identified by the number of its publication (`seq`), which no program sees; `version`
is the number it carries. `CachedFetch` is `CachedProvider.Fetch` with its four outcomes (young
cache, answer, stale cache, failure); the server's and the agent's cache use it alike. `Publish`
is the publisher's tick. `BeginSync`, `Fetched` or `FallBack`, `SaveList`, `Use` are
`syncEnrollment`'s blocklist half, `FetchFeeds` and `SetFeeds` `refreshFeeds`, each in several
goroutines; in the stages "feeds" and "list" `Run` calls them itself, one after the other. A
lost key is a new key at the server's next start; `Reenroll` pins it. With `WritesFail` a
write of a cache or of `blocklist.json` may fail.

### Ingest

`Post` is the request as it passes the token check, then per address `Find`, or `Miss`,
`FindLocation`, `CreateLocation`, `Insert` or `Conflict`, then `Store`, the transaction, and
`Reply` or `LoseReply`. Any statement may fail (`Fails`). `cityDB` says whether a GeoLite2-City
database is there; if it is, all addresses are in one city, which is the case in which they
share a row. `Snapshot`, `Record`, `ReportLost` are the firewall report, which has no queue.

### Deployment

`BeginUpdate` to `EndUpdate` is one `update`, `AbortUpdate` a failure or a kill at any step;
`file` says what each of the two names holds. An install or uninstall is its list of steps
(`AgentSystemdInstall`, `LaunchdUninstall`, ...), carried out by `Step`, `StepTolerated` (the code
ignores the failure), `AbortCommand` and `Refused` (the manager says no). `unit` is the file,
`loaded` what the manager has read of it, `daemon` the process, with the option and the backend
it was started with. `Restart`, `Reboot`, `Block` and `ChangeBackends` happen at any time. The
release a daemon runs is that of its binary when it was started, which ties the two parts.

## 3. Runs

All passing runs together fire every action of every module's `Next`.

| Run | Instance | Shows |
|---|---|---|
| `queue` | two syncs, bound 2, batch 2, three observations, failed writes and lost messages, one process end, one late request; 342,455 states | `NeverSilentlyLossy`, `OnlyOverrunEvicts`, `NoGaps`, refinement of `Outbox`, `EventuallyDelivered` |
| `enforce` | two addresses, threshold 2, weights 0, 1 and 2, all outside events; 767,792 states | `DryRunUntouched`, `BlockedIsBacked`, `RulesRecorded`, `MissedExplains`, `EnforceConverges` |
| `lock` | three PIDs, every combination of overlap, crash and reuse; 944 states | `SerialExclusion`, `RefusedOnlyByHolder` |
| `local` | two runs, two Stop requests, two observations, bound 1, failing inserts and writes, process ends; 218,252 states | `AtMostOneRun`, `HeldUntilDelivered`, `NothingLost`, `StopReturns` |
| `fw` | five backends, one address per family, blind or not; 180,005 states | `ProbedBlockDrops`, `FlushRemovesAll`, `NeverStuck` |
| `tail` | three lines, two files, one truncation per file, a channel of one; 499,414 states | `InOrderOnce`, `NeverGlued`, `NoStepLoses`, `WatchReturns`, `KeepsUp` |
| `blocklist` | one prefix, two syncs, one refresh, two publications, one change of the world, one process end, two keys; 3,886,052 states | `Trusted`, `CacheFirst`, `NewerOnly` |
| `blocklist_live` | two prefixes, two syncs, one refresh, two publications, one process end, one key, no failed writes; 672,076 states | `ListArrives`, `Forgets` |
| `window` | four attempts, four ticks, a window of two, a New Year, three Linux hosts and a Mac, one restart or feed change; 4,270,673 states | `ScoreIsDeserved`, `FlagsAreDeserved` |
| `ingest` | two collectors with the same two addresses in opposite order, one failure, one change; 661,616 states | `TablesAgree`, `DuplicatesAreRetries`, `Heals`, `ReportArrives` |
| `deploy` | two releases, two unit options, two faults; both kinds of service, both managers; 1,111,902 states | `BinariesAgree`, `InstallTakesEffect`, `UninstallLeavesNothing` |

Why the bounds are enough. `queue`: with a bound of 2 the third observation overruns the queue
while a batch of the same entries is out, and two syncs can hold the same batch; a larger
instance (four observations) was also explored without the liveness property, and the safety
properties are proved for every size. `enforce`: addresses interact only through the offender
file, for which two suffice; a weight of 2 crosses at once, 1 needs two events, 0 is an event
outside the window. `lock`: a race needs a dead owner and two starters. `local`: an orphan needs
two Stops and a Start between them, a late drain loop one run after its own; with a bound of 1
the second observation drops the first, in flight or not. Three runs (3,074,586 states) and a
longer queue (bound 2, batch 2, three observations, one Stop; 313,093 states) were also explored
for the safety properties, which are proved for every size. `fw`: the two families share no
object but the table, and one address per family shares every set. `tail`: the first line was
there before, the second can be cut by the rotation, the third is in the new file. `blocklist`:
two lists tell older from newer, two keys trusted from foreign, two syncs pass each other.
`blocklist_live`: a prefix can be dropped while another stays; the two syncs overlap and finish
out of order, before and after the world settles. Two overlapping refreshes were explored apart
(one publication, no process end; 191,576 states): both properties hold. No write fails there, as
`Forgets` assumes so anyway; in `blocklist` they may fail. `window`: three or four hits of 15
reach 50 only together, so pruning one too late or too early shows. `ingest`: opposite order lets
each of two batches make the other fail. `deploy`: one fault makes a half-done install, the other
disturbs its repair.

Deadlock is checked in `queue`, `enforce`, `local`, `fw` and `deploy`. In `lock` every PID may have
been used and ended; in `tail` the agent has stopped; in `blocklist`, `window` and `ingest`
the bounds on publications, ticks and attempts, or on requests, end the behaviours.

One run that TLC must find violated, a disagreement of the code with its own comment:
`lock_race`, the instance of `lock` with `MutualExclusion`. Two starts examine the same stale
lock; one removes the other's fresh one and both run.

Further promises of the documentation that the code does not keep are stated in the modules,
as predicates that no passing run lists. Each fails when it is added to the cfg of the run named:

| Predicate | Run | What happens |
|---|---|---|
| `EnforceOnBlocksActive` | `enforce` | An address that crossed in dry run ("would block", `PLAN.md:672-673`) stays unblocked after `agent enforce --on`, however many events follow, as long as its window stays over the threshold: only the crossing event calls `block` (`agent.go:480`). |
| `EnforceNotLost` | `enforce` | An `agent enforce` between `Run`'s `LoadState` and `SaveState` is overwritten (`agent.go:126`), although "a running `agent run` process picks this up within a few seconds" (`agent_enforce.go:54`). |
| `NoOrphan` | `local` | Two Stops wait for the same run; the slower one wakes after a Start and forgets the new run, which nothing can stop any more (`localagent.go:330`). |
| `ArmedOnlyWhenAsked` | `local` | A run "always starts in dry run" (`localagent.go:201`), but `agent-state.json` still says enforcing from the run before and arms it within three seconds. |
| `AlreadyDurable` | `local` | Stop "waits for its goroutines to exit" (`localagent.go:289-291`) and what is queued is "already durable on disk" (`filestore.go:118-120`), but the drain loop is not waited for: it acks through its closed store (`localagent.go:483`) and overwrites the next run's queue file. What that run has accepted is lost if the process ends before the next write. |
| `BlockDrops` | `fw` | nft's `Init` that failed half way leaves the table, which makes the next `Init` return nil without chain or rules (`nft.go:54`); pf has the same flaw after a `Flush` that failed between its two commands. |
| `CountedOnce` | `window` | On a host with both a journal and `/var/log/auth.log`, each ssh attempt counts twice (two sources, `authlog.go:19-21`): two attempts reach 60 of 50. |
| `TrustedStays` | `window` | A ban of fail2ban and a feed match are documented as non-decaying ("no (instant, trusted)", `offender.go:20-24`, `:127-129`), but `prune` drops them with the other events: a banned address is weighed as if nothing had happened once its ban is a window old. |
| `OldIsForgotten` | `window` | "The scorer only cares about recency" (`authlog.go:79-83`), but an auth.log line from before New Year's that is read after it is dated almost a year ahead and counts as long (`misdated`). |

Other facts the models show, without a run of their own:

- After `agent flush` an address stays recorded as blocked, so its next crossing adds no rule
  (`CrossingIsBlocked` fails once `Events` contains "flush"), and the agent stays in enforce
  mode, and reports it, without a table.
- A lock left by a crash keeps its own agent out if the PID is given out again (PID 1 in a
  container): this is why `RefusedOnlyByHolder` excludes crash together with reuse.
- On a blind host `Flush` of ipset returns nil with everything in place.
- Tailer: a file replaced or truncated between `Stat` and `Open` is read twice (`slipped`); a half
  line is kept when its file vanishes and is glued to the first line of the next (`carried`);
  a truncated file that has grown back to its old size is read on from the old offset
  (`refilled`); what the writer adds to the old file after the drain is not read.
- Window: a source that ends is not started again, and sources are only looked for at start.
- Blocklist: no version is compared, and none could be, since a restarted server counts from
  1; overlapping syncs therefore may put an older list in place of a newer one until the next
  tick. The copy on disk carries a key that nobody compares. The publisher's "keeping
  last-published list" cannot happen, since its source reports no error. A feed that serves an
  empty list counts as failed, and its old cache is served for ever.
- Ingest: duplicates of a lost reply count as incidents, three of which confirm an address. A
  failed request can leave a location that nothing uses. Addresses of one city share a
  location, and with it the Tor flag of the first. The token of a deleted collector is refused
  for ever, so its agent's queue only moves by its bound. With two new addresses in common,
  two batches conflict; the retry finds the rows.
- Deployment: after an update cut off between the two names, running `update` by the updated
  name says it is up to date and does nothing; by the other name it repairs both.
  `systemctl enable --now` does not restart a running service, so an install over an enforcing or
  observing one takes effect at the next start. A flush whose `Detect` finds no backend is
  skipped, and "Firewall rules flushed." is printed all the same.

## 4. Fairness

- `queue`: `Post` is weakly fair (a ticker that fires for ever); `Ingest` and `AckBatch` are
  strongly fair: requests end by a 30 s timeout, and a server that is reachable again and
  again stores a batch again and again. `EventuallyDelivered` further assumes an agent that in
  the end stays up and enrolled. Its conclusion allows the bound to drop an entry.
- `enforce`: the sequential code of `Run` and `handleEvent` is weakly fair. `ReconcileOn` and
  `ReconcileOff` are strongly fair: they are disabled while an event is handled, and Go's
  `select` chooses among ready cases at random, so the ticker is not starved. `ReconcileOn`
  moreover assumes that `Init` does not fail for ever.
- `local`: a run gets to its loop or fails, sees its cancellation (again `select`), and a Stop
  goes on to cancel it; a failed run's report and a Stop whose run is over get the mutex in the
  end (strongly: others may have it now and then). Nothing is assumed of the drain loop, of
  requests or of the database.

- `tail`: the poll's own steps, weakly (a ticker that fires for ever); opening a file that is
  there, strongly, since a missing permission is repaired again and again; `Return` and `Consume`
  strongly, `select` again. Writer and rotation are never fair. `KeepsUp` gives up where the file
  is taken away or the agent stopped.
- `blocklist_live`: some goroutine starts and goes on, weakly, though maybe never the same one;
  an answer of the server and a fetch that gets what the feed serves, strongly (asked again and
  again, it answers again and again: caches age by their TTL). Both properties assume that from
  some time on both processes run, the key is the pinned one and nothing new is published;
  nothing is assumed of what happened before.
- `ingest`: posts, handlers and replies, weakly; a report's arrival strongly.
- The runs of `lock`, `fw`, `blocklist`, `window` and `deploy` state no liveness.

No environment action (failures, crashes, commands) is ever fair.

## 5. Proofs

| Module | Theorems | Inductive invariant |
|---|---|---|
| `ObservationQueue_proofs` | `TypeCorrect`, `Lossless`, `Overrun`, `Gapless`, `ImplementsOutbox` | `Inv` |
| `Detection_proofs` | of `AgentEnforcement`: `TypeCorrect`, `DryRunIsPassive`, `BlockedWasBlocked`, `RulesAreExplained`, `NoCrossingLost`, `CrossingTakesEffect`; of `OffenderWindow`: `WindowTypeCorrect`, `ScoreDeserved`, `FlagsDeserved` | `IInv`; `WindowInv` |
| `DataDirectory_proofs` | of `StoreLock`: `LockTypeCorrect`, `Exclusive`, `StaleLockYields`; of `LocalAgent`: `TypeCorrect`, `OneRunAtATime`, `ObservationsAreHeld`, `NoObservationLost` | `LockInv`, `Serial`; `Inv`, `Kept` |
| `BlocklistSync_proofs` | `OnlyTrustedLists`, `OutageTakesNothing`, `NeverOlder` | `Inv` |
| `Ingest_proofs` | `TablesFitTogether`, `RetriesCountOnce`, `RowsAreKept` | `Inv` |
| `Deployment_proofs` | `NamesAgree`, `InstallHolds`, `UninstallIsClean` | `Inv` |
| `FirewallBackend_proofs` | `BlockedIsDropped`, `FlushIsComplete`, `CallsRecover`, `NothingAstray` | `Inv` |
| `LogTailer_proofs` | `TypeCorrect`, `LinesInOrder`, `NothingGlued`, `NoLineGivenUp` | `Inv` |

They hold for every value of the constants that meets the named `ASSUME` of the component's
module; TLC evaluates those assumptions in each run.

- **Queue.** `NeverSilentlyLossy` speaks of the disk, but after a failed write memory and disk
  differ, so `Inv` adds the same statement for memory while the agent runs (`InMemory`), that
  a stored batch has been delivered (`AckedIsStored`), and that a batch, once taken from the
  head, stays a prefix of what is safely queued and neither delivered nor dropped
  (`SentIsPrefix`, `LateIsPrefix`), which is what `NoGaps` needs when it arrives. Lemmas about
  `Oldest` and `Newest` (`OldestIsPrefix`, `NewestBound`, `TrimmedOverrun`) carry the data.
  `ImplementsOutbox` maps `Enqueue` to `Record`, `Ingest` and `IngestLate` to `Deliver` and the
  rest to stutters.
- **Enforcement.** `IInv` adds that everything that can make the agent enforce was asked for
  (`AskedFor`), that memory includes the file (`Remembered`), what the record being built says
  in each phase of `handleEvent` (`Carried`), and that a window over the threshold is explained
  at every step, not only between events (`Accounted`). `CrossingTakesEffect` proves
  `CrossingIsBlocked` under the assumption `Undisturbed`: no flush, reboot, unban or failing
  `Block`.
- **Window.** `WindowInv` says of an attempt in a log that carries it that its line is still to
  come, its event is in the window, or it is older than the window (`Reported`), and of an event
  that it is of an attempt since the start and, unless a line was misdated, bears its time
  (`EventsFit`). With one log per kind, the events that outlive pruning are therefore an injection
  into `Recent`, and, of the kinds that decay, onto it once all is
  reported (`EventsOfAttempts`). `Score` and `WeightOf` are
  folds over sets: the function that the fold defines exists (`SumsExist`) and any such function
  gives the sum weight by weight (`SumsAre`, by a counterexample of least size), which turns both
  into numbers of elements per weight, where the injection compares them (`ScoreOfAttempts`).
- **Lock.** Without overlap at most one process is inside `acquireLock` (`OneOpens`), the file
  is the holder's or the writer's own (`HolderOwnsFile`), a process that has judged the lock
  stale meets no holder (`RemoverIsAlone`) and finds no file when it retries
  (`RetryFindsNone`). `StaleLockYields` needs in addition that a process that reads a lock did
  not write it (`ReaderIsNew`, without PID reuse) or that the creator of a file is still there
  (`CreatorIsThere`, without crashes).
- **Local agent.** The lock makes at most one store open (`OneStore`), and a live run's store
  is open, which gives `AtMostOneRun` for any number of Stops. `Kept` says of every drain loop, of a
  run that is over too, that what it is about to ack is delivered (`StoredIsDelivered`), and of the
  last run's memory that it holds what was accepted and not delivered (`InMemory`), so that
  any write of that run's store keeps `NothingLost`; a write of an earlier one is what `overtaken`
  records. Nothing is assumed of when a drain loop ends or of which writes succeed.
- **Blocklist.** `Trusted` rests on keys that only grow (`KeysGrow`: neither the server's nor the
  pinned key returns to an earlier one). `CacheFirst` speaks of the moments between two cycles;
  `Inv` says what each goroutine carries in each phase (`FeedsOnDisk`, `ListOnDisk`), when it is
  the only one of its kind, and which phases the start allows (`Staged`). `NewerOnly` adds that
  nothing is newer than the last publication (`SeqsGrow`). That a fetched feed is what the cache
  then holds is the lemma `FetchedIsCached`.

- **Ingest.** `Inv` follows a handler through its batch: whatever it has behind it has a row
  (`BehindHasRows`), it holds a location exactly while it inserts (`Handlers`), and the flag of a
  location it holds is one that its address had (`HeldWasListed`). Every location is then in
  one of three places: used by a row, held by a handler, or left by one of the failures that
  `errors` counts, which is `LeaksAreFailures`, shown by comparing cardinalities at each step. The
  counting in `DuplicatesAreRetries` needs that a request is only answered, or lost, while its
  agent still waits for it. `RowsAreKept` is the action property that no request rewrites a row.
- **Deployment.** Three histories. An update: after the first name is replaced the rest of `todo`
  says which names hold the new image (`Updates`), so the names differ only after a cut. A
  command: it is always an end of one of four plans (`Commands`), and each end says what was
  achieved before it (`InstallProgress`, `UninstallProgress`). Rules: until `Detect`'s choice
  changes, all are in the backend it chooses (`Chosen`), so the flush of an uninstall finds them.
- **Firewall.** For each object a call has to make: it is there, being made, or its part is still
  to come, and nothing that is to come is needed by what comes before (`IptInit`, `NftIniting`,
  `MadeInOrder`). That is enough for `ProbedBlockDrops`, with failing probes too: a probe that
  wrongly says "absent" makes the object once more. `FlushRemovesAll` needs exact probes, hence
  `~blind`: then no rule is ever there twice and no object without the one that contains it
  (`Contained`), each container is gone or its part is still to come, after those of what holds
  it (`IptFlush`, `RemovedInOrder`, `OtherFlush`), and so every command of `Init` and `Flush` is
  one that the host accepts (`NeverRefused`), which is `NeverStuck`. That the plans of the code
  are in such an order are the lemmas `InitPlan` and `FlushPlan`.
- **Log tailer.** The order of lines rests on three sets of pieces: the ends of what was handed on
  (`Over`), what is held (`pending`), and what is still to be read of the open file and of the
  next (`Rest`, `Coming`): each was written before the following one (`Continues`). A
  write adds only later pieces (`Appends`), a read moves a prefix of the third set to the second,
  `Emit` a line from the second to the first. That `Tailer.info` tells a truncated file from one
  that has grown is `InfoIsOfFile`, which needs `~slipped`. Whole lines rest on files in which the
  beginning of a line is followed by its rest (`FilesContiguous`) and on an offset that stands
  just behind what pending ends with (`OffsetAfterPending`). `NoLineGivenUp` follows from the types
  and from `NoLineWaits`: whenever a read starts anew, pending holds no complete line.

The proof of `NothingGlued` failed for a good reason: with three files and four lines `NeverGlued`
was false of the model as it stood. After a slipped open the ages that `refilled` compared can
coincide although they are of two files, so that a truncation the sizes do not show went
uncounted. `LogTailer` now keeps, as history, the age that the open file had when it was opened
or started over (`startAge`); `refilled` is a read that goes on behind `off` at another age
(`ReadsOn`, `Unnoticed`).

Other changes came from the proofs and leave the modules' behaviours as they were: a
plan of `FirewallBackend` is divided into parts (before, a probe said how many commands to skip),
and `Deployment` keeps a command's result as a record. `IncidentsHaveRows` became part of
`TablesAgree`, as the proof needed it. `OffenderWindow`'s type
invariant leaves `flagged` unbounded. `Deployment` assumes of its options only that neither is
`Absent` or `Torn`; `FirewallBackend` that its addresses are finitely many.

Left to TLC: liveness (`EventuallyDelivered`, `EnforceConverges`, `StopReturns`, `WatchReturns`,
`KeepsUp`, `ListArrives`, `Forgets`, `Heals`, `ReportArrives`), which the prover does not treat
under fairness. None of the modules declares a RECURSIVE operator.

## 6. Not modelled

- Text: regular expressions of the log parsers, ruleset dumps and feed formats, rendering,
  command-line output. A parser is modelled by the kind and time of the event it makes.
- Sessions, accounts, dashboard views and HTTP routing: single rows, or read-only.
- Enrollment's token exchange and heartbeats: one request, one row. Creating collectors, and the
  older `/v1/incidents` endpoint, which stores one incident with the same lookups.
- Local agent: the firewall report, the log ring, the owner and enabled checks.
- `agent uninstall --purge`; the server's launchd `Uninstall`, which no command calls; two
  updates at a time; a power loss that undoes what was written (the code never calls fsync).
- State files that do not parse, `Unblock` and `Status` of the backends. The read and the write
  of one `agent enforce` are one step, and so is one fetch of a feed; the publisher and the Tor
  list's refresh share a temporary file name, which is not modelled.

## 7. Plan

What is left, in order:

1. `LocalAgent`, second stage: `reportFirewallStatus` with a stale run.
2. The read and the write of `agent enforce` as two steps of `AgentEnforcement`, against the
   write of a stop.
3. What an attempt that two sources report counts for, on a host with more than one log per kind.
