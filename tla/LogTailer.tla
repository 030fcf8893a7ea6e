------------------------------ MODULE LogTailer ------------------------------
(***************************************************************************)
(* Tailer: follows one log file by polling its path, across rotation (a    *)
(* new file at the path) and truncation (the same file, shorter), and hands *)
(* every new line to a callback that sends an event on the agent's channel. *)
(*                                                                         *)
(* The program that writes the log numbers its lines.  A line is two pieces *)
(* of bytes, since a poll can fall between them: <<l, 1>> is its beginning, *)
(* <<l, 2>> the rest with the newline.  A file is the sequence of pieces    *)
(* appended to it; files are numbered in the order they are created.        *)
(***************************************************************************)
EXTENDS Naturals, Sequences, FiniteSets

CONSTANTS
    MaxLines,   \* bound: lines written
    MaxFiles,   \* bound: files that are ever at the path
    MaxCuts,    \* bound: truncations in place
    Capacity    \* capacity of the events channel

ASSUME TailAssumption ==
    /\ MaxLines \in Nat \ {0}
    /\ MaxFiles \in Nat \ {0}
    /\ MaxCuts \in Nat
    /\ Capacity \in Nat \ {0}

VARIABLES
    path,        \* the file at Path, or None
    files,       \* per file: its pieces
    age,         \* per file: how often it was truncated
    created,     \* files created so far
    writer,      \* the file the log's writer has open
    written,     \* lines begun so far
    half,        \* the last line's newline is still to come
    pc,          \* where Watch stands
    stat,        \* result of os.Stat in this tick
    f,           \* Tailer.f: the open file, or None
    off,         \* its read offset
    info,        \* Tailer.info
    pending,     \* Tailer.pending
    opened,      \* Tailer.opened
    lines,       \* history: what onLine was called with, in order
    queued,      \* events in the channel
    cancelled,   \* ctx
    startAge,    \* history: age of the open file when opened or started over
    slipped,     \* history: the file read is not as os.Stat has seen it
    carried,     \* history: a file was opened while pending was not empty
    refilled,    \* history: a truncation that the sizes do not show
    skipped      \* history: lines that were in the file at its first open

env == <<path, files, age, created, writer, written, half>>
history == <<startAge, slipped, carried, refilled, skipped>>
vars == <<env, pc, stat, f, off, info, pending, opened, lines, queued, cancelled, history>>

None == 0
Files == 1..MaxFiles
Pieces == (1..MaxLines) \X {1, 2}
FileInfo == [file : 0..MaxFiles, size : Nat, age : Nat]
NoInfo == [file |-> None, size |-> 0, age |-> 0]

TypeOK ==
    /\ path \in {None} \cup 1..created
    /\ files \in [Files -> Seq(Pieces)]
    /\ age \in [Files -> 0..MaxCuts]
    /\ created \in 1..MaxFiles
    /\ writer \in 1..created
    /\ written \in 0..MaxLines
    /\ half \in BOOLEAN
    /\ pc \in {"idle", "stated", "drain", "reopen", "emit", "done"}
    /\ stat \in FileInfo
    /\ f \in {None} \cup 1..created
    /\ off \in Nat
    /\ info \in FileInfo
    /\ pending \in Seq(Pieces)
    /\ opened \in BOOLEAN
    /\ lines \in Seq(Seq(Pieces))
    /\ queued \in 0..Capacity
    /\ cancelled \in BOOLEAN
    /\ startAge \in 0..MaxCuts
    /\ slipped \in BOOLEAN /\ carried \in BOOLEAN /\ refilled \in BOOLEAN
    /\ skipped \subseteq 1..MaxLines

-----------------------------------------------------------------------------
\* What a file has after an offset, and the lines that end in a text.
From(s, n) == SubSeq(s, n + 1, Len(s))
Ended(s) == {s[k][1] : k \in {i \in DOMAIN s : s[i][2] = 2}}

\* The log already has a line when the agent starts.
Init ==
    /\ path \in {None, 1}
    /\ files = [i \in Files |-> IF i = 1 THEN <<<<1, 1>>, <<1, 2>>>> ELSE <<>>]
    /\ age = [i \in Files |-> 0]
    /\ created = 1
    /\ writer = 1
    /\ written = 1
    /\ half = FALSE
    /\ pc = "idle"
    /\ stat = NoInfo
    /\ f = None
    /\ off = 0
    /\ info = NoInfo
    /\ pending = <<>>
    /\ opened = FALSE
    /\ lines = <<>>
    /\ queued = 0
    /\ cancelled = FALSE
    /\ startAge = 0
    /\ slipped = FALSE /\ carried = FALSE /\ refilled = FALSE
    /\ skipped = {}

-----------------------------------------------------------------------------
(* The tailer.                                                             *)

\* A tick begins with os.Stat: the path may have no file ...
StatFails ==
    /\ pc = "idle"
    /\ path = None
    /\ f' = None
    /\ UNCHANGED <<env, pc, stat, off, info, pending, opened, lines, queued, cancelled, history>>

\* ... or one, which may be another when it is opened.
StatFinds ==
    /\ pc = "idle"
    /\ path # None
    /\ stat' = [file |-> path, size |-> Len(files[path]), age |-> age[path]]
    /\ pc' = IF f # None /\ info.file # path THEN "drain" ELSE "stated"
    /\ UNCHANGED <<env, f, off, info, pending, opened, lines, queued, cancelled, history>>

\* os.Open after that: the file may be gone, or not readable.
OpenFails ==
    /\ \/ pc = "stated" /\ f = None
       \/ pc = "reopen"
    /\ f' = None
    /\ pc' = "idle"
    /\ UNCHANGED <<env, stat, off, info, pending, opened, lines, queued, cancelled, history>>

\* What os.Stat saw is not what is opened now.
Changed == path # stat.file \/ age[path] # stat.age

\* readAvailable, up to the lines it finds: everything after the offset.
Read(file, offset, before) ==
    /\ pending' = before \o From(files[file], offset)
    /\ off' = IF Len(files[file]) > offset THEN Len(files[file]) ELSE offset

\* The file is opened, at its end the first time, at its start later.
Open ==
    LET start == IF opened THEN 0 ELSE Len(files[path])
    IN  /\ pc = "stated"
        /\ f = None
        /\ path # None
        /\ f' = path
        /\ opened' = TRUE
        /\ info' = stat
        /\ Read(path, start, pending)
        /\ pc' = "emit"
        /\ startAge' = age[path]
        /\ slipped' = (slipped \/ Changed)
        /\ carried' = (carried \/ pending # <<>>)
        /\ skipped' = IF opened THEN skipped ELSE Ended(files[path])
        /\ UNCHANGED <<env, stat, lines, queued, cancelled, refilled>>

\* An offset from before a truncation, and the file is longer again.
ReadsOn == age[f] # startAge /\ Len(files[f]) > off

\* Rotated: the rest of the old file is read before it is closed ...
Drain ==
    /\ pc = "drain"
    /\ Read(f, off, pending)
    /\ pc' = "emit"
    /\ refilled' = (refilled \/ ReadsOn)
    /\ UNCHANGED <<env, stat, f, info, opened, lines, queued, cancelled, startAge, slipped,
                   carried, skipped>>

\* Plausible bug: the beginning of a line is kept for the next file.
ReopenKeeping ==
    /\ pc = "reopen"
    /\ path # None
    /\ f' = path
    /\ info' = stat
    /\ Read(path, 0, pending)
    /\ pc' = "emit"
    /\ startAge' = age[path]
    /\ slipped' = (slipped \/ Changed)
    /\ UNCHANGED <<env, stat, opened, lines, queued, cancelled, carried, refilled, skipped>>

\* Plausible bug: the new file is opened at its end as well.
ReopenAtEnd ==
    /\ pc = "reopen"
    /\ path # None
    /\ f' = path
    /\ info' = stat
    /\ Read(path, Len(files[path]), <<>>)
    /\ pc' = "emit"
    /\ startAge' = age[path]
    /\ slipped' = (slipped \/ Changed)
    /\ UNCHANGED <<env, stat, opened, lines, queued, cancelled, carried, refilled, skipped>>

\* ... and the new one from its start, without the old one's last piece.
Reopen ==
    /\ pc = "reopen"
    /\ path # None
    /\ f' = path
    /\ info' = stat
    /\ Read(path, 0, <<>>)
    /\ pc' = "emit"
    /\ startAge' = age[path]
    /\ slipped' = (slipped \/ Changed)
    /\ UNCHANGED <<env, stat, opened, lines, queued, cancelled, carried, refilled, skipped>>

\* The same file: from its start if it is shorter than at the last poll, else
\* from where the last read ended.
\* (Plausible bug: a file of the same size counts as truncated.)
TruncatedOrSame == stat.size <= info.size
Truncated == stat.size < info.size
Unnoticed == stat.age # startAge \/ ReadsOn
Follow ==
    /\ pc = "stated"
    /\ f # None
    /\ info' = stat
    /\ IF Truncated THEN Read(f, 0, <<>>) ELSE Read(f, off, pending)
    /\ pc' = "emit"
    /\ startAge' = IF Truncated THEN age[f] ELSE startAge
    /\ slipped' = (slipped \/ age[f] # stat.age)
    /\ refilled' = (refilled \/ (~Truncated /\ Unnoticed))
    /\ UNCHANGED <<env, stat, f, opened, lines, queued, cancelled, carried, skipped>>

\* Plausible bug: the event is sent without looking at ctx.Done.
SendBlocking == queued < Capacity /\ queued' = queued + 1

\* The sources' callback: a line that parses is sent, waiting for room in the
\* channel, or dropped once ctx is done; another line is not an event.
Send ==
    \/ queued < Capacity /\ queued' = queued + 1
    \/ cancelled /\ queued' = queued
NotAnEvent(line) == line[1][2] = 2   \* the beginning of the line is missing

\* readAvailable's second loop: the next complete line of pending.
Emit ==
    LET end == CHOOSE i \in DOMAIN pending :
                   /\ pending[i][2] = 2
                   /\ \A j \in 1..(i - 1) : pending[j][2] # 2
        line == SubSeq(pending, 1, end)
    IN  /\ pc = "emit"
        /\ Ended(pending) # {}
        /\ lines' = Append(lines, line)
        /\ pending' = From(pending, end)
        /\ IF NotAnEvent(line) THEN queued' = queued ELSE Send
        /\ UNCHANGED <<env, pc, stat, f, off, info, opened, cancelled, history>>

\* No further line: the tick is over, unless it has just drained an old file.
EmitDone ==
    /\ pc = "emit"
    /\ Ended(pending) = {}
    /\ pc' = IF f # None /\ info.file # stat.file THEN "reopen" ELSE "idle"
    /\ UNCHANGED <<env, stat, f, off, info, pending, opened, lines, queued, cancelled, history>>

\* Watch returns from its select and closes the file.
Return ==
    /\ pc = "idle"
    /\ cancelled
    /\ pc' = "done"
    /\ f' = None
    /\ UNCHANGED <<env, stat, off, info, pending, opened, lines, queued, cancelled, history>>

\* Run's loop takes events until ctx is done, then it only waits for its
\* sources.
Consume ==
    /\ ~cancelled
    /\ queued > 0
    /\ queued' = queued - 1
    /\ UNCHANGED <<env, pc, stat, f, off, info, pending, opened, lines, cancelled, history>>

Cancel ==
    /\ ~cancelled
    /\ cancelled' = TRUE
    /\ UNCHANGED <<env, pc, stat, f, off, info, pending, opened, lines, queued, history>>

-----------------------------------------------------------------------------
(* The log's writer, and whoever rotates the log.                          *)

tailer == <<pc, stat, f, off, info, pending, opened, lines, queued, cancelled, history>>

Append1(pieces) == files' = [files EXCEPT ![writer] = @ \o pieces]

WriteLine ==
    /\ ~half
    /\ written < MaxLines
    /\ written' = written + 1
    /\ Append1(<<<<written + 1, 1>>, <<written + 1, 2>>>>)
    /\ UNCHANGED <<path, age, created, writer, half, tailer>>

WriteHalf ==
    /\ ~half
    /\ written < MaxLines
    /\ written' = written + 1
    /\ half' = TRUE
    /\ Append1(<<<<written + 1, 1>>>>)
    /\ UNCHANGED <<path, age, created, writer, tailer>>

WriteRest ==
    /\ half
    /\ half' = FALSE
    /\ Append1(<<<<written, 2>>>>)
    /\ UNCHANGED <<path, age, created, writer, written, tailer>>

\* The file is renamed or removed; the writer still has it open.
MoveAway ==
    /\ path # None
    /\ path' = None
    /\ UNCHANGED <<files, age, created, writer, written, half, tailer>>

\* A fresh file is created at the path.
Create ==
    /\ path = None
    /\ created < MaxFiles
    /\ created' = created + 1
    /\ path' = created + 1
    /\ UNCHANGED <<files, age, writer, written, half, tailer>>

\* The writer is told to open the path again.
WriterReopens ==
    /\ ~half
    /\ path \notin {None, writer}
    /\ writer' = path
    /\ UNCHANGED <<path, files, age, created, written, half, tailer>>

\* copytruncate: the content is gone, the writer appends from the start.
Truncate ==
    /\ path # None
    /\ age[path] < MaxCuts
    /\ files[path] # <<>>
    /\ files' = [files EXCEPT ![path] = <<>>]
    /\ age' = [age EXCEPT ![path] = @ + 1]
    /\ UNCHANGED <<path, created, writer, written, half, tailer>>

-----------------------------------------------------------------------------
Tick == StatFails \/ StatFinds \/ OpenFails \/ Open \/ Drain \/ Reopen \/ Follow \/ Emit \/ EmitDone
Rotate == MoveAway \/ Create \/ WriterReopens \/ Truncate
Write == WriteLine \/ WriteHalf \/ WriteRest
Next ==
    \/ Tick \/ Return \/ Consume \/ Cancel
    \/ pc # "done" /\ (Write \/ Rotate)

Spec == Init /\ [][Next]_vars

\* The ticker fires for ever, a file is not unreadable for ever, the loop
\* takes events, select chooses ctx.Done at random, and a writer that was told
\* to reopen does; nothing else of the environment is fair.
Fairness ==
    /\ WF_vars(StatFails) /\ WF_vars(StatFinds) /\ WF_vars(Follow) /\ WF_vars(Drain)
    /\ WF_vars(Emit) /\ WF_vars(EmitDone)
    /\ SF_vars(Open) /\ SF_vars(Reopen)
    /\ WF_vars(OpenFails /\ path = None)
    /\ SF_vars(Return) /\ SF_vars(Consume)

FairSpec == Spec /\ Fairness

-----------------------------------------------------------------------------
(* Properties.                                                             *)

\* The line a delivered text belongs to.
LineOf(text) == text[Len(text)][1]

\* Lines are handed on in the order they were written, none twice, and none
\* that was in the file when the agent first opened it ("no history replay",
\* tail.go:75), whatever rotations, truncations and failing opens come between;
\* except if the path's file is replaced or truncated between os.Stat and
\* the read that follows, which leaves Tailer.info wrong and the file to be read
\* twice.  (Checked together with TypeOK.)
InOrderOnce ==
    /\ TypeOK
    /\ ~slipped =>
        /\ \A i, j \in DOMAIN lines : i < j => LineOf(lines[i]) < LineOf(lines[j])
        /\ \A i \in DOMAIN lines : LineOf(lines[i]) \notin skipped

\* A text handed on is never glued together from two lines (whose address
\* would then be the first line's user with the second's, or half of each),
\* unless the file vanished in the middle of a line, since tick keeps pending
\* when it closes the file, or was truncated and refilled between two polls,
\* which the size comparison cannot see.
NeverGlued ==
    ~carried /\ ~refilled =>
        \A i \in DOMAIN lines : \A k \in DOMAIN lines[i] : lines[i][k][1] = LineOf(lines[i])

\* Lines that were handed on or that the tailer will still come to.
Reachable ==
    {LineOf(lines[i]) : i \in DOMAIN lines}
        \cup (IF f = None THEN Ended(pending) ELSE Ended(pending \o From(files[f], off)))
        \cup (IF path # None /\ path # f /\ opened THEN Ended(files[path]) ELSE {})

\* While there is a file at the path, no step of the tailer gives up a line it
\* could have read: a rotated file is read to its end before it is closed, a
\* new one from its start.  The only lines it leaves are those that the writer
\* adds to the old file after that.
NoStepLoses ==
    [][ Tick /\ path # None =>
        Reachable \ Reachable' \subseteq (IF pc = "reopen" THEN Ended(From(files[f], off)) ELSE {}) ]_vars

\* New lines of the file at the path that were not handed on yet.
Unread ==
    IF path = None \/ ~opened THEN {}
    ELSE Ended(files[path]) \ (skipped \cup {LineOf(lines[i]) : i \in DOMAIN lines})

\* The tailer catches up with the file at the path, unless that is taken away
\* or the agent is stopped first.
KeepsUp == (Unread # {}) ~> (Unread = {} \/ path = None \/ cancelled \/ refilled)

\* Watch returns once ctx is done, although nobody takes events any more and
\* the channel may be full: otherwise Run would wait for its sources for ever.
WatchReturns == cancelled ~> (pc = "done")
=============================================================================
