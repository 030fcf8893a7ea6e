------------------------------ MODULE StoreLock ------------------------------
(***************************************************************************)
(* agent.lock, which is to keep a data directory to one agent: the steps   *)
(* of acquireLock and releaseLock, taken by processes that start, crash    *)
(* and close at any time.  A process is its PID.  A lock file is known by  *)
(* who created it, and is empty until writePID has run: the two are        *)
(* separate system calls, as are the look at a lock and its removal.       *)
(***************************************************************************)
EXTENDS Naturals

CONSTANTS
    Procs,        \* process IDs
    Nobody        \* creator of no file

ASSUME LockAssumption == Nobody \notin Procs

\* What a behaviour may contain: a process opens the store while another is
\* opening it; processes die; the PID of a process that ended is used again.
Hazards == {"overlap", "crash", "reuse"}

VARIABLES
    happens,      \* which of them this behaviour contains; never changes
    pc,           \* where each process stands in store.Open
    file,         \* the file at agent.lock: who created it, PID written or not
    used          \* PIDs given out so far

lockVars == <<happens, pc, file, used>>

NoFile == [creator |-> Nobody, written |-> FALSE]
Opening == {"writing", "reading", "removing", "retrying"}

LockTypeOK ==
    /\ happens \subseteq Hazards
    /\ pc \in [Procs -> Opening \cup {"down", "holding", "refused"}]
    /\ file \in [creator : Procs, written : BOOLEAN] \cup {NoFile}
    /\ used \subseteq Procs
    /\ \A p \in Procs \ used : pc[p] = "down"

-----------------------------------------------------------------------------
\* processAlive: a process that was refused the lock has exited.
Alive(p) == pc[p] \notin {"down", "refused"}

Exists == file # NoFile

LockInit ==
    /\ happens \in SUBSET Hazards
    /\ pc = [p \in Procs |-> "down"]
    /\ file = NoFile
    /\ used = {}

Goto(p, step) ==
    /\ pc' = [pc EXCEPT ![p] = step]
    /\ UNCHANGED happens

Starts(p) ==
    /\ ~Alive(p)
    /\ p \in used => "reuse" \in happens
    /\ "overlap" \in happens \/ \A q \in Procs : pc[q] \notin Opening
    /\ used' = used \cup {p}

\* O_CREATE|O_EXCL creates the file ...
Create(p) ==
    /\ Starts(p)
    /\ ~Exists
    /\ file' = [creator |-> p, written |-> FALSE]
    /\ Goto(p, "writing")

\* ... or finds one.
Contend(p) ==
    /\ Starts(p)
    /\ Exists
    /\ Goto(p, "reading")
    /\ UNCHANGED file

\* writePID writes through the descriptor: in vain if the file was removed.
WritePID(p) ==
    /\ pc[p] = "writing"
    /\ file' = IF file.creator = p THEN [file EXCEPT !.written = TRUE] ELSE file
    /\ Goto(p, "holding")
    /\ UNCHANGED used

HeldByLive == file.written /\ Alive(file.creator)

\* Plausible bug: the PID in the lock is not probed.
RefuseUnprobed(p) ==
    /\ pc[p] = "reading"
    /\ file.written
    /\ Goto(p, "refused")
    /\ UNCHANGED <<file, used>>

\* The lock names a live process: "another breachharbor agent ... already
\* holds the lock".
Refuse(p) ==
    /\ pc[p] = "reading"
    /\ HeldByLive
    /\ Goto(p, "refused")
    /\ UNCHANGED <<file, used>>

\* Plausible bug: any lock that is found is taken for a stale one.
FindAnyStale(p) ==
    /\ pc[p] = "reading"
    /\ Goto(p, "removing")
    /\ UNCHANGED <<file, used>>

\* No file any more, no PID in it, or that of a dead process: stale.
FindStale(p) ==
    /\ pc[p] = "reading"
    /\ ~HeldByLive
    /\ Goto(p, "removing")
    /\ UNCHANGED <<file, used>>

\* os.Remove takes away the file that is there now.
RemoveStale(p) ==
    /\ pc[p] = "removing"
    /\ file' = NoFile
    /\ Goto(p, "retrying")
    /\ UNCHANGED used

\* The one retry.
Recreate(p) ==
    /\ pc[p] = "retrying"
    /\ ~Exists
    /\ file' = [creator |-> p, written |-> FALSE]
    /\ Goto(p, "writing")
    /\ UNCHANGED used

StillContended(p) ==
    /\ pc[p] = "retrying"
    /\ Exists
    /\ Goto(p, "refused")
    /\ UNCHANGED <<file, used>>

\* Close, or an Open whose state files do not load, removes what is at the
\* path; the process ends.
Close(p) ==
    /\ pc[p] = "holding"
    /\ file' = NoFile
    /\ Goto(p, "down")
    /\ UNCHANGED used

\* The process dies, or its start ends on an I/O error.
Crash(p) ==
    /\ "crash" \in happens
    /\ Alive(p)
    /\ Goto(p, "down")
    /\ UNCHANGED <<file, used>>

LockNext ==
    \E p \in Procs :
        \/ Create(p)
        \/ Contend(p)
        \/ WritePID(p)
        \/ Refuse(p)
        \/ FindStale(p)
        \/ RemoveStale(p)
        \/ Recreate(p)
        \/ StillContended(p)
        \/ Close(p)
        \/ Crash(p)

LockSpec == LockInit /\ [][LockNext]_lockVars

-----------------------------------------------------------------------------
\* "A second agent started against the same --data-dir fails fast": no two
\* agents have the store open.
MutualExclusion ==
    \A p, q \in Procs : pc[p] = "holding" /\ pc[q] = "holding" => p = q

\* They do not as long as starts do not overlap, whoever dies at whichever
\* step and whoever gets the PID next.
SerialExclusion == "overlap" \notin happens => MutualExclusion

\* A start is refused only when another agent has the lock or is just taking
\* it: a lock left behind by a dead agent never keeps the next one out.  Deaths
\* need starts that do not overlap and PIDs that are not used again.
RefusedOnlyByHolder ==
    [][("crash" \in happens => happens = {"crash"}) =>
          \A p \in Procs :
              pc[p] # "refused" /\ pc'[p] = "refused" =>
                  \E q \in Procs \ {p} : pc[q] \in {"writing", "holding"}]_lockVars
=============================================================================
