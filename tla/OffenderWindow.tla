--------------------------- MODULE OffenderWindow ---------------------------
(***************************************************************************)
(* From an attempt on the host to the score of its address: the host's     *)
(* logging programs write an attempt to the logs they feed, the watched    *)
(* sources turn the lines into events, and handleEvent keeps a window of    *)
(* events per address and flags the address when the window's score reaches *)
(* the threshold.  Windows of different addresses do not touch each other,  *)
(* so there is one address.                                                 *)
(*                                                                         *)
(* Attempts are numbered.  An event is identified by its attempt, the       *)
(* source that reported it, and whether it is the event itself or the feed  *)
(* match recorded with it.                                                  *)
(***************************************************************************)
EXTENDS Integers, Sequences, FiniteSetsExt

CONSTANTS
    Hosts,        \* the sets of sources a host can have
    Window,       \* ScoreWeights.Window, in ticks
    NewYear,      \* the tick at which the calendar year changes
    MaxTime,      \* bound: ticks
    MaxAttempts,  \* bound: attempts
    MaxChanges    \* bound: restarts of the agent and changes of its feeds

Sources == {"fail2ban", "journal", "auth.log", "nginx", "unified log"}

ASSUME WindowAssumption ==
    /\ Hosts \subseteq SUBSET Sources
    /\ Window \in Nat \ {0}
    /\ NewYear \in Nat
    /\ MaxTime \in Nat
    /\ MaxAttempts \in Nat
    /\ MaxChanges \in Nat

VARIABLES
    now,        \* the clock
    host,       \* the sources whose programs and files the host has
    attempts,   \* history: per attempt, its kind and its time
    watched,    \* sources whose Watch is running
    lines,      \* <<attempt, source>>: lines not yet emitted as events
    win,        \* Window.Events
    listed,     \* feedMatch finds the address
    blocked,    \* Offender.Blocked
    flagged,    \* totalFlagged
    matched,    \* history: there was a feed match since the start
    since,      \* history: attempts before the agent's last start
    broken,     \* history: a source ended since then
    misdated,   \* history: an event's time was not the attempt's
    changes     \* bound

windowHistory == <<attempts, matched, since, broken, misdated>>
windowVars == <<now, host, watched, lines, win, listed, blocked, flagged, changes, windowHistory>>

Kinds == {"ssh_failed_login", "http_suspicious", "fail2ban_ban"}
Year == 1000   \* in ticks: longer than any behaviour

\* What the parsers make of the line of an attempt at a time, when they read it
\* at another: the kind of event and its time.  auth.log's lines carry no year,
\* and its parser takes the current one.
parseFail2banLine(at) == [kind |-> "fail2ban_ban", time |-> at]
parseJournalLine(at) == [kind |-> "ssh_failed_login", time |-> at]
parseAuthLogLine(at, read) ==
    [kind |-> "ssh_failed_login", time |-> IF at < NewYear /\ read >= NewYear THEN at + Year ELSE at]
parseNginxAccessLine(at) == [kind |-> "http_suspicious", time |-> at]
parseUnifiedLogLine(at) == [kind |-> "ssh_failed_login", time |-> at]

Parsed(source, at, read) ==
    CASE source = "fail2ban" -> parseFail2banLine(at)
      [] source = "journal" -> parseJournalLine(at)
      [] source = "auth.log" -> parseAuthLogLine(at, read)
      [] source = "nginx" -> parseNginxAccessLine(at)
      [] source = "unified log" -> parseUnifiedLogLine(at)

\* The log sources that carry a kind of event.
SourcesOf(kind) == {s \in Sources : Parsed(s, now, now).kind = kind}

\* DefaultWeights.
SSHFailedLogin == 15
HTTPSuspicious == 10
Fail2banBan == 100
FeedMatch == 100
DefaultThreshold == 50

weightFor(kind) ==
    CASE kind = "ssh_failed_login" -> SSHFailedLogin
      [] kind = "http_suspicious" -> HTTPSuspicious
      [] kind = "fail2ban_ban" -> Fail2banBan

ScoredEvents ==
    [attempt : 1..MaxAttempts, source : Sources, feed : BOOLEAN, time : 0..(MaxTime + Year)]
KindOf(a) == attempts[a].kind
Weight(e) == IF e.feed THEN FeedMatch ELSE weightFor(KindOf(e.attempt))

WindowTypeOK ==
    /\ now \in 0..MaxTime
    /\ host \in SUBSET Sources
    /\ attempts \in Seq([kind : Kinds, at : 0..MaxTime]) /\ Len(attempts) <= MaxAttempts
    /\ watched \subseteq host
    /\ lines \subseteq (1..Len(attempts)) \X watched
    /\ win \subseteq ScoredEvents
    /\ listed \in BOOLEAN /\ blocked \in BOOLEAN
    /\ flagged \in Nat
    /\ matched \in BOOLEAN /\ broken \in BOOLEAN /\ misdated \in BOOLEAN
    /\ since \in 0..Len(attempts)
    /\ changes \in 0..MaxChanges

\* Detect: every source whose Probe finds its program or file.
WindowInit ==
    /\ now = 0
    /\ host \in Hosts
    /\ attempts = <<>>
    /\ watched = host
    /\ lines = {}
    /\ win = {}
    /\ listed \in BOOLEAN
    /\ blocked = FALSE /\ flagged = 0
    /\ matched = FALSE /\ since = 0 /\ broken = FALSE /\ misdated = FALSE
    /\ changes = 0

-----------------------------------------------------------------------------
(* The window.                                                             *)

\* Plausible bugs: a window is only emptied once all of it is old; an event
\* exactly as old as the window is kept.
PruneAllOrNone(events) == IF \E e \in events : e.time > now - Window THEN events ELSE {}
PruneLate(events) == {e \in events : e.time >= now - Window}

\* Window.prune, at the current time.
Prune(events) == {e \in events : e.time > now - Window}
Score(events) == MapThenSumSet(Weight, Prune(events))
BlockEligible(events) == Score(events) >= DefaultThreshold

\* The time the source gives the event.
TimeOf(line) == Parsed(line[2], attempts[line[1]].at, now).time

\* What handleEvent adds: the event, and ForceFeedMatch's, dated now.
Added(line, time) ==
    {[attempt |-> line[1], source |-> line[2], feed |-> f, time |-> IF f THEN now ELSE time] :
        f \in {FALSE} \cup {listed}}

\* A source's next line becomes an event and handleEvent scores it: block is
\* called when the address crosses the threshold and was not blocked before,
\* and succeeds or does not (dry run included).
HandleEvent(s) ==
    \E line \in lines :
        LET grown == Prune(win \cup Added(line, TimeOf(line)))
            crossed == BlockEligible(grown) /\ ~BlockEligible(win) /\ ~blocked
        IN  /\ line[2] = s
            /\ \A other \in lines : other[2] = s => line[1] <= other[1]
            /\ lines' = lines \ {line}
            /\ win' = grown
            /\ flagged' = IF crossed THEN flagged + 1 ELSE flagged
            /\ blocked' \in IF crossed THEN BOOLEAN ELSE {blocked}
            /\ matched' = (matched \/ listed)
            /\ misdated' = (misdated \/ TimeOf(line) # attempts[line[1]].at)
            /\ UNCHANGED <<now, host, attempts, watched, listed, since, broken, changes>>

-----------------------------------------------------------------------------
(* Everything else.                                                        *)

\* Someone tries: every log that carries this kind gets a line.
Attempt(kind) ==
    /\ Len(attempts) < MaxAttempts
    /\ host \cap SourcesOf(kind) # {}
    /\ attempts' = Append(attempts, [kind |-> kind, at |-> now])
    /\ lines' = lines \cup ({Len(attempts) + 1} \X (watched \cap SourcesOf(kind)))
    /\ UNCHANGED <<now, host, watched, win, listed, blocked, flagged, matched, since, broken, misdated, changes>>

Tick ==
    /\ now < MaxTime
    /\ now' = now + 1
    /\ UNCHANGED <<host, watched, lines, win, listed, blocked, flagged, changes, windowHistory>>

FeedChanges ==
    /\ changes < MaxChanges
    /\ changes' = changes + 1
    /\ listed' = ~listed
    /\ UNCHANGED <<now, host, watched, lines, win, blocked, flagged, windowHistory>>

\* journalctl or log(1) ends, or prints a line longer than the scanner's
\* buffer: Watch returns, Run logs it, and nobody starts it again.
WatchEnds(s) ==
    /\ s \in watched \cap {"journal", "unified log"}
    /\ watched' = watched \ {s}
    /\ lines' = {line \in lines : line[2] # s}
    /\ broken' = TRUE
    /\ UNCHANGED <<now, host, win, listed, blocked, flagged, attempts, matched, since, misdated, changes>>

\* The agent starts again, with empty windows; its sources only report what is
\* logged from then on.
Restart ==
    /\ changes < MaxChanges
    /\ changes' = changes + 1
    /\ watched' = host
    /\ lines' = {}
    /\ win' = {}
    /\ since' = Len(attempts)
    /\ matched' = FALSE /\ broken' = FALSE /\ misdated' = FALSE
    /\ UNCHANGED <<now, host, attempts, listed, blocked, flagged>>

WindowNext ==
    \/ \E s \in Sources : HandleEvent(s) \/ WatchEnds(s)
    \/ \E kind \in Kinds : Attempt(kind)
    \/ Tick \/ FeedChanges \/ Restart

WindowSpec == WindowInit /\ [][WindowNext]_windowVars

-----------------------------------------------------------------------------
(* Properties.                                                             *)

\* The attempts of the last Window ticks, since the agent's start.
Recent == {a \in (since + 1)..Len(attempts) : attempts[a].at > now - Window}
WeightOf(done) == MapThenSumSet(LAMBDA a : weightFor(KindOf(a)), done)
Deserved == WeightOf(Recent)

\* The rules whose weight decays, by the table above ScoreWeights; a ban of
\* fail2ban and a feed match are "instant, trusted" instead.
Decays(kind) == kind \in {"ssh_failed_login", "http_suspicious"}
DecayingEvents == {e \in win : ~e.feed /\ Decays(KindOf(e.attempt))}
RecentDecaying == {a \in Recent : Decays(KindOf(a))}

OneSourceEach == \A kind \in Kinds : Cardinality(host \cap SourcesOf(kind)) <= 1

\* Whatever the order and delay in which the sources report, and whatever was
\* pruned when: once they have reported everything, the part of an address's
\* score that decays is exactly the weight of its ssh and nginx attempts within
\* the window.  This needs one log per kind, no source that has ended, and no
\* auth.log line from before New Year's read after it.  (Checked together with
\* WindowTypeOK.)
ScoreIsDeserved ==
    /\ WindowTypeOK
    /\ OneSourceEach /\ lines = {} /\ ~broken /\ ~misdated =>
           Score(DecayingEvents) = WeightOf(RecentDecaying)

\* No address is flagged that did not do enough within the window, unless it
\* was on a feed or an attempt has been counted twice or misdated.
FlagsAreDeserved ==
    [][ flagged' > flagged /\ OneSourceEach /\ ~misdated' =>
            matched' \/ Deserved >= DefaultThreshold ]_windowVars

\* What is trusted outright does not decay ("fail2ban already banned this IP
\* +100 no", "IP falls inside a threat feed range +100 no", offender.go:22-23).
TrustedStays ==
    \A e \in win : e.feed \/ ~Decays(KindOf(e.attempt)) => e \in Prune(win)

\* An attempt older than the window does not count, whatever its line was taken
\* for ("the scorer only cares about recency", authlog.go:80-83).
OldIsForgotten == \A e \in Prune(win) : ~e.feed => e.attempt \in Recent

\* Each attempt counts once ("ssh failed login +15", offender.go:20; auth.log
\* is "the non-systemd fallback", authlog.go:19-21).
CountedOnce == \A d, e \in win : d.attempt = e.attempt /\ d.feed = e.feed => d = e
=============================================================================
