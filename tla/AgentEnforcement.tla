-------------------------- MODULE AgentEnforcement --------------------------
(***************************************************************************)
(* Who gets blocked, and when: Agent.Run's start, its select loop          *)
(* (handleEvent and reconcileState), the firewall, the persisted           *)
(* offenders, agent-state.json, and what acts on them from outside: the    *)
(* operator's `agent enforce` and `agent flush`, fail2ban, restarts and    *)
(* reboots.                                                                *)
(*                                                                         *)
(* A window's score saturates at the threshold, above which all scores     *)
(* are alike.  The firewall is what its Backend interface promises: Block  *)
(* works once Init has made the table (armed), Flush removes both.         *)
(***************************************************************************)
EXTENDS Naturals

CONSTANTS
    IPs,          \* addresses observed
    Threshold,    \* ScoreWeights.Threshold
    Weights,      \* what one observation can add: 0 for one that is too old
    Events,       \* which outside events happen: see Possible
    NoOne         \* no offender is being handled

Possible == {"init", "block", "save", "exit", "flush", "reboot", "unban", "client"}

ASSUME EnforcementAssumption ==
    /\ Threshold \in Nat \ {0}
    /\ Weights \subseteq Nat
    /\ Events \subseteq Possible
    /\ NoOne \notin IPs

VARIABLES
    pc,           \* where Agent.Run stands
    enforce,      \* Config.Enforce
    loaded,       \* State.Enforcing as Run read it at start
    stateFile,    \* State.Enforcing in agent-state.json
    window,       \* score of each address's sliding window
    offenders,    \* FileStore.offenders: the addresses recorded as Blocked
    disk,         \* offenders.json: the same
    cur,          \* the offender handleEvent is working on
    armed,        \* the backend's table exists
    rules,        \* addresses the backend drops
    banned,       \* addresses fail2ban bans
    requested,    \* history: enforcement was asked for at least once
    wish,         \* history: the operator's last word on enforcement
    undone,       \* history: address's rule or ban was taken away again
    unsaved,      \* history: address was blocked but its record not written
    missed        \* history: last crossing fell in dry run or Block failed

firewall == <<armed, rules, banned>>
history == <<requested, wish, undone, unsaved, missed>>
vars == <<pc, enforce, loaded, stateFile, window, offenders, disk, cur,
          armed, rules, banned, requested, wish, undone, unsaved, missed>>

\* The blocked record that handleEvent has built and not yet stored, if any.
InHand == IF cur.blocked THEN {cur.ip} ELSE {}

Nobody == [ip |-> NoOne, crossed |-> FALSE, blocked |-> FALSE]

TypeOK ==
    /\ pc \in {"down", "starting", "saving", "loop", "block", "put"}
    /\ enforce \in BOOLEAN
    /\ loaded \in BOOLEAN
    /\ stateFile \in BOOLEAN
    /\ window \in [IPs -> 0..Threshold]
    /\ offenders \subseteq IPs
    /\ disk \subseteq IPs
    /\ cur \in [ip : IPs, crossed : BOOLEAN, blocked : BOOLEAN] \cup {Nobody}
    /\ (cur = Nobody) <=> (pc \notin {"block", "put"})
    /\ armed \in BOOLEAN
    /\ rules \subseteq IPs
    /\ banned \subseteq IPs
    /\ requested \in BOOLEAN
    /\ wish \in BOOLEAN
    /\ undone \subseteq IPs
    /\ unsaved \subseteq IPs
    /\ missed \subseteq IPs

-----------------------------------------------------------------------------
Init ==
    /\ pc = "down"
    /\ enforce = FALSE
    /\ loaded = FALSE
    /\ stateFile = FALSE
    /\ window = [ip \in IPs |-> 0]
    /\ offenders = {}
    /\ disk = {}
    /\ cur = Nobody
    /\ armed = FALSE
    /\ rules = {}
    /\ banned = {}
    /\ requested = FALSE
    /\ wish = FALSE
    /\ undone = {}
    /\ unsaved = {}
    /\ missed = {}

(* Starting: LoadState, Init when --enforce, SaveState.  The state is read   *)
(* in one step and written in a later one.                                 *)

\* `agent run`, with or without --enforce.
Start(flag) ==
    /\ pc = "down"
    /\ pc' = "starting"
    /\ enforce' = flag
    /\ loaded' = stateFile
    /\ offenders' = disk
    /\ requested' = (requested \/ flag)
    /\ UNCHANGED <<stateFile, window, disk, cur, firewall, wish, undone, unsaved, missed>>

\* --enforce: the firewall is initialised before anything is watched.
StartInit ==
    /\ pc = "starting"
    /\ enforce
    /\ armed' = TRUE
    /\ loaded' = TRUE
    /\ pc' = "saving"
    /\ UNCHANGED <<enforce, stateFile, window, offenders, disk, cur, rules, banned, history>>

\* Plausible bug: the firewall is prepared without asking for --enforce.
StartDryInits ==
    /\ pc = "starting"
    /\ ~enforce
    /\ armed' = TRUE
    /\ pc' = "saving"
    /\ UNCHANGED <<enforce, loaded, stateFile, window, offenders, disk, cur, rules, banned, history>>

StartDry ==
    /\ pc = "starting"
    /\ ~enforce
    /\ pc' = "saving"
    /\ UNCHANGED <<enforce, loaded, stateFile, window, offenders, disk, cur, firewall, history>>

\* SaveState writes back what was loaded, with the new PID; a start with
\* --enforce that gets this far counts as the operator's word.
StartSave ==
    /\ pc = "saving"
    /\ stateFile' = loaded
    /\ wish' = (wish \/ enforce)
    /\ pc' = "loop"
    /\ UNCHANGED <<enforce, loaded, window, offenders, disk, cur, firewall,
                   requested, undone, unsaved, missed>>

-----------------------------------------------------------------------------
(* handleEvent: score, maybe block, persist.                               *)

AtThreshold(ip) == window[ip] = Threshold

Scored(score, w) == IF score + w >= Threshold THEN Threshold ELSE score + w

\* Plausible bugs: the offender's previous record is not carried over; the
\* score before the event is read after adding it.
ObserveForgets(ip, w) ==
    /\ pc = "loop"
    /\ window' = [window EXCEPT ![ip] = Scored(@, w)]
    /\ LET crossed == AtThreshold(ip)' /\ ~AtThreshold(ip)
       IN  /\ cur' = [ip |-> ip, crossed |-> crossed, blocked |-> FALSE]
           /\ pc' = IF crossed THEN "block" ELSE "put"
    /\ UNCHANGED <<enforce, loaded, stateFile, offenders, disk, firewall, history>>
ObserveLate(ip, w) ==
    /\ pc = "loop"
    /\ window' = [window EXCEPT ![ip] = Scored(@, w)]
    /\ cur' = [ip |-> ip, crossed |-> FALSE, blocked |-> ip \in offenders]
    /\ pc' = "put"
    /\ UNCHANGED <<enforce, loaded, stateFile, offenders, disk, firewall, history>>

\* One observation of ip, worth w (its kind's weight, plus FeedMatch when a
\* feed lists the address).  Only the event that takes the window over the
\* threshold makes handleEvent call block.
Observe(ip, w) ==
    /\ pc = "loop"
    /\ window' = [window EXCEPT ![ip] = Scored(@, w)]
    /\ LET crossed == AtThreshold(ip)' /\ ~AtThreshold(ip)
       IN  /\ cur' = [ip |-> ip, crossed |-> crossed, blocked |-> ip \in offenders]
           /\ pc' = IF crossed /\ ip \notin offenders THEN "block" ELSE "put"
    /\ UNCHANGED <<enforce, loaded, stateFile, offenders, disk, firewall, history>>

\* Dry run: "would block".
BlockDry ==
    /\ pc = "block"
    /\ ~enforce
    /\ pc' = "put"
    /\ missed' = missed \cup {cur.ip}
    /\ UNCHANGED <<enforce, loaded, stateFile, window, offenders, disk, cur, firewall,
                   requested, wish, undone, unsaved>>

\* fail2ban has the address already: recorded as blocked, no rule added.
BlockSkip ==
    /\ pc = "block"
    /\ enforce
    /\ cur.ip \in banned
    /\ pc' = "put"
    /\ cur' = [cur EXCEPT !.blocked = TRUE]
    /\ undone' = undone \ {cur.ip}
    /\ missed' = missed \ {cur.ip}
    /\ UNCHANGED <<enforce, loaded, stateFile, window, offenders, disk, firewall,
                   requested, wish, unsaved>>

\* Firewall.Block succeeds; a failing fail2ban-client counts as "not banned".
BlockRule ==
    /\ pc = "block"
    /\ enforce
    /\ cur.ip \in banned => "client" \in Events
    /\ armed
    /\ rules' = rules \cup {cur.ip}
    /\ pc' = "put"
    /\ cur' = [cur EXCEPT !.blocked = TRUE]
    /\ undone' = undone \ {cur.ip}
    /\ missed' = missed \ {cur.ip}
    /\ UNCHANGED <<enforce, loaded, stateFile, window, offenders, disk, armed, banned,
                   requested, wish, unsaved>>

\* Plausible bug: a failed Firewall.Block is recorded as a block.
BlockFailsRecorded ==
    /\ pc = "block"
    /\ enforce
    /\ cur.ip \in banned => "client" \in Events
    /\ armed => "block" \in Events
    /\ pc' = "put"
    /\ cur' = [cur EXCEPT !.blocked = TRUE]
    /\ missed' = missed \cup {cur.ip}
    /\ UNCHANGED <<enforce, loaded, stateFile, window, offenders, disk, firewall,
                   requested, wish, undone, unsaved>>

\* Firewall.Block fails: logged, the offender stays unblocked.
BlockFails ==
    /\ pc = "block"
    /\ enforce
    /\ cur.ip \in banned => "client" \in Events
    /\ armed => "block" \in Events
    /\ pc' = "put"
    /\ missed' = missed \cup {cur.ip}
    /\ UNCHANGED <<enforce, loaded, stateFile, window, offenders, disk, cur, firewall,
                   requested, wish, undone, unsaved>>

\* PutOffender: memory first, then the whole file; a failed write is logged.
Put(ok) ==
    /\ pc = "put"
    /\ ~ok => "save" \in Events
    /\ offenders' = (offenders \ {cur.ip}) \cup InHand
    /\ disk' = IF ok THEN offenders' ELSE disk
    /\ unsaved' = IF ok THEN unsaved \ offenders' ELSE unsaved \cup InHand
    /\ pc' = "loop"
    /\ cur' = Nobody
    /\ UNCHANGED <<enforce, loaded, stateFile, window, firewall, requested, wish, undone, missed>>

\* Time passes: events fall out of the sliding window, feed hits too.
Decay(ip) ==
    /\ pc = "loop"
    /\ \E score \in 0..Threshold :
           /\ score < window[ip]
           /\ window' = [window EXCEPT ![ip] = score]
    /\ UNCHANGED <<pc, enforce, loaded, stateFile, offenders, disk, cur, firewall, history>>

-----------------------------------------------------------------------------
(* reconcileState, every 3 s; when Init fails nothing changes and the next *)
(* tick tries again.                                                       *)

\* Plausible bug: enforcement is resumed only with the table still there.
ReconcileOnArmed ==
    /\ pc = "loop"
    /\ stateFile
    /\ ~enforce
    /\ armed
    /\ enforce' = TRUE
    /\ UNCHANGED <<pc, loaded, stateFile, window, offenders, disk, cur, firewall, history>>

ReconcileOn ==
    /\ pc = "loop"
    /\ stateFile
    /\ ~enforce
    /\ armed' = TRUE
    /\ enforce' = TRUE
    /\ UNCHANGED <<pc, loaded, stateFile, window, offenders, disk, cur, rules, banned, history>>

\* Turned off: what is blocked stays blocked.
ReconcileOff ==
    /\ pc = "loop"
    /\ ~stateFile
    /\ enforce
    /\ enforce' = FALSE
    /\ UNCHANGED <<pc, loaded, stateFile, window, offenders, disk, cur, firewall, history>>

-----------------------------------------------------------------------------
(* From outside.                                                           *)

\* `agent enforce --on|--off` (and the dashboard's SetEnforce).
EnforceCmd(on) ==
    /\ stateFile' = on
    /\ requested' = (requested \/ on)
    /\ wish' = on
    /\ UNCHANGED <<pc, enforce, loaded, window, offenders, disk, cur, firewall,
                   undone, unsaved, missed>>

\* `agent flush --yes`, and uninstall: only the firewall is touched.
Flush ==
    /\ "flush" \in Events
    /\ armed' = FALSE
    /\ rules' = {}
    /\ undone' = undone \cup rules
    /\ UNCHANGED <<pc, enforce, loaded, stateFile, window, offenders, disk, cur, banned,
                   requested, wish, unsaved, missed>>

Ban(ip) ==
    /\ ip \notin banned
    /\ banned' = banned \cup {ip}
    /\ UNCHANGED <<pc, enforce, loaded, stateFile, window, offenders, disk, cur,
                   armed, rules, history>>

Unban(ip) ==
    /\ "unban" \in Events
    /\ ip \in banned
    /\ banned' = banned \ {ip}
    /\ undone' = undone \cup {ip}
    /\ UNCHANGED <<pc, enforce, loaded, stateFile, window, offenders, disk, cur,
                   armed, rules, requested, wish, unsaved, missed>>

\* What the process held in memory is gone, whatever it was doing.
Stopped ==
    /\ pc' = "down"
    /\ enforce' = FALSE
    /\ loaded' = FALSE
    /\ window' = [ip \in IPs |-> 0]
    /\ offenders' = {}
    /\ cur' = Nobody
    /\ unsaved' = unsaved \cup (InHand \ disk)
    /\ missed' = {}

\* A signal, a crash, or a start that fails (Init with --enforce, SaveState).
Exit ==
    /\ pc # "down"
    /\ \/ "exit" \in Events
       \/ "init" \in Events /\ pc = "starting" /\ enforce
       \/ "save" \in Events /\ pc = "saving"
    /\ Stopped
    /\ UNCHANGED <<stateFile, disk, firewall, requested, wish, undone>>

\* The kernel's tables do not survive a reboot; the data directory does.
Reboot ==
    /\ "reboot" \in Events
    /\ Stopped
    /\ armed' = FALSE
    /\ rules' = {}
    /\ banned' = {}
    /\ undone' = undone \cup rules \cup banned
    /\ UNCHANGED <<stateFile, disk, requested, wish>>

Next ==
    \/ \E flag \in BOOLEAN : Start(flag)
    \/ StartInit
    \/ StartDry
    \/ StartSave
    \/ \E ip \in IPs, w \in Weights : Observe(ip, w)
    \/ BlockDry
    \/ BlockSkip
    \/ BlockRule
    \/ BlockFails
    \/ \E ok \in BOOLEAN : Put(ok)
    \/ \E ip \in IPs : Decay(ip)
    \/ ReconcileOn
    \/ ReconcileOff
    \/ \E on \in BOOLEAN : EnforceCmd(on)
    \/ Flush
    \/ \E ip \in IPs : Ban(ip)
    \/ \E ip \in IPs : Unban(ip)
    \/ Exit
    \/ Reboot

Spec == Init /\ [][Next]_vars

\* Run's code between two waits finishes; Go's select does not starve the
\* state ticker however many events are queued (a Reconcile that is enabled
\* again and again, between events, happens), and firewall Init does not fail
\* for ever.
Fairness ==
    /\ WF_vars(StartInit \/ StartDry \/ StartSave)
    /\ WF_vars(BlockDry \/ BlockSkip \/ BlockRule \/ BlockFails \/ \E ok \in BOOLEAN : Put(ok))
    /\ SF_vars(ReconcileOn)
    /\ SF_vars(ReconcileOff)

FairSpec == Spec /\ Fairness

-----------------------------------------------------------------------------
\* Until somebody asks for enforcement, by a flag or by a command, the agent
\* leaves the firewall alone: no table, no rule, across restarts (firewall.go:
\* "a dry-run agent never calls Init").
DryRunUntouched == ~requested => ~armed /\ rules = {}

\* An address is recorded as blocked, in memory, on disk or in the record being
\* built, only if a rule or a fail2ban ban was there for it when it was
\* recorded; one that is gone since was taken away by a flush, a reboot or
\* fail2ban.  Failed Blocks and dry runs never leave a blocked record.
BlockedIsBacked == offenders \cup disk \cup InHand \subseteq rules \cup banned \cup undone

\* Every rule of the agent's is explained by a blocked record on disk, by the
\* record being written, or by a write that failed: no later observation, decay
\* or restart turns a record back while its rule stays (sticky blocking).
RulesRecorded == rules \subseteq disk \cup unsaved \cup InHand

\* Between events, an address whose window is over the threshold is blocked,
\* unless its crossing fell in dry run or its Block failed: no order of events,
\* decay, mode switches and restarts loses a crossing otherwise.
MissedExplains ==
    pc = "loop" =>
        \A ip \in IPs : AtThreshold(ip) => ip \in offenders \cup missed

\* When handleEvent is done with an event that took an address over the
\* threshold, an enforcing agent with a working firewall is blocking it.
CrossingIsBlocked ==
    pc = "put" /\ cur.crossed /\ enforce /\ armed => cur.ip \in rules \cup banned

\* `agent enforce --on` "actually blocks" an offender that dry run reported: an
\* address over the threshold is blocked by its next event once enforcing.
EnforceOnBlocksActive ==
    pc = "put" /\ AtThreshold(cur.ip) /\ enforce /\ armed => cur.ip \in rules \cup banned

\* A running agent works towards what the operator last asked for: "A running
\* `agent run` process picks this up within a few seconds".
EnforceNotLost == pc = "loop" => stateFile = wish

\* An agent that stays up ends in the mode that agent-state.json keeps asking
\* for, however many events it is handling.
EnforceConverges ==
    \A v \in BOOLEAN : <>[](stateFile = v /\ pc # "down") => <>[](enforce = v)
=============================================================================
