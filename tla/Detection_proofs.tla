-------------------------- MODULE Detection_proofs --------------------------
(***************************************************************************)
(* The safety properties of the agent's detection.                         *)
(*                                                                         *)
(* Those of AgentEnforcement, for every set of addresses, every threshold   *)
(* and every set of outside events, share one inductive invariant.          *)
(* BlockedIsBacked is inductive on top of the types.  The others need to    *)
(* know what the code keeps between its steps: enforcement never gets into  *)
(* Config, into the state Run read or into agent-state.json without having  *)
(* been asked for (AskedFor); the map in memory knows every block that the  *)
(* file knows (Remembered); the record being built carries the block it     *)
(* found (Carried); a window is empty until the loop runs (Empty); and the  *)
(* crossing that is being handled is the only one not accounted for         *)
(* (Accounted).                                                             *)
(*                                                                         *)
(* Those of OffenderWindow hold for every host, window and number of        *)
(* attempts.  Their invariant says what becomes of an attempt in a source   *)
(* that carries it (Reported) and what an event in the window tells of its  *)
(* attempt (EventsFit).  That makes the events that outlive pruning an      *)
(* injection into the recent attempts, and onto them once everything has    *)
(* been reported.  Score and WeightOf fold a sum over a set: both are       *)
(* compared weight by weight (ByWeight), where an injection is enough.      *)
(***************************************************************************)
EXTENDS AgentEnforcement, OffenderWindow, FiniteSetTheorems, SequenceTheorems,
        WellFoundedInduction, TLAPS

-----------------------------------------------------------------------------
(* Enforcement.                                                            *)

AskedFor == enforce \/ loaded \/ stateFile => requested

Remembered == pc # "down" => disk \subseteq offenders

Carried ==
    /\ pc = "block" => cur.ip \notin offenders /\ ~cur.blocked
    /\ pc = "put" => (cur.ip \in offenders => cur.blocked)

Empty == pc \in {"down", "starting", "saving"} => \A ip \in IPs : window[ip] = 0

Explained(ip) ==
    \/ ip \in offenders \cup missed
    \/ cur.ip = ip /\ (cur.blocked \/ pc = "block")

Accounted == \A ip \in IPs : AtThreshold(ip) => Explained(ip)

IInv ==
    /\ TypeOK
    /\ AskedFor
    /\ Remembered
    /\ Carried
    /\ Empty
    /\ Accounted
    /\ DryRunUntouched
    /\ BlockedIsBacked
    /\ RulesRecorded

-----------------------------------------------------------------------------
LEMMA ScoredInRange ==
    ASSUME NEW score \in 0..Threshold, NEW w \in Weights
    PROVE  Scored(score, w) \in 0..Threshold
BY EnforcementAssumption DEF Scored

LEMMA InitIInv == Init => IInv
<1> SUFFICES ASSUME Init PROVE IInv
    OBVIOUS
<1>1. TypeOK
    <2>1. window \in [IPs -> 0..Threshold]
        BY EnforcementAssumption DEF Init
    <2> QED
        BY <2>1 DEF Init, TypeOK
<1>2. AskedFor /\ Remembered /\ Carried /\ Empty
    BY DEF Init, AskedFor, Remembered, Carried, Empty
<1>3. Accounted
    BY EnforcementAssumption DEF Init, Accounted, AtThreshold
<1>4. DryRunUntouched /\ BlockedIsBacked /\ RulesRecorded
    BY DEF Init, Nobody, InHand, DryRunUntouched, BlockedIsBacked, RulesRecorded
<1> QED
    BY <1>1, <1>2, <1>3, <1>4 DEF IInv

-----------------------------------------------------------------------------
\* A step changes few of the parts; the parts it leaves alone follow with it.
LEMMA StepIInv == IInv /\ [Next]_vars => IInv'
<1> SUFFICES ASSUME IInv, [Next]_vars PROVE IInv'
    OBVIOUS
<1> USE EnforcementAssumption DEF IInv, TypeOK, firewall, history, Nobody, InHand
<1>1. ASSUME NEW flag \in BOOLEAN, Start(flag) PROVE IInv'
    BY <1>1 DEF Start, AtThreshold, AskedFor, Remembered, Carried, Empty, Accounted, Explained,
           DryRunUntouched, BlockedIsBacked, RulesRecorded
<1>2. ASSUME StartInit PROVE IInv'
    BY <1>2 DEF StartInit, AtThreshold, AskedFor, Remembered, Carried, Empty, Accounted, Explained,
           DryRunUntouched, BlockedIsBacked, RulesRecorded
<1>3. ASSUME StartDry PROVE IInv'
    BY <1>3 DEF StartDry, AtThreshold, AskedFor, Remembered, Carried, Empty, Accounted, Explained,
           DryRunUntouched, BlockedIsBacked, RulesRecorded
<1>4. ASSUME StartSave PROVE IInv'
    BY <1>4 DEF StartSave, AtThreshold, AskedFor, Remembered, Carried, Empty, Accounted, Explained,
           DryRunUntouched, BlockedIsBacked, RulesRecorded
<1>5. ASSUME NEW ip \in IPs, NEW w \in Weights, Observe(ip, w) PROVE IInv'
    <2>1. TypeOK'
        BY ScoredInRange, <1>5 DEF Observe
    <2>2. (AskedFor /\ DryRunUntouched)'
        BY <1>5 DEF Observe, AskedFor, DryRunUntouched
    <2>3. (Remembered /\ Carried /\ Empty)'
        BY <1>5 DEF Observe, Remembered, Carried, Empty, AtThreshold
    <2>4. Accounted'
        BY <1>5 DEF Observe, Accounted, Explained, Empty, Carried, AtThreshold
    <2>5. BlockedIsBacked'
        BY <1>5 DEF Observe, BlockedIsBacked, Carried
    <2>6. RulesRecorded'
        BY <1>5 DEF Observe, RulesRecorded, Carried, Remembered
    <2> QED
        BY <2>1, <2>2, <2>3, <2>4, <2>5, <2>6
<1>6. ASSUME BlockDry PROVE IInv'
    <2>1. TypeOK'
        BY <1>6 DEF BlockDry
    <2>2. (AskedFor /\ DryRunUntouched)'
        BY <1>6 DEF BlockDry, AskedFor, DryRunUntouched
    <2>3. (Remembered /\ Carried /\ Empty)'
        BY <1>6 DEF BlockDry, Remembered, Carried, Empty, AtThreshold
    <2>4. Accounted'
        BY <1>6 DEF BlockDry, Accounted, Explained, Empty, Carried, AtThreshold
    <2>5. BlockedIsBacked'
        BY <1>6 DEF BlockDry, BlockedIsBacked, Carried
    <2>6. RulesRecorded'
        BY <1>6 DEF BlockDry, RulesRecorded, Carried, Remembered
    <2> QED
        BY <2>1, <2>2, <2>3, <2>4, <2>5, <2>6
<1>7. ASSUME BlockSkip PROVE IInv'
    <2>1. TypeOK'
        BY <1>7 DEF BlockSkip
    <2>2. (AskedFor /\ DryRunUntouched)'
        BY <1>7 DEF BlockSkip, AskedFor, DryRunUntouched
    <2>3. (Remembered /\ Carried /\ Empty)'
        BY <1>7 DEF BlockSkip, Remembered, Carried, Empty, AtThreshold
    <2>4. Accounted'
        BY <1>7 DEF BlockSkip, Accounted, Explained, Empty, Carried, AtThreshold
    <2>5. BlockedIsBacked'
        BY <1>7 DEF BlockSkip, BlockedIsBacked, Carried
    <2>6. RulesRecorded'
        BY <1>7 DEF BlockSkip, RulesRecorded, Carried, Remembered
    <2> QED
        BY <2>1, <2>2, <2>3, <2>4, <2>5, <2>6
<1>8. ASSUME BlockRule PROVE IInv'
    <2>1. TypeOK'
        BY <1>8 DEF BlockRule
    <2>2. (AskedFor /\ DryRunUntouched)'
        BY <1>8 DEF BlockRule, AskedFor, DryRunUntouched
    <2>3. (Remembered /\ Carried /\ Empty)'
        BY <1>8 DEF BlockRule, Remembered, Carried, Empty, AtThreshold
    <2>4. Accounted'
        BY <1>8 DEF BlockRule, Accounted, Explained, Empty, Carried, AtThreshold
    <2>5. BlockedIsBacked'
        BY <1>8 DEF BlockRule, BlockedIsBacked, Carried
    <2>6. RulesRecorded'
        BY <1>8 DEF BlockRule, RulesRecorded, Carried, Remembered
    <2> QED
        BY <2>1, <2>2, <2>3, <2>4, <2>5, <2>6
<1>9. ASSUME BlockFails PROVE IInv'
    <2>1. TypeOK'
        BY <1>9 DEF BlockFails
    <2>2. (AskedFor /\ DryRunUntouched)'
        BY <1>9 DEF BlockFails, AskedFor, DryRunUntouched
    <2>3. (Remembered /\ Carried /\ Empty)'
        BY <1>9 DEF BlockFails, Remembered, Carried, Empty, AtThreshold
    <2>4. Accounted'
        BY <1>9 DEF BlockFails, Accounted, Explained, Empty, Carried, AtThreshold
    <2>5. BlockedIsBacked'
        BY <1>9 DEF BlockFails, BlockedIsBacked, Carried
    <2>6. RulesRecorded'
        BY <1>9 DEF BlockFails, RulesRecorded, Carried, Remembered
    <2> QED
        BY <2>1, <2>2, <2>3, <2>4, <2>5, <2>6
<1>10. ASSUME NEW ok \in BOOLEAN, Put(ok) PROVE IInv'
    BY <1>10 DEF Put, AtThreshold, AskedFor, Remembered, Carried, Empty, Accounted, Explained,
           DryRunUntouched, BlockedIsBacked, RulesRecorded
<1>11. ASSUME NEW ip \in IPs, Decay(ip) PROVE IInv'
    BY <1>11 DEF Decay, AtThreshold, AskedFor, Remembered, Carried, Empty, Accounted, Explained,
           DryRunUntouched, BlockedIsBacked, RulesRecorded
<1>12. ASSUME ReconcileOn PROVE IInv'
    BY <1>12 DEF ReconcileOn, AtThreshold, AskedFor, Remembered, Carried, Empty, Accounted, Explained,
           DryRunUntouched, BlockedIsBacked, RulesRecorded
<1>13. ASSUME ReconcileOff PROVE IInv'
    BY <1>13 DEF ReconcileOff, AtThreshold, AskedFor, Remembered, Carried, Empty, Accounted, Explained,
           DryRunUntouched, BlockedIsBacked, RulesRecorded
<1>14. ASSUME NEW on \in BOOLEAN, EnforceCmd(on) PROVE IInv'
    BY <1>14 DEF EnforceCmd, AtThreshold, AskedFor, Remembered, Carried, Empty, Accounted, Explained,
           DryRunUntouched, BlockedIsBacked, RulesRecorded
<1>15. ASSUME Flush PROVE IInv'
    BY <1>15 DEF Flush, AtThreshold, AskedFor, Remembered, Carried, Empty, Accounted, Explained,
           DryRunUntouched, BlockedIsBacked, RulesRecorded
<1>16. ASSUME NEW ip \in IPs, Ban(ip) PROVE IInv'
    BY <1>16 DEF Ban, AtThreshold, AskedFor, Remembered, Carried, Empty, Accounted, Explained,
           DryRunUntouched, BlockedIsBacked, RulesRecorded
<1>17. ASSUME NEW ip \in IPs, Unban(ip) PROVE IInv'
    BY <1>17 DEF Unban, AtThreshold, AskedFor, Remembered, Carried, Empty, Accounted, Explained,
           DryRunUntouched, BlockedIsBacked, RulesRecorded
<1>18. ASSUME Exit PROVE IInv'
    <2>1. TypeOK'
        <3>1. window' \in [IPs -> 0..Threshold]
            BY <1>18 DEF Exit, Stopped
        <3>2. unsaved' \subseteq IPs
            <4>1. InHand \subseteq IPs
                OBVIOUS
            <4> QED
                BY <4>1, <1>18 DEF Exit, Stopped
        <3> QED
            BY <3>1, <3>2, <1>18 DEF Exit, Stopped
    <2>2. (AskedFor /\ DryRunUntouched)'
        BY <1>18 DEF Exit, Stopped, AskedFor, DryRunUntouched
    <2>3. (Remembered /\ Carried /\ Empty)'
        BY <1>18 DEF Exit, Stopped, Remembered, Carried, Empty, AtThreshold
    <2>4. Accounted'
        BY <1>18 DEF Exit, Stopped, Accounted, Explained, Empty, Carried, AtThreshold
    <2>5. BlockedIsBacked'
        BY <1>18 DEF Exit, Stopped, BlockedIsBacked, Carried
    <2>6. RulesRecorded'
        BY <1>18 DEF Exit, Stopped, RulesRecorded, Carried, Remembered
    <2> QED
        BY <2>1, <2>2, <2>3, <2>4, <2>5, <2>6
<1>19. ASSUME Reboot PROVE IInv'
    <2>1. TypeOK'
        <3>1. window' \in [IPs -> 0..Threshold]
            BY <1>19 DEF Reboot, Stopped
        <3>2. unsaved' \subseteq IPs
            <4>1. InHand \subseteq IPs
                OBVIOUS
            <4> QED
                BY <4>1, <1>19 DEF Reboot, Stopped
        <3> QED
            BY <3>1, <3>2, <1>19 DEF Reboot, Stopped
    <2>2. (AskedFor /\ DryRunUntouched)'
        BY <1>19 DEF Reboot, Stopped, AskedFor, DryRunUntouched
    <2>3. (Remembered /\ Carried /\ Empty)'
        BY <1>19 DEF Reboot, Stopped, Remembered, Carried, Empty, AtThreshold
    <2>4. Accounted'
        BY <1>19 DEF Reboot, Stopped, Accounted, Explained, Empty, Carried, AtThreshold
    <2>5. BlockedIsBacked'
        BY <1>19 DEF Reboot, Stopped, BlockedIsBacked, Carried
    <2>6. RulesRecorded'
        BY <1>19 DEF Reboot, Stopped, RulesRecorded, Carried, Remembered
    <2> QED
        BY <2>1, <2>2, <2>3, <2>4, <2>5, <2>6
<1>20. CASE UNCHANGED vars
    BY <1>20 DEF vars, AtThreshold, AskedFor, Remembered, Carried, Empty, Accounted, Explained,
           DryRunUntouched, BlockedIsBacked, RulesRecorded
<1> QED
    BY <1>1, <1>2, <1>3, <1>4, <1>5, <1>6, <1>7, <1>8, <1>9, <1>10, <1>11, <1>12, <1>13, <1>14, <1>15, <1>16, <1>17, <1>18, <1>19, <1>20 DEF Next

-----------------------------------------------------------------------------
THEOREM Invariance == Spec => []IInv
    BY InitIInv, StepIInv, PTL DEF Spec

\* Type correctness, with the offender in hand exactly while one is handled.
THEOREM TypeCorrect == Spec => []TypeOK
<1>1. IInv => TypeOK
    BY DEF IInv
<1> QED
    BY <1>1, Invariance, PTL

\* No firewall change before enforcement was asked for, over any run of starts,
\* exits, reboots, commands and events.
THEOREM DryRunIsPassive == Spec => []DryRunUntouched
<1>1. IInv => DryRunUntouched
    BY DEF IInv
<1> QED
    BY <1>1, Invariance, PTL

\* No blocked record without a rule or a ban behind it when it was made.
THEOREM BlockedWasBlocked == Spec => []BlockedIsBacked
<1>1. IInv => BlockedIsBacked
    BY DEF IInv
<1> QED
    BY <1>1, Invariance, PTL

\* No rule without a record that explains it, or a write that failed.
THEOREM RulesAreExplained == Spec => []RulesRecorded
<1>1. IInv => RulesRecorded
    BY DEF IInv
<1> QED
    BY <1>1, Invariance, PTL

\* No crossing of the threshold is lost between handleEvent's steps.
THEOREM NoCrossingLost == Spec => []MissedExplains
<1>1. IInv => MissedExplains
    BY DEF IInv, TypeOK, Nobody, Accounted, Explained, MissedExplains
<1> QED
    BY <1>1, Invariance, PTL

-----------------------------------------------------------------------------
\* With a firewall that only the agent changes and that takes its rules, a
\* decision to block is a block.  What the agent recorded is then still in
\* force (undone stays empty), also for a crossing it finds recorded already.
Undisturbed == Events \cap {"block", "flush", "reboot", "unban"} = {}

Decided == pc = "put" /\ cur.crossed /\ enforce /\ armed => cur.blocked

LEMMA StepDecided ==
    ASSUME Undisturbed, IInv, undone = {}, Decided, [Next]_vars
    PROVE  undone' = {} /\ Decided'
<1> USE DEF Undisturbed, IInv, TypeOK, firewall, history, Nobody, Decided
<1>1. CASE \E flag \in BOOLEAN : Start(flag)
    BY <1>1 DEF Start
<1>2. CASE StartInit \/ StartDry \/ StartSave
    BY <1>2 DEF StartInit, StartDry, StartSave
<1>3. CASE \E ip \in IPs, w \in Weights : Observe(ip, w)
    BY <1>3 DEF Observe
<1>4. CASE BlockDry \/ BlockSkip \/ BlockRule \/ BlockFails
    BY <1>4 DEF BlockDry, BlockSkip, BlockRule, BlockFails
<1>5. CASE \E ok \in BOOLEAN : Put(ok)
    BY <1>5 DEF Put
<1>6. CASE \E ip \in IPs : Decay(ip) \/ Ban(ip) \/ Unban(ip)
    BY <1>6 DEF Decay, Ban, Unban
<1>7. CASE ReconcileOn \/ ReconcileOff \/ \E on \in BOOLEAN : EnforceCmd(on)
    BY <1>7 DEF ReconcileOn, ReconcileOff, EnforceCmd
<1>8. CASE Flush \/ Exit \/ Reboot
    BY <1>8 DEF Flush, Exit, Reboot, Stopped
<1>9. CASE UNCHANGED vars
    BY <1>9 DEF vars
<1> QED
    BY <1>1, <1>2, <1>3, <1>4, <1>5, <1>6, <1>7, <1>8, <1>9 DEF Next

\* The decision to block takes effect, for every history of the addresses: the
\* hypothesis is what enforce_crossing.cfg and enforce_repeat.cfg differ in.
THEOREM CrossingTakesEffect == Undisturbed => (Spec => []CrossingIsBlocked)
<1> SUFFICES ASSUME Undisturbed PROVE Spec => []CrossingIsBlocked
    OBVIOUS
<1>1. Init => undone = {} /\ Decided
    BY DEF Init, Decided
<1>2. IInv /\ (undone = {} /\ Decided) /\ [Next]_vars => (undone = {} /\ Decided)'
    BY StepDecided
<1>3. IInv /\ (undone = {} /\ Decided) => CrossingIsBlocked
    BY DEF IInv, BlockedIsBacked, InHand, Decided, CrossingIsBlocked
<1> QED
    BY <1>1, <1>2, <1>3, Invariance, PTL DEF Spec

-----------------------------------------------------------------------------
(* The window: sums of weights.                                            *)

\* The weights' sum, weight by weight.
DefaultScores == {HTTPSuspicious, SSHFailedLogin, FeedMatch}
Count(w, s, v) == Cardinality({x \in s : w[x] = v})
ByWeight(w, s) ==
    HTTPSuspicious * Count(w, s, HTTPSuspicious) + SSHFailedLogin * Count(w, s, SSHFailedLogin)
        + FeedMatch * Count(w, s, FeedMatch)

\* The function that MapThenSumSet folds with.
Sums(g, w, S) ==
    g = [s \in SUBSET S |->
            IF s = {} THEN 0
            ELSE w[CHOOSE x \in s : TRUE] + g[s \ {CHOOSE x \in s : TRUE}]]

LEMMA CountRemove ==
    ASSUME NEW w, NEW s, IsFiniteSet(s), NEW x \in s, NEW v
    PROVE  /\ Count(w, s, v) \in Nat
           /\ Count(w, s \ {x}, v) = IF w[x] = v THEN Count(w, s, v) - 1 ELSE Count(w, s, v)
<1> DEFINE c == {y \in s : w[y] = v}
<1>1. IsFiniteSet(c)
    BY FS_Subset
<1>2. {y \in s \ {x} : w[y] = v} = c \ {x}
    OBVIOUS
<1>3. /\ Cardinality(c) \in Nat
      /\ Cardinality(c \ {x}) = IF x \in c THEN Cardinality(c) - 1 ELSE Cardinality(c)
    BY <1>1, FS_CardinalityType, FS_RemoveElement
<1> QED
    BY <1>2, <1>3 DEF Count

LEMMA ByWeightStep ==
    ASSUME NEW S, NEW w \in [S -> DefaultScores], NEW s \in SUBSET S, IsFiniteSet(s),
           NEW x \in s
    PROVE  ByWeight(w, s) = w[x] + ByWeight(w, s \ {x})
<1>1. ASSUME NEW v
      PROVE  /\ Count(w, s, v) \in Nat
             /\ Count(w, s \ {x}, v) = IF w[x] = v THEN Count(w, s, v) - 1 ELSE Count(w, s, v)
    BY CountRemove
<1>2. w[x] \in {10, 15, 100}
    BY DEF DefaultScores, HTTPSuspicious, SSHFailedLogin, FeedMatch
<1> DEFINE n(v) == Count(w, s, v)
           m(v) == Count(w, s \ {x}, v)
<1>3. /\ n(10) \in Nat /\ m(10) = IF w[x] = 10 THEN n(10) - 1 ELSE n(10)
      /\ n(15) \in Nat /\ m(15) = IF w[x] = 15 THEN n(15) - 1 ELSE n(15)
      /\ n(100) \in Nat /\ m(100) = IF w[x] = 100 THEN n(100) - 1 ELSE n(100)
    BY <1>1
<1> HIDE DEF n, m
<1>4. 10 * n(10) + 15 * n(15) + 100 * n(100) = w[x] + (10 * m(10) + 15 * m(15) + 100 * m(100))
    BY <1>2, <1>3
<1> QED
    BY <1>4 DEF n, m, ByWeight, HTTPSuspicious, SSHFailedLogin, FeedMatch

LEMMA ByWeightEmpty ==
    ASSUME NEW w
    PROVE  ByWeight(w, {}) = 0
<1>1. \A v : {x \in {} : w[x] = v} = {}
    OBVIOUS
<1>2. \A v : Count(w, {}, v) = 0
    BY <1>1, FS_EmptySet DEF Count
<1> QED
    BY <1>2 DEF ByWeight, HTTPSuspicious, SSHFailedLogin, FeedMatch

\* There is such a function, and any sums the weights.
LEMMA SumsExist ==
    ASSUME NEW S, IsFiniteSet(S), NEW w \in [S -> DefaultScores]
    PROVE  \E g : Sums(g, w, S)
<1> DEFINE g == [s \in SUBSET S |-> ByWeight(w, s)]
           pick(s) == CHOOSE x \in s : TRUE
<1>1. ASSUME NEW s \in SUBSET S
      PROVE  ByWeight(w, s) = IF s = {} THEN 0 ELSE w[pick(s)] + g[s \ {pick(s)}]
    <2>1. CASE s = {}
        BY <2>1, ByWeightEmpty
    <2>2. CASE s # {}
        <3>1. pick(s) \in s
            BY <2>2
        <3>2. IsFiniteSet(s) /\ s \ {pick(s)} \in SUBSET S
            BY FS_Subset
        <3> HIDE DEF pick
        <3>3. ByWeight(w, s) = w[pick(s)] + ByWeight(w, s \ {pick(s)})
            BY <3>1, <3>2, ByWeightStep
        <3> QED
            BY <2>2, <3>2, <3>3
    <2> QED
        BY <2>1, <2>2
<1>2. g = [s \in SUBSET S |-> IF s = {} THEN 0 ELSE w[pick(s)] + g[s \ {pick(s)}]]
    <2> DEFINE rhs(s) == IF s = {} THEN 0 ELSE w[pick(s)] + g[s \ {pick(s)}]
    <2>1. \A s \in SUBSET S : ByWeight(w, s) = rhs(s)
        BY <1>1
    <2> HIDE DEF rhs
    <2>2. [s \in SUBSET S |-> ByWeight(w, s)] = [s \in SUBSET S |-> rhs(s)]
        BY <2>1
    <2> QED
        BY <2>2 DEF rhs
<1>3. Sums(g, w, S)
    BY <1>2 DEF Sums
<1> QED
    BY <1>3

LEMMA SumsAre ==
    ASSUME NEW S, IsFiniteSet(S), NEW w \in [S -> DefaultScores], NEW g, Sums(g, w, S)
    PROVE  g[S] = ByWeight(w, S)
<1> DEFINE Wrong == {n \in Nat : \E s \in SUBSET S :
                         Cardinality(s) = n /\ g[s] # ByWeight(w, s)}
           pick(s) == CHOOSE x \in s : TRUE
<1>1. Wrong = {}
    <2> SUFFICES ASSUME Wrong # {} PROVE FALSE
        OBVIOUS
    <2>1. PICK n \in Wrong : \A m \in Wrong : ~(<<m, n>> \in OpToRel(<, Nat))
        <3>1. Wrong \subseteq Nat
            OBVIOUS
        <3> HIDE DEF Wrong
        <3> QED
            BY <3>1, NatLessThanWellFounded, WFMin
    <2>2. PICK s \in SUBSET S : Cardinality(s) = n /\ g[s] # ByWeight(w, s)
        OBVIOUS
    <2>3. IsFiniteSet(s) /\ n \in Nat
        BY FS_Subset
    <2>4. g[s] = IF s = {} THEN 0 ELSE w[pick(s)] + g[s \ {pick(s)}]
        BY DEF Sums
    <2>5. s # {}
        BY <2>2, <2>4, ByWeightEmpty
    <2>6. pick(s) \in s
        BY <2>5
    <2> HIDE DEF pick
    <2>7. /\ Cardinality(s \ {pick(s)}) = n - 1 /\ n - 1 \in Nat
          /\ s \ {pick(s)} \in SUBSET S
        <3>1. IsFiniteSet(s \ {pick(s)}) /\ Cardinality(s \ {pick(s)}) = n - 1
            BY <2>2, <2>3, <2>6, FS_RemoveElement
        <3>2. Cardinality(s \ {pick(s)}) \in Nat
            BY <3>1, FS_CardinalityType
        <3> QED
            BY <3>1, <3>2
    <2>8. g[s \ {pick(s)}] = ByWeight(w, s \ {pick(s)})
        <3>1. n - 1 \notin Wrong
            <4>1. <<n - 1, n>> \in OpToRel(<, Nat)
                BY <2>3, <2>7 DEF OpToRel
            <4> QED
                BY <2>1, <4>1
        <3> QED
            BY <2>7, <3>1
    <2>9. ByWeight(w, s) = w[pick(s)] + ByWeight(w, s \ {pick(s)})
        BY <2>3, <2>6, ByWeightStep
    <2> QED
        BY <2>2, <2>4, <2>5, <2>8, <2>9
<1>2. Cardinality(S) \in Nat
    BY FS_CardinalityType
<1> QED
    BY <1>1, <1>2

LEMMA ScoreSum ==
    ASSUME NEW events, IsFiniteSet(Prune(events)),
           \A e \in Prune(events) : Weight(e) \in DefaultScores
    PROVE  Score(events) = ByWeight([e \in Prune(events) |-> Weight(e)], Prune(events))
<1> DEFINE S == Prune(events)
           w == [e \in S |-> Weight(e)]
           pick(s) == CHOOSE x \in s : TRUE
           Step(g) == g = [s \in SUBSET S |->
                          IF s = {} THEN 0 ELSE Weight(pick(s)) + g[s \ {pick(s)}]]
<1>1. Score(events) = (CHOOSE g : Step(g))[S]
    BY DEF Score, MapThenSumSet, MapThenFoldSet
<1>2. w \in [S -> DefaultScores]
    OBVIOUS
<1>3. ASSUME NEW g PROVE Step(g) <=> Sums(g, w, S)
    <2> DEFINE a(s) == IF s = {} THEN 0 ELSE Weight(pick(s)) + g[s \ {pick(s)}]
               b(s) == IF s = {} THEN 0 ELSE w[pick(s)] + g[s \ {pick(s)}]
    <2>1. ASSUME NEW s \in SUBSET S PROVE a(s) = b(s)
        <3>1. s # {} => pick(s) \in S
            OBVIOUS
        <3> HIDE DEF pick, S
        <3> QED
            BY <3>1
    <2> HIDE DEF a, b
    <2>2. [s \in SUBSET S |-> a(s)] = [s \in SUBSET S |-> b(s)]
        BY <2>1
    <2> QED
        BY <2>2 DEF a, b, Sums
<1> HIDE DEF Step, w, S
<1>4. \E g : Step(g)
    BY <1>2, <1>3, SumsExist DEF S
<1>5. Step(CHOOSE g : Step(g))
    BY <1>4
<1>6. (CHOOSE g : Step(g))[S] = ByWeight(w, S)
    BY <1>2, <1>3, <1>5, SumsAre DEF S
<1> QED
    BY <1>1, <1>6 DEF S, w

LEMMA WeightSum ==
    ASSUME NEW S, IsFiniteSet(S), \A a \in S : weightFor(KindOf(a)) \in DefaultScores
    PROVE  WeightOf(S) = ByWeight([a \in S |-> weightFor(KindOf(a))], S)
<1> DEFINE w == [a \in S |-> weightFor(KindOf(a))]
           pick(s) == CHOOSE x \in s : TRUE
           Step(g) == g = [s \in SUBSET S |->
                          IF s = {} THEN 0 ELSE weightFor(KindOf(pick(s))) + g[s \ {pick(s)}]]
<1>1. WeightOf(S) = (CHOOSE g : Step(g))[S]
    BY DEF WeightOf, MapThenSumSet, MapThenFoldSet
<1>2. w \in [S -> DefaultScores]
    OBVIOUS
<1>3. ASSUME NEW g PROVE Step(g) <=> Sums(g, w, S)
    <2> DEFINE a(s) == IF s = {} THEN 0 ELSE weightFor(KindOf(pick(s))) + g[s \ {pick(s)}]
               b(s) == IF s = {} THEN 0 ELSE w[pick(s)] + g[s \ {pick(s)}]
    <2>1. ASSUME NEW s \in SUBSET S PROVE a(s) = b(s)
        <3>1. s # {} => pick(s) \in S
            OBVIOUS
        <3> HIDE DEF pick
        <3> QED
            BY <3>1
    <2> HIDE DEF a, b
    <2>2. [s \in SUBSET S |-> a(s)] = [s \in SUBSET S |-> b(s)]
        BY <2>1
    <2> QED
        BY <2>2 DEF a, b, Sums
<1> HIDE DEF Step, w
<1>4. \E g : Step(g)
    BY <1>2, <1>3, SumsExist
<1>5. Step(CHOOSE g : Step(g))
    BY <1>4
<1>6. (CHOOSE g : Step(g))[S] = ByWeight(w, S)
    BY <1>2, <1>3, <1>5, SumsAre
<1> QED
    BY <1>1, <1>6 DEF w

-----------------------------------------------------------------------------
(* Scores and attempts.                                                    *)

LEMMA WindowFacts ==
    ASSUME WindowTypeOK
    PROVE  /\ Len(attempts) \in Nat /\ since \in Nat /\ now \in Nat /\ Window \in Nat
           /\ \A a \in 1..Len(attempts) :
                 KindOf(a) \in Kinds /\ attempts[a].at \in Nat /\ attempts[a].at \in 0..MaxTime
           /\ Recent \subseteq 1..Len(attempts) /\ IsFiniteSet(Recent)
           /\ \A a \in 1..Len(attempts) : weightFor(KindOf(a)) \in DefaultScores
<1>1. /\ attempts \in Seq([kind : Kinds, at : 0..MaxTime]) /\ Len(attempts) \in Nat
      /\ since \in Nat /\ now \in Nat /\ Window \in Nat
    BY WindowAssumption, LenProperties DEF WindowTypeOK
<1>2. ASSUME NEW a \in 1..Len(attempts)
      PROVE  KindOf(a) \in Kinds /\ attempts[a].at \in Nat /\ attempts[a].at \in 0..MaxTime
    <2>1. attempts[a] \in [kind : Kinds, at : 0..MaxTime]
        BY <1>1, ElementOfSeq
    <2> QED
        BY <2>1, WindowAssumption DEF KindOf
<1>3. Recent \subseteq 1..Len(attempts)
    BY <1>1 DEF Recent
<1>4. IsFiniteSet(Recent)
    <2>1. IsFiniteSet(1..Len(attempts))
        BY <1>1, FS_Interval
    <2> QED
        BY <1>3, <2>1, FS_Subset
<1>5. ASSUME NEW k \in Kinds PROVE weightFor(k) \in DefaultScores
    BY DEF Kinds, weightFor, DefaultScores, HTTPSuspicious, SSHFailedLogin, FeedMatch, Fail2banBan
<1> QED
    BY <1>1, <1>2, <1>3, <1>4, <1>5

\* Events of different attempts of a set of recent ones weigh no more than those
\* attempts, and as much if none of them is without its event.
LEMMA ScoreOfAttempts ==
    ASSUME WindowTypeOK, NEW events, NEW done \in SUBSET Recent,
           \A e \in Prune(events) : ~e.feed /\ e.attempt \in done,
           \A d, e \in Prune(events) : d.attempt = e.attempt => d = e
    PROVE  /\ Score(events) \in Nat /\ WeightOf(done) \in Nat /\ Score(events) <= WeightOf(done)
           /\ (\A a \in done : \E e \in Prune(events) : e.attempt = a) =>
                  Score(events) = WeightOf(done)
<1> DEFINE P == Prune(events)
           w == [e \in P |-> Weight(e)]
           dw == [a \in done |-> weightFor(KindOf(a))]
           Of(v) == {e \in P : w[e] = v}
           Done(v) == {a \in done : dw[a] = v}
           All == \A a \in done : \E e \in P : e.attempt = a
<1>fin. IsFiniteSet(done)
    BY WindowFacts, FS_Subset
<1>0. \A e \in P : e.attempt \in done /\ Weight(e) = weightFor(KindOf(e.attempt))
    BY DEF Weight
<1>1. IsFiniteSet(P)
    <2> DEFINE m == [e \in P |-> e.attempt]
    <2>1. m \in Injection(P, done)
        BY <1>0 DEF Injection, IsInjective
    <2> QED
        BY <1>fin, <2>1, FS_Injection
<1>2. ASSUME NEW v
      PROVE  /\ Count(w, P, v) \in Nat /\ Count(dw, done, v) \in Nat
             /\ Count(w, P, v) <= Count(dw, done, v)
             /\ All => Count(w, P, v) = Count(dw, done, v)
    <2> DEFINE m == [e \in Of(v) |-> e.attempt]
    <2>1. IsFiniteSet(Of(v)) /\ IsFiniteSet(Done(v))
        BY <1>1, <1>fin, FS_Subset
    <2>2. m \in Injection(Of(v), Done(v))
        BY <1>0 DEF Injection, IsInjective
    <2>3. All => m \in Surjection(Of(v), Done(v))
        BY <1>0, <2>2 DEF Injection, Surjection
    <2>4. /\ Cardinality(Of(v)) \in Nat /\ Cardinality(Done(v)) \in Nat
          /\ Cardinality(Of(v)) <= Cardinality(Done(v))
          /\ All => Cardinality(Of(v)) = Cardinality(Done(v))
        BY <2>1, <2>2, <2>3, FS_Injection, FS_CardinalityType
    <2> QED
        BY <2>4 DEF Count
<1>3. Score(events) = ByWeight(w, P)
    <2>1. \A e \in Prune(events) : Weight(e) \in DefaultScores
        BY <1>0, WindowFacts
    <2> QED
        BY <1>1, <2>1, ScoreSum
<1>4. WeightOf(done) = ByWeight(dw, done)
    <2>1. \A a \in done : weightFor(KindOf(a)) \in DefaultScores
        BY WindowFacts
    <2> QED
        BY <1>fin, <2>1, WeightSum
<1> DEFINE n(v) == Count(w, P, v)
           d(v) == Count(dw, done, v)
<1>5. /\ n(10) \in Nat /\ d(10) \in Nat /\ n(10) <= d(10) /\ (All => n(10) = d(10))
      /\ n(15) \in Nat /\ d(15) \in Nat /\ n(15) <= d(15) /\ (All => n(15) = d(15))
      /\ n(100) \in Nat /\ d(100) \in Nat /\ n(100) <= d(100) /\ (All => n(100) = d(100))
    BY <1>2
<1>6. /\ Score(events) = 10 * n(10) + 15 * n(15) + 100 * n(100)
      /\ WeightOf(done) = 10 * d(10) + 15 * d(15) + 100 * d(100)
    BY <1>3, <1>4 DEF ByWeight, HTTPSuspicious, SSHFailedLogin, FeedMatch
<1> HIDE DEF n, d
<1> QED
    BY <1>5, <1>6

-----------------------------------------------------------------------------
(* The window's invariant.                                                 *)

LogOf(a) == host \cap SourcesOf(KindOf(a))

\* What a line or an event says of its attempt.
LinesFit == \A line \in lines : line[1] > since /\ line[2] \in LogOf(line[1])
EventsFit ==
    \A e \in win :
        /\ e.attempt \in (since + 1)..Len(attempts)
        /\ e.source \in LogOf(e.attempt)
        /\ ~e.feed /\ ~misdated => e.time = attempts[e.attempt].at
        /\ e.feed => matched

Past == \A a \in 1..Len(attempts) : attempts[a].at <= now /\ LogOf(a) # {}

\* An attempt's line is still to come, its event is in the window, or it is old.
Reported ==
    ~broken =>
        /\ watched = host
        /\ ~misdated =>
              \A a \in (since + 1)..Len(attempts) : \A s \in LogOf(a) :
                  \/ <<a, s>> \in lines
                  \/ attempts[a].at <= now - Window
                  \/ \E e \in win : ~e.feed /\ e.attempt = a /\ e.source = s

WindowInv ==
    /\ WindowTypeOK
    /\ LinesFit
    /\ EventsFit
    /\ Past
    /\ Reported

\* Which logs carry a kind of event does not depend on when.
LEMMA SourcesStay ==
    ASSUME NEW kind \in Kinds
    PROVE  SourcesOf(kind)' = SourcesOf(kind)
BY DEF Kinds, SourcesOf, Sources, Parsed, parseFail2banLine, parseJournalLine, parseAuthLogLine,
       parseNginxAccessLine, parseUnifiedLogLine

LEMMA LineTime ==
    ASSUME NEW s \in Sources, NEW at \in 0..MaxTime, NEW read
    PROVE  Parsed(s, at, read).time \in {at, at + Year}
BY DEF Sources, Parsed, parseFail2banLine, parseJournalLine, parseAuthLogLine,
       parseNginxAccessLine, parseUnifiedLogLine

LEMMA AttemptsStay ==
    ASSUME WindowTypeOK, host' = host, attempts' = attempts \/ \E kind \in Kinds : Attempt(kind)
    PROVE  /\ Len(attempts') \in Nat /\ Len(attempts) <= Len(attempts')
           /\ \A a \in 1..Len(attempts) :
                 /\ attempts'[a] = attempts[a] /\ KindOf(a)' = KindOf(a)
                 /\ LogOf(a)' = LogOf(a)
<1>1. /\ Len(attempts') \in Nat /\ Len(attempts) <= Len(attempts')
      /\ \A a \in 1..Len(attempts) : attempts'[a] = attempts[a]
    <2>1. CASE attempts' = attempts
        BY <2>1, WindowFacts
    <2>2. CASE \E kind \in Kinds : Attempt(kind)
        <3>1. PICK r \in [kind : Kinds, at : 0..MaxTime] : attempts' = Append(attempts, r)
            BY <2>2 DEF Attempt, WindowTypeOK
        <3>2. attempts \in Seq([kind : Kinds, at : 0..MaxTime])
            BY DEF WindowTypeOK
        <3> QED
            BY <3>1, <3>2, AppendProperties, LenProperties
    <2> QED
        BY <2>1, <2>2
<1>2. \A a \in 1..Len(attempts) : KindOf(a)' = KindOf(a)
    BY <1>1 DEF KindOf
<1>3. \A a \in 1..Len(attempts) : LogOf(a)' = LogOf(a)
    BY <1>2, WindowFacts, SourcesStay DEF LogOf
<1> QED
    BY <1>1, <1>2, <1>3

\* The events of a line.
LEMMA AddedEvents ==
    ASSUME WindowTypeOK, NEW line \in lines, NEW time, NEW e \in Added(line, time)
    PROVE  /\ e.attempt = line[1] /\ e.source = line[2] /\ e.feed \in BOOLEAN
           /\ e.feed => listed /\ e.time = now
           /\ ~e.feed => e.time = time
           /\ e = [attempt |-> line[1], source |-> line[2], feed |-> e.feed, time |-> e.time]
<1> DEFINE event(fed) == [attempt |-> line[1], source |-> line[2], feed |-> fed,
                        time |-> IF fed THEN now ELSE time]
<1>1. PICK fed \in {FALSE} \cup {listed} : e = event(fed)
    BY DEF Added
<1>2. CASE fed = FALSE
    BY <1>1, <1>2
<1>3. CASE fed = listed
    <2>1. listed = TRUE \/ listed = FALSE
        BY DEF WindowTypeOK
    <2>2. CASE listed = TRUE
        BY <1>1, <1>3, <2>2
    <2>3. CASE listed = FALSE
        BY <1>1, <1>3, <2>3
    <2> QED
        BY <2>1, <2>2, <2>3
<1> QED
    BY <1>2, <1>3

LEMMA LineFacts ==
    ASSUME WindowTypeOK, NEW line \in lines
    PROVE  /\ line = <<line[1], line[2]>>
           /\ line[1] \in 1..Len(attempts) /\ line[1] \in 1..MaxAttempts
           /\ line[2] \in watched /\ line[2] \in Sources
           /\ TimeOf(line) \in 0..(MaxTime + Year)
<1>1. line = <<line[1], line[2]>> /\ line[1] \in 1..Len(attempts) /\ line[2] \in watched
    BY DEF WindowTypeOK
<1>2. line[1] \in 1..MaxAttempts /\ line[2] \in Sources
    BY <1>1, WindowFacts, WindowAssumption DEF WindowTypeOK
<1>3. attempts[line[1]].at \in 0..MaxTime /\ MaxTime \in Nat
    BY <1>1, WindowFacts, WindowAssumption
<1>4. TimeOf(line) \in {attempts[line[1]].at, attempts[line[1]].at + Year}
    BY <1>2, <1>3, LineTime DEF TimeOf
<1>5. TimeOf(line) \in 0..(MaxTime + Year)
    BY <1>3, <1>4 DEF Year
<1> QED
    BY <1>1, <1>2, <1>5

LEMMA WindowTypeStep ==
    ASSUME WindowTypeOK, [WindowNext]_windowVars
    PROVE  WindowTypeOK'
<1> USE WindowFacts DEF WindowTypeOK, windowHistory
<1>1. ASSUME NEW s \in Sources, HandleEvent(s) PROVE WindowTypeOK'
    <2>1. PICK line \in lines :
              /\ lines' = lines \ {line}
              /\ win' = Prune(win \cup Added(line, TimeOf(line)))
              /\ flagged' \in {flagged, flagged + 1}
              /\ blocked' \in BOOLEAN
              /\ matched' = (matched \/ listed)
              /\ misdated' = (misdated \/ TimeOf(line) # attempts[line[1]].at)
              /\ UNCHANGED <<now, host, attempts, watched, listed, since, broken, changes>>
        BY <1>1 DEF HandleEvent
    <2>2. win' \subseteq ScoredEvents
        <3>1. ASSUME NEW e \in Added(line, TimeOf(line)) PROVE e \in ScoredEvents
            <4>1. e.time \in 0..(MaxTime + Year)
                <5>1. TimeOf(line) \in 0..(MaxTime + Year) /\ e.time \in {now, TimeOf(line)}
                    BY AddedEvents, LineFacts
                <5>2. now \in 0..MaxTime /\ MaxTime \in Nat
                    BY WindowAssumption
                <5> QED
                    BY <5>1, <5>2 DEF Year
            <4> QED
                <5>1. /\ e = [attempt |-> line[1], source |-> line[2], feed |-> e.feed, time |-> e.time]
                      /\ e.feed \in BOOLEAN
                    BY AddedEvents
                <5>2. line[1] \in 1..MaxAttempts /\ line[2] \in Sources
                    BY LineFacts
                <5> QED
                    BY <4>1, <5>1, <5>2 DEF ScoredEvents
        <3> QED
            BY <2>1, <3>1 DEF Prune
    <2>3. matched' \in BOOLEAN /\ misdated' \in BOOLEAN /\ flagged' \in Nat
        BY <2>1
    <2>4. lines' \subseteq (1..Len(attempts')) \X watched'
        BY <2>1
    <2> QED
        BY <2>1, <2>2, <2>3, <2>4
<1>2. ASSUME NEW s \in Sources, WatchEnds(s) PROVE WindowTypeOK'
    BY <1>2 DEF WatchEnds
<1>3. ASSUME NEW kind \in Kinds, Attempt(kind) PROVE WindowTypeOK'
    <2> DEFINE r == [kind |-> kind, at |-> now]
    <2>1. r \in [kind : Kinds, at : 0..MaxTime]
        OBVIOUS
    <2>2. /\ attempts' = Append(attempts, r)
          /\ Len(attempts) < MaxAttempts /\ MaxAttempts \in Nat
          /\ lines' = lines \cup ({Len(attempts) + 1} \X (watched \cap SourcesOf(kind)))
          /\ UNCHANGED <<now, host, watched, win, listed, blocked, flagged, matched, since,
                         broken, misdated, changes>>
        BY <1>3, WindowAssumption DEF Attempt
    <2>3. /\ attempts' \in Seq([kind : Kinds, at : 0..MaxTime])
          /\ Len(attempts') = Len(attempts) + 1
        BY <2>1, <2>2, AppendProperties
    <2>4. Len(attempts') <= MaxAttempts /\ since' \in 0..Len(attempts')
        BY <2>2, <2>3
    <2>5. lines' \subseteq (1..Len(attempts')) \X watched'
        BY <2>2, <2>3
    <2> QED
        BY <2>2, <2>3, <2>4, <2>5
<1>4. CASE Tick
    BY <1>4, WindowAssumption DEF Tick
<1>5. CASE FeedChanges
    BY <1>5, WindowAssumption DEF FeedChanges
<1>6. CASE Restart
    <2>1. /\ changes' = changes + 1 /\ changes < MaxChanges /\ MaxChanges \in Nat
          /\ watched' = host /\ lines' = {} /\ win' = {} /\ since' = Len(attempts)
          /\ matched' = FALSE /\ broken' = FALSE /\ misdated' = FALSE
          /\ UNCHANGED <<now, host, attempts, listed, blocked, flagged>>
        BY <1>6, WindowAssumption DEF Restart
    <2>2. changes' \in 0..MaxChanges /\ since' \in 0..Len(attempts')
        BY <2>1
    <2> QED
        BY <2>1, <2>2
<1>7. CASE UNCHANGED windowVars
    BY <1>7 DEF windowVars
<1> QED
    BY <1>1, <1>2, <1>3, <1>4, <1>5, <1>6, <1>7 DEF WindowNext

LEMMA HandleEventFits ==
    ASSUME WindowInv, NEW src \in Sources, HandleEvent(src)
    PROVE  LinesFit' /\ EventsFit' /\ Past' /\ Reported'
<1> USE WindowFacts
<1>0. WindowTypeOK /\ LinesFit /\ EventsFit /\ Past /\ Reported
    BY DEF WindowInv
<1>1. PICK line \in lines :
          /\ lines' = lines \ {line}
          /\ win' = Prune(win \cup Added(line, TimeOf(line)))
          /\ matched' = (matched \/ listed)
          /\ misdated' = (misdated \/ TimeOf(line) # attempts[line[1]].at)
          /\ UNCHANGED <<now, host, attempts, watched, since, broken>>
    BY DEF HandleEvent
<1>2. \A a \in 1..Len(attempts) : attempts'[a] = attempts[a] /\ LogOf(a)' = LogOf(a)
    BY <1>0, <1>1, AttemptsStay
<1>3. /\ matched => matched'
      /\ listed => matched'
      /\ ~misdated' => ~misdated /\ TimeOf(line) = attempts[line[1]].at
    BY <1>1
<1>4. /\ line = <<line[1], line[2]>>
      /\ line[1] \in (since + 1)..Len(attempts) /\ line[1] \in 1..Len(attempts)
      /\ line[2] \in LogOf(line[1])
    BY <1>0, LineFacts DEF LinesFit
<1>5. LinesFit'
    BY <1>0, <1>1, <1>2, LineFacts DEF LinesFit
<1>6. Past'
    BY <1>0, <1>1, <1>2 DEF Past
<1>7. EventsFit'
    <2> SUFFICES ASSUME NEW e \in win'
                 PROVE  /\ e.attempt \in (since + 1)..Len(attempts)
                        /\ e.source \in LogOf(e.attempt)
                        /\ ~e.feed /\ ~misdated' => e.time = attempts[e.attempt].at
                        /\ e.feed => matched'
        <3>1. \A a \in (since + 1)..Len(attempts) : a \in 1..Len(attempts)
            BY <1>0
        <3> QED
            BY <1>1, <1>2, <3>1 DEF EventsFit
    <2>1. e \in win \/ e \in Added(line, TimeOf(line))
        BY <1>1 DEF Prune
    <2>2. CASE e \in win
        BY <1>0, <1>3, <2>2 DEF EventsFit
    <2>3. CASE e \in Added(line, TimeOf(line))
        <3>1. /\ e.attempt = line[1] /\ e.source = line[2]
              /\ e.feed => listed
              /\ ~e.feed => e.time = TimeOf(line)
            BY <1>0, <2>3, AddedEvents
        <3> QED
            BY <1>3, <1>4, <3>1
    <2> QED
        BY <2>1, <2>2, <2>3
<1>8. Reported'
    <2>1. ASSUME ~broken, ~misdated', NEW a \in (since + 1)..Len(attempts), NEW s \in LogOf(a)
          PROVE  \/ <<a, s>> \in lines'
                 \/ attempts[a].at <= now - Window
                 \/ \E e \in win' : ~e.feed /\ e.attempt = a /\ e.source = s
        <3>1. a \in 1..Len(attempts) /\ attempts[a].at \in Nat
            BY <1>0
        <3>2. \/ <<a, s>> \in lines
              \/ attempts[a].at <= now - Window
              \/ \E e \in win : ~e.feed /\ e.attempt = a /\ e.source = s
            BY <1>0, <1>3, <2>1 DEF Reported
        <3>3. CASE <<a, s>> = line
            <4> DEFINE n == [attempt |-> line[1], source |-> line[2], feed |-> FALSE,
                             time |-> TimeOf(line)]
            <4>1. n \in Added(line, TimeOf(line))
                BY DEF Added
            <4>2. n.time = attempts[a].at
                BY <1>3, <2>1, <3>3
            <4>3. CASE attempts[a].at > now - Window
                <5>1. n \in win'
                    BY <1>1, <4>1, <4>2, <4>3 DEF Prune
                <5> QED
                    BY <3>3, <5>1
            <4>4. CASE ~(attempts[a].at > now - Window)
                BY <1>0, <3>1, <4>4
            <4> QED
                BY <4>3, <4>4
        <3>4. CASE <<a, s>> \in lines /\ <<a, s>> # line
            BY <1>1, <3>4
        <3>5. ASSUME NEW e \in win, ~e.feed, e.attempt = a, e.source = s
              PROVE  \/ attempts[a].at <= now - Window
                     \/ \E n \in win' : ~n.feed /\ n.attempt = a /\ n.source = s
            <4>1. e.time = attempts[a].at
                BY <1>0, <1>3, <2>1, <3>5 DEF EventsFit
            <4>2. e.time > now - Window => e \in win'
                BY <1>1 DEF Prune
            <4>3. attempts[a].at <= now - Window \/ attempts[a].at > now - Window
                BY <1>0, <3>1
            <4> QED
                BY <3>5, <4>1, <4>2, <4>3
        <3> QED
            BY <3>2, <3>3, <3>4, <3>5
    <2>2. ASSUME ~broken', ~misdated', NEW a \in (since' + 1)..Len(attempts'), NEW s \in LogOf(a)'
          PROVE  \/ <<a, s>> \in lines'
                 \/ attempts'[a].at <= now' - Window
                 \/ \E e \in win' : ~e.feed /\ e.attempt = a /\ e.source = s
        <3>1. a \in (since + 1)..Len(attempts) /\ a \in 1..Len(attempts)
            BY <1>0, <1>1, <2>2
        <3>2. s \in LogOf(a) /\ attempts'[a] = attempts[a]
            BY <1>2, <2>2, <3>1
        <3> QED
            BY <1>1, <2>1, <2>2, <3>1, <3>2
    <2>3. ~broken' => watched' = host'
        BY <1>0, <1>1 DEF Reported
    <2> QED
        BY <2>2, <2>3 DEF Reported
<1> QED
    BY <1>5, <1>6, <1>7, <1>8

LEMMA AttemptFits ==
    ASSUME WindowInv, NEW kind \in Kinds, Attempt(kind)
    PROVE  LinesFit' /\ EventsFit' /\ Past' /\ Reported'
<1> USE WindowFacts
<1>9. PICK n \in Nat : n = Len(attempts) + 1
    BY DEF WindowInv
<1>0. WindowTypeOK /\ LinesFit /\ EventsFit /\ Past /\ Reported
    BY DEF WindowInv
<1>1. /\ host \cap SourcesOf(kind) # {}
      /\ attempts' = Append(attempts, [kind |-> kind, at |-> now])
      /\ lines' = lines \cup ({n} \X (watched \cap SourcesOf(kind)))
      /\ UNCHANGED <<now, host, watched, win, matched, since, broken, misdated>>
    BY <1>9 DEF Attempt
<1>2. /\ \A a \in 1..Len(attempts) : attempts'[a] = attempts[a] /\ LogOf(a)' = LogOf(a)
      /\ \A a \in (since + 1)..Len(attempts) : a \in 1..Len(attempts)
    BY <1>0, <1>1, AttemptsStay
<1>3. /\ Len(attempts') = n /\ attempts'[n] = [kind |-> kind, at |-> now] /\ n > since
      /\ \A a \in 1..n : a \in 1..Len(attempts) \/ a = n
      /\ \A a \in (since + 1)..n : a \in (since + 1)..Len(attempts) \/ a = n
    <2>1. attempts \in Seq([kind : Kinds, at : 0..MaxTime]) /\ [kind |-> kind, at |-> now] \in [kind : Kinds, at : 0..MaxTime]
        BY <1>0 DEF WindowTypeOK
    <2>2. Len(attempts') = n /\ attempts'[n] = [kind |-> kind, at |-> now]
        BY <1>1, <1>9, <2>1, AppendProperties
    <2>3. n > since
        BY <1>0, <1>9 DEF WindowTypeOK
    <2> QED
        BY <1>0, <1>9, <2>2, <2>3
<1>4. KindOf(n)' = kind /\ LogOf(n)' = host \cap SourcesOf(kind)
    <2>1. KindOf(n)' = kind
        BY <1>1, <1>3 DEF KindOf
    <2> QED
        BY <1>1, <2>1, SourcesStay DEF LogOf
<1>5. LinesFit'
    <2> SUFFICES ASSUME NEW line \in lines' PROVE line[1] > since /\ line[2] \in LogOf(line[1])'
        BY <1>1 DEF LinesFit
    <2>1. CASE line \in lines
        BY <1>0, <1>2, <2>1, LineFacts DEF LinesFit
    <2>2. CASE line \notin lines
        <3>1. line[1] = n /\ line[2] \in watched \cap SourcesOf(kind)
            BY <1>1, <2>2
        <3>2. watched \subseteq host
            BY <1>0 DEF WindowTypeOK
        <3> QED
            BY <1>3, <1>4, <3>1, <3>2
    <2> QED
        BY <2>1, <2>2
<1>6. EventsFit'
    <2> SUFFICES ASSUME NEW e \in win
                 PROVE  /\ e.attempt \in (since + 1)..n
                        /\ e.source \in LogOf(e.attempt)'
                        /\ ~e.feed /\ ~misdated => e.time = attempts'[e.attempt].at
                        /\ e.feed => matched
        BY <1>1, <1>3 DEF EventsFit
    <2>1. /\ e.attempt \in (since + 1)..Len(attempts)
          /\ e.source \in LogOf(e.attempt)
          /\ ~e.feed /\ ~misdated => e.time = attempts[e.attempt].at
          /\ e.feed => matched
        BY <1>0 DEF EventsFit
    <2>2. e.attempt \in (since + 1)..n
        BY <1>0, <1>9, <2>1
    <2> QED
        BY <1>2, <2>1, <2>2
<1>7. Past'
    <2> SUFFICES ASSUME NEW a \in 1..n PROVE attempts'[a].at <= now /\ LogOf(a)' # {}
        BY <1>1, <1>3 DEF Past
    <2>1. CASE a \in 1..Len(attempts)
        BY <1>0, <1>2, <2>1 DEF Past
    <2>2. CASE a = n
        BY <1>0, <1>1, <1>3, <1>4, <2>2
    <2> QED
        BY <1>3, <2>1, <2>2
<1>8. Reported'
    <2>1. ASSUME ~broken', ~misdated', NEW a \in (since' + 1)..Len(attempts'), NEW s \in LogOf(a)'
          PROVE  \/ <<a, s>> \in lines'
                 \/ attempts'[a].at <= now' - Window
                 \/ \E e \in win' : ~e.feed /\ e.attempt = a /\ e.source = s
        <3>1. a \in (since + 1)..Len(attempts) \/ a = n
            <4>1. a \in (since + 1)..n
                BY <1>1, <1>3, <2>1
            <4> QED
                BY <1>3, <4>1
        <3>2. CASE a \in (since + 1)..Len(attempts)
            <4>1. s \in LogOf(a) /\ attempts'[a] = attempts[a]
                BY <1>2, <2>1, <3>2
            <4>2. \/ <<a, s>> \in lines
                  \/ attempts[a].at <= now - Window
                  \/ \E e \in win : ~e.feed /\ e.attempt = a /\ e.source = s
                BY <1>0, <1>1, <2>1, <3>2, <4>1 DEF Reported
            <4> QED
                BY <1>1, <4>1, <4>2
        <3>3. CASE a = n
            BY <1>0, <1>1, <1>4, <2>1, <3>3 DEF Reported
        <3> QED
            BY <3>1, <3>2, <3>3
    <2>2. ~broken' => watched' = host'
        BY <1>0, <1>1 DEF Reported
    <2> QED
        BY <2>1, <2>2 DEF Reported
<1> QED
    BY <1>5, <1>6, <1>7, <1>8

LEMMA WindowStep == WindowInv /\ [WindowNext]_windowVars => WindowInv'
<1> SUFFICES ASSUME WindowInv, [WindowNext]_windowVars PROVE WindowInv'
    OBVIOUS
<1> USE WindowFacts
<1>0. WindowTypeOK /\ LinesFit /\ EventsFit /\ Past /\ Reported
    BY DEF WindowInv
<1>1. WindowTypeOK'
    BY <1>0, WindowTypeStep
<1>2. ASSUME UNCHANGED <<host, attempts>>
      PROVE  /\ \A a \in 1..Len(attempts) : attempts'[a] = attempts[a] /\ LogOf(a)' = LogOf(a)
             /\ \A a \in (since + 1)..Len(attempts) : a \in 1..Len(attempts)
    BY <1>0, <1>2, AttemptsStay
<1>3. CASE \E s \in Sources : HandleEvent(s)
    BY <1>1, <1>3, HandleEventFits DEF WindowInv
<1>4. CASE \E kind \in Kinds : Attempt(kind)
    BY <1>1, <1>4, AttemptFits DEF WindowInv
<1>5. CASE \E s \in Sources : WatchEnds(s)
    <2>1. /\ lines' \subseteq lines /\ broken' = TRUE
          /\ UNCHANGED <<now, host, win, attempts, matched, since, misdated>>
        BY <1>5 DEF WatchEnds
    <2>2. LinesFit' /\ Reported'
        BY <1>0, <1>2, <2>1, LineFacts DEF LinesFit, Reported
    <2>3. EventsFit' /\ Past'
        BY <1>0, <1>2, <2>1 DEF EventsFit, Past
    <2> QED
        BY <1>1, <2>2, <2>3 DEF WindowInv
<1>6. CASE Tick
    <2>1. /\ now' = now + 1
          /\ UNCHANGED <<host, watched, lines, win, attempts, matched, since, broken, misdated>>
        BY <1>6 DEF Tick, windowHistory
    <2>2. LinesFit' /\ EventsFit'
        BY <1>0, <1>2, <2>1, LineFacts DEF LinesFit, EventsFit
    <2>3. ASSUME NEW a \in 1..Len(attempts)
          PROVE  /\ attempts[a].at <= now => attempts[a].at <= now'
                 /\ attempts[a].at <= now - Window => attempts[a].at <= now' - Window
        BY <1>0, <2>1
    <2>4. Past'
        BY <1>0, <1>2, <2>1, <2>3 DEF Past
    <2>5. Reported'
        BY <1>0, <1>2, <2>1, <2>3 DEF Reported
    <2> QED
        BY <1>1, <2>2, <2>4, <2>5 DEF WindowInv
<1>7. CASE Restart
    <2>1. /\ watched' = host /\ lines' = {} /\ win' = {} /\ since' = Len(attempts)
          /\ UNCHANGED <<now, host, attempts>>
        BY <1>7 DEF Restart
    <2>2. LinesFit' /\ EventsFit' /\ Past'
        BY <1>0, <1>2, <2>1 DEF LinesFit, EventsFit, Past
    <2>3. Reported'
        <3>1. (since' + 1)..Len(attempts') = {}
            BY <1>0, <2>1
        <3> QED
            BY <2>1, <3>1 DEF Reported
    <2> QED
        BY <1>1, <2>2, <2>3 DEF WindowInv
<1>8. CASE FeedChanges \/ UNCHANGED windowVars
    <2>1. UNCHANGED <<now, host, attempts, watched, lines, win, matched, since, broken, misdated>>
        BY <1>8 DEF FeedChanges, windowHistory, windowVars
    <2>2. LinesFit' /\ EventsFit' /\ Past' /\ Reported'
        BY <1>0, <1>2, <2>1, LineFacts DEF LinesFit, EventsFit, Past, Reported
    <2> QED
        BY <1>1, <2>2 DEF WindowInv
<1> QED
    BY <1>3, <1>4, <1>5, <1>6, <1>7, <1>8 DEF WindowNext

LEMMA WindowStart == WindowInit => WindowInv
<1> SUFFICES ASSUME WindowInit PROVE WindowInv
    OBVIOUS
<1> USE DEF WindowInit
<1>1. WindowTypeOK
    <2>1. host \in SUBSET Sources /\ MaxTime \in Nat /\ MaxAttempts \in Nat /\ MaxChanges \in Nat
        BY WindowAssumption
    <2>2. attempts \in Seq([kind : Kinds, at : 0..MaxTime]) /\ Len(attempts) = 0
        BY EmptySeq
    <2>3. now \in 0..MaxTime /\ changes \in 0..MaxChanges /\ since \in 0..Len(attempts)
        BY <2>1, <2>2
    <2>4. Len(attempts) <= MaxAttempts
        BY <2>1, <2>2
    <2>5. /\ watched \subseteq host /\ lines \subseteq (1..Len(attempts)) \X watched
          /\ win \subseteq ScoredEvents /\ host \in SUBSET Sources
        BY <2>1
    <2>6. /\ listed \in BOOLEAN /\ blocked \in BOOLEAN /\ flagged \in Nat
          /\ matched \in BOOLEAN /\ broken \in BOOLEAN /\ misdated \in BOOLEAN
        OBVIOUS
    <2> HIDE DEF WindowInit
    <2> QED
        BY <2>2, <2>3, <2>4, <2>5, <2>6 DEF WindowTypeOK
<1>2. LinesFit /\ EventsFit
    BY DEF LinesFit, EventsFit
<1>3. 1..Len(attempts) = {} /\ (since + 1)..Len(attempts) = {}
    BY EmptySeq
<1>4. Past /\ Reported
    BY <1>3 DEF Past, Reported
<1> QED
    BY <1>1, <1>2, <1>4 DEF WindowInv

LEMMA WindowInvariant == WindowSpec => []WindowInv
BY WindowStart, WindowStep, PTL DEF WindowSpec

\* The state of the window is well typed in every reachable state: a line that
\* is still to come is of an attempt that was made and of a source that is
\* watched, and an event in the window is one of a watched source or its feed
\* match, at a time the parsers can give it.
THEOREM WindowTypeCorrect == WindowSpec => []WindowTypeOK
<1>1. WindowInv => WindowTypeOK
    BY DEF WindowInv
<1> QED
    BY <1>1, WindowInvariant, PTL

-----------------------------------------------------------------------------
(* The scores.                                                             *)

\* On a host with one log per kind, an attempt has one source.
LEMMA OneSource ==
    ASSUME WindowTypeOK, OneSourceEach, NEW a \in 1..Len(attempts),
           NEW s \in LogOf(a), NEW t \in LogOf(a)
    PROVE  s = t
<1>1. IsFiniteSet(Sources)
    <2>1. /\ IsFiniteSet({"fail2ban"}) /\ IsFiniteSet({"journal"}) /\ IsFiniteSet({"auth.log"})
          /\ IsFiniteSet({"nginx"}) /\ IsFiniteSet({"unified log"})
        BY FS_Singleton
    <2>2. IsFiniteSet({"fail2ban"} \cup {"journal"})
        BY <2>1, FS_Union
    <2>3. IsFiniteSet({"auth.log"} \cup {"nginx"})
        BY <2>1, FS_Union
    <2>4. IsFiniteSet(({"fail2ban"} \cup {"journal"}) \cup ({"auth.log"} \cup {"nginx"}))
        BY <2>2, <2>3, FS_Union
    <2>5. IsFiniteSet((({"fail2ban"} \cup {"journal"}) \cup ({"auth.log"} \cup {"nginx"}))
                          \cup {"unified log"})
        BY <2>1, <2>4, FS_Union
    <2>6. Sources = (({"fail2ban"} \cup {"journal"}) \cup ({"auth.log"} \cup {"nginx"}))
                        \cup {"unified log"}
        BY DEF Sources
    <2> QED
        BY <2>5, <2>6
<1>2. LogOf(a) \in SUBSET Sources
    BY DEF LogOf, WindowTypeOK
<1>3. IsFiniteSet(LogOf(a))
    BY <1>1, <1>2, FS_Subset
<1>4. Cardinality(LogOf(a)) <= 1
    BY WindowFacts DEF OneSourceEach, LogOf
<1>5. Cardinality(LogOf(a)) \in Nat
    BY <1>3, FS_CardinalityType
<1>6. Cardinality(LogOf(a)) # 0
    BY <1>3, FS_EmptySet
<1>7. Cardinality(LogOf(a)) = 1
    BY <1>4, <1>5, <1>6
<1>8. PICK x : LogOf(a) = {x}
    BY <1>3, <1>7, FS_Singleton
<1> QED
    BY <1>8

\* So the events of such a host are told apart by their attempts, and those that
\* outlive pruning are of recent ones.
LEMMA EventsOfAttempts ==
    ASSUME WindowTypeOK, OneSourceEach, NEW events,
           \A e \in Prune(events) :
               /\ e \in ScoredEvents /\ ~e.feed
               /\ e.attempt \in (since + 1)..Len(attempts)
               /\ e.source \in LogOf(e.attempt)
               /\ e.time = attempts[e.attempt].at
    PROVE  /\ \A e \in Prune(events) : ~e.feed /\ e.attempt \in Recent
           /\ \A d, e \in Prune(events) : d.attempt = e.attempt => d = e
<1>1. \A e \in Prune(events) : e.time > now - Window
    BY DEF Prune
<1>2. ASSUME NEW d \in Prune(events), NEW e \in Prune(events), d.attempt = e.attempt
      PROVE  d = e
    <2>1. d.attempt \in 1..Len(attempts)
        BY WindowFacts
    <2>2. d.source = e.source /\ d.time = e.time /\ d.feed = e.feed
        <3>1. d.source = e.source
            BY <1>2, <2>1, OneSource
        <3>2. d.feed \in BOOLEAN /\ e.feed \in BOOLEAN
            BY DEF ScoredEvents
        <3> QED
            BY <1>2, <3>1, <3>2
    <2>3. /\ d = [attempt |-> d.attempt, source |-> d.source, feed |-> d.feed, time |-> d.time]
          /\ e = [attempt |-> e.attempt, source |-> e.source, feed |-> e.feed, time |-> e.time]
        BY DEF ScoredEvents
    <2> QED
        BY <1>2, <2>2, <2>3
<1> QED
    BY <1>1, <1>2 DEF Recent

\* Whatever the order and delay in which the sources report and whatever was
\* pruned when: on a host with one log per kind, once everything is reported the
\* decaying part of the score is the weight of the address's ssh and nginx
\* attempts within the window.
THEOREM ScoreDeserved == WindowSpec => []ScoreIsDeserved
<1>1. ASSUME WindowInv PROVE ScoreIsDeserved
    <2>0. WindowTypeOK /\ EventsFit /\ Past /\ Reported
        BY <1>1 DEF WindowInv
    <2>1. SUFFICES ASSUME OneSourceEach, lines = {}, ~broken, ~misdated
                   PROVE  Score(DecayingEvents) = WeightOf(RecentDecaying)
        BY <2>0 DEF ScoreIsDeserved
    <2>2. \A e \in DecayingEvents :
              /\ e \in win /\ e \in ScoredEvents /\ ~e.feed
              /\ e.attempt \in (since + 1)..Len(attempts)
              /\ e.source \in LogOf(e.attempt)
              /\ e.time = attempts[e.attempt].at
        BY <2>0, <2>1 DEF DecayingEvents, EventsFit, WindowTypeOK
    <2>3. Prune(DecayingEvents) \subseteq DecayingEvents
        BY DEF Prune
    <2>4. /\ \A e \in Prune(DecayingEvents) : ~e.feed /\ e.attempt \in RecentDecaying
          /\ \A d, e \in Prune(DecayingEvents) : d.attempt = e.attempt => d = e
        <3>1. /\ \A e \in Prune(DecayingEvents) : ~e.feed /\ e.attempt \in Recent
              /\ \A d, e \in Prune(DecayingEvents) : d.attempt = e.attempt => d = e
            BY <2>0, <2>1, <2>2, <2>3, EventsOfAttempts
        <3> QED
            BY <2>3, <3>1 DEF DecayingEvents, RecentDecaying
    <2>5. ASSUME NEW a \in RecentDecaying PROVE \E e \in Prune(DecayingEvents) : e.attempt = a
        <3>1. /\ a \in (since + 1)..Len(attempts) /\ a \in 1..Len(attempts)
              /\ attempts[a].at > now - Window /\ attempts[a].at \in Nat
              /\ Decays(KindOf(a))
            BY <2>0, WindowFacts DEF Recent, RecentDecaying
        <3>2. PICK s : s \in LogOf(a)
            BY <2>0, <3>1 DEF Past
        <3>3. ~(attempts[a].at <= now - Window)
            BY <2>0, <3>1, WindowFacts
        <3>4. PICK e \in win : ~e.feed /\ e.attempt = a
            BY <2>0, <2>1, <3>1, <3>2, <3>3 DEF Reported
        <3>5. e \in DecayingEvents /\ e.time > now - Window
            BY <2>2, <3>1, <3>4 DEF DecayingEvents
        <3> QED
            BY <3>4, <3>5 DEF Prune
    <2>6. RecentDecaying \subseteq Recent
        BY DEF RecentDecaying
    <2> QED
        BY <2>0, <2>4, <2>5, <2>6, ScoreOfAttempts
<1> QED
    BY <1>1, WindowInvariant, PTL

\* handleEvent flags no address, on a host with one log per kind, that did not
\* do enough within the window, unless it matched a feed or a line was misdated:
\* no event of before the window, and none counted twice, takes it there.
THEOREM FlagsDeserved == WindowSpec => FlagsAreDeserved
<1>1. ASSUME WindowInv, [WindowNext]_windowVars, flagged' > flagged, OneSourceEach, ~misdated', ~matched'
      PROVE  Deserved >= DefaultThreshold
    <2>0. WindowTypeOK /\ LinesFit /\ EventsFit
        BY <1>1 DEF WindowInv
    <2>1. PICK src \in Sources : HandleEvent(src)
        <3>1. ~(flagged' = flagged)
            BY <1>1, <2>0 DEF WindowTypeOK
        <3> QED
            BY <1>1, <3>1 DEF WindowNext, WatchEnds, Attempt, Tick, FeedChanges, Restart,
                              windowVars, windowHistory
    <2>2. PICK line \in lines :
              /\ BlockEligible(Prune(win \cup Added(line, TimeOf(line)))) \/ flagged' = flagged
              /\ matched' = (matched \/ listed)
              /\ misdated' = (misdated \/ TimeOf(line) # attempts[line[1]].at)
              /\ win' = Prune(win \cup Added(line, TimeOf(line)))
        BY <2>1 DEF HandleEvent
    <2> DEFINE grown == Prune(win \cup Added(line, TimeOf(line)))
    <2>3. ~matched /\ ~listed /\ ~misdated /\ TimeOf(line) = attempts[line[1]].at
        BY <1>1, <2>2
    <2>4. ASSUME NEW e \in grown
          PROVE  /\ e \in ScoredEvents /\ ~e.feed
                 /\ e.attempt \in (since + 1)..Len(attempts)
                 /\ e.source \in LogOf(e.attempt)
                 /\ e.time = attempts[e.attempt].at
        <3>1. CASE e \in win
            BY <2>0, <2>3, <3>1 DEF EventsFit, WindowTypeOK
        <3>2. CASE e \in Added(line, TimeOf(line))
            <4>1. /\ e.attempt = line[1] /\ e.source = line[2] /\ ~e.feed
                  /\ e.time = TimeOf(line)
                BY <2>0, <2>3, <3>2, AddedEvents
            <4>2. line[1] \in (since + 1)..Len(attempts) /\ line[2] \in LogOf(line[1])
                BY <2>0, LineFacts, WindowFacts DEF LinesFit
            <4>3. WindowTypeOK'
                BY <1>1, <2>0, WindowTypeStep
            <4>4. e \in ScoredEvents
                BY <2>2, <4>3 DEF WindowTypeOK, ScoredEvents
            <4> QED
                BY <2>3, <4>1, <4>2, <4>4
        <3> QED
            BY <3>1, <3>2 DEF Prune
    <2>5. Prune(grown) \subseteq grown
        BY DEF Prune
    <2>6. /\ \A e \in Prune(grown) : ~e.feed /\ e.attempt \in Recent
          /\ \A d, e \in Prune(grown) : d.attempt = e.attempt => d = e
        BY <1>1, <2>0, <2>4, <2>5, EventsOfAttempts
    <2>7. Score(grown) \in Nat /\ Deserved \in Nat /\ Score(grown) <= Deserved
        BY <2>0, <2>6, ScoreOfAttempts DEF Deserved
    <2>8. Score(grown) >= DefaultThreshold
        BY <1>1, <2>0, <2>2 DEF BlockEligible, WindowTypeOK
    <2> QED
        BY <2>7, <2>8 DEF DefaultThreshold
<1>2. WindowInv /\ [WindowNext]_windowVars =>
          [flagged' > flagged /\ OneSourceEach /\ ~misdated' =>
              matched' \/ Deserved >= DefaultThreshold]_windowVars
    BY <1>1
<1> QED
    BY <1>2, WindowInvariant, PTL DEF WindowSpec, FlagsAreDeserved
=============================================================================
