------------------------------- MODULE Outbox -------------------------------
(***************************************************************************)
(* What the agent's upload queue promises, without the queue: no memory,   *)
(* no file, no requests, no crashes.  Observations are numbered in the     *)
(* order they are recorded.  A recorded observation is kept until it has   *)
(* been delivered at least once, or until Capacity newer ones have been    *)
(* recorded; and deliveries leave no gap behind them.                      *)
(***************************************************************************)
EXTENDS Naturals

CONSTANT Capacity    \* how many observations may wait

VARIABLES
    recorded,        \* how many observations have been recorded
    kept,            \* those the recorder was told are safe
    delivered,       \* those the server holds
    forgotten        \* those given up because Capacity newer ones came

vars == <<recorded, kept, delivered, forgotten>>

Init ==
    /\ recorded = 0
    /\ kept = {}
    /\ delivered = {}
    /\ forgotten = {}

\* The next observation is recorded, safely or with an error to the recorder;
\* observations that Capacity newer ones have overtaken may be given up.
Record ==
    /\ recorded' = recorded + 1
    /\ kept' \in {kept, kept \cup {recorded'}}
    /\ forgotten \subseteq forgotten'
    /\ \A o \in forgotten' \ forgotten : o \in 1..recorded' /\ o + Capacity <= recorded'
    /\ UNCHANGED delivered

\* The server stores some recorded observations; every older safe one is
\* delivered with them, was delivered before, or has been given up.
Deliver ==
    \E S \in SUBSET (1..recorded) :
        /\ delivered' = delivered \cup S
        /\ \A o \in S, p \in kept : p < o => p \in delivered' \cup forgotten
        /\ UNCHANGED <<recorded, kept, forgotten>>

Next == Record \/ Deliver

Spec == Init /\ [][Next]_vars
=============================================================================
