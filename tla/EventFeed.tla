------------------------------ MODULE EventFeed ------------------------------
(* What a run's progress stream promises whoever watches it: events are     *)
(* numbered by storing them, a watcher is told of stored events only, and   *)
(* of each at most once.  EventDelivery implements it.                      *)
EXTENDS Naturals, Sequences, Functions

VARIABLES
    stored,     \* the events of the run, numbered 1..stored
    told        \* the numbers the watcher was told, in the order it was told

vars == <<stored, told>>

Init ==
    /\ stored = 0
    /\ told = <<>>

Store ==
    /\ stored' = stored + 1
    /\ UNCHANGED told

Tell ==
    /\ \E n \in (1 .. stored) \ Range(told) : told' = Append(told, n)
    /\ UNCHANGED stored

Next == Store \/ Tell

Spec == Init /\ [][Next]_vars
=============================================================================
