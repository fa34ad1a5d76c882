------------------------------ MODULE Workflow ------------------------------
(***************************************************************************)
(* What a run's workflow promises, whatever records it: it begins          *)
(* initialized and moves one allowed transition at a time.                 *)
(***************************************************************************)
EXTENDS Lifecycle

VARIABLE state

Init == state = InitialState

Move == state' \in AllowedTransitions[state]

Spec == Init /\ [][Move]_state
=============================================================================
