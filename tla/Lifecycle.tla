----------------------------- MODULE Lifecycle -----------------------------
(***************************************************************************)
(* The workflow lifecycle of a run: its states, the table of allowed       *)
(* transitions and the reasons a transition must carry.  Pure definitions, *)
(* shared by the ledger that records transitions (RunState), the action    *)
(* policy (Policy) and the components that move between states.            *)
(***************************************************************************)

InitialState == "initialized"

(* The transition table; its domain is the set of workflow states. *)
AllowedTransitions ==
  [ initialized |-> {"scoped", "cancelled"},
    scoped      |-> {"collecting", "cancelled"},
    collecting  |-> {"analyzing", "cancelled"},
    analyzing   |-> {"collecting", "reporting", "cancelled"},
    reporting   |-> {"analyzing", "completed", "cancelled"},
    completed   |-> {"archived"},
    cancelled   |-> {"archived"},
    archived    |-> {} ]

States == { "initialized", "scoped", "collecting", "analyzing",
            "reporting", "completed", "cancelled", "archived" }

(* A reason is absent, the empty string, white space, or text. *)
Reasons == {"null", "empty", "blank", "text"}

ReasonRequired == { <<"analyzing", "collecting">>, <<"reporting", "analyzing">> }

NeedsReason(previous, new) ==
  new = "cancelled" \/ <<previous, new>> \in ReasonRequired

(* The writer's test, `not reason`: only None and "" are falsy. *)
AnyReason(reason)   == TRUE                           \* defect: not tested
GivesReason(reason) == reason \notin {"null", "empty"}

(* The reader's test: None, or a string that is not blank. *)
LoadableReason(reason) == reason \notin {"empty", "blank"}

AnyTransition(previous, new, reason) ==               \* defect: no table
  previous \in States /\ new \in States /\ GivesReason(reason)

ValidTransition(previous, new, reason) ==
  /\ previous \in States
  /\ new \in AllowedTransitions[previous]
  /\ NeedsReason(previous, new) => GivesReason(reason)
=============================================================================
