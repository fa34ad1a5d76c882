------------------------------- MODULE Policy -------------------------------
(***************************************************************************)
(* The action policy: the classes of action types, the workflow states     *)
(* each class may run in, and when an action on a candidate is allowed.    *)
(* Pure definitions; the registry that records the approvals is Approvals, *)
(* the loop that acts on decisions is Orchestrator.                        *)
(***************************************************************************)
EXTENDS Lifecycle

LocalActions     == {"local_analysis"}
PassiveActions   == {"public_source_lookup"}
ActiveActions    == {"target_read_only_request", "target_enumeration"}
IntrusiveActions == {"intrusive_validation"}
ProhibitedActions ==
  { "credential_abuse", "destructive_validation", "persistence", "malware",
    "evasion", "uncontrolled_exploitation" }

Approvable == ActiveActions \cup IntrusiveActions
ActionTypes == LocalActions \cup PassiveActions \cup Approvable \cup ProhibitedActions

(* The candidate of an action that names none. *)
NoCandidate == "none"

(* The candidate an approval of the whole scope records.  Only active      *)
(* actions may be approved scope-wide.                                     *)
ScopeWide == "*"
AllApprovable       == Approvable                     \* defect: intrusive too
ScopeWideApprovable == ActiveActions

AllowedStates(action) ==
  CASE action \in LocalActions     -> States
    [] action \in PassiveActions   -> {"scoped", "collecting", "analyzing", "reporting"}
    [] action \in ActiveActions    -> {"scoped", "collecting", "analyzing"}
    [] action \in IntrusiveActions -> {"collecting", "analyzing"}
    [] OTHER                       -> {}

(* Some live approval covers the action: the exact one, or one for the     *)
(* whole scope.  `live` holds <<action, candidate>> pairs.                 *)
Covered(action, candidate, live) ==
  <<action, candidate>> \in live \/ <<action, ScopeWide>> \in live

(* evaluate_action decides "allow". *)
Allowed(action, candidate, state, inScope, live) ==
  /\ action \notin ProhibitedActions
  /\ state \in AllowedStates(action)
  /\ candidate = NoCandidate => action \in LocalActions
  /\ candidate # NoCandidate => candidate \in inScope
  /\ action \in Approvable => Covered(action, candidate, live)
=============================================================================
