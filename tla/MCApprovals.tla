---------------------------- MODULE MCApprovals ----------------------------
(* Model-checking instances of Approvals. *)
EXTENDS Approvals

MCActions == {"target_enumeration", "intrusive_validation"}

(* duration_minutes: the expiry is a whole number of seconds. *)
WholeSeconds == {0}

(* --expires-at takes any ISO-8601 time. *)
AnyExpiry == {0, 1}
=============================================================================
