---------------------------- MODULE MCRunState ----------------------------
(* Model-checking instances of RunState. *)
EXTENDS RunState

(* The web handler normalises: null, or text that is not blank. *)
WebReasons == {"null", "text"}

(* `outrider state transition --reason R` passes R unchanged. *)
CliReasons == Reasons
=============================================================================
