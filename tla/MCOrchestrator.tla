--------------------------- MODULE MCOrchestrator ---------------------------
(* Model-checking instances of Orchestrator. *)
EXTENDS Orchestrator

Hop(action, candidate) == [skill |-> "route", action |-> action, candidate |-> candidate]
Rec(action, candidate) == [action |-> action, candidate |-> candidate]

MCSkills     == {"route"}
MCCandidates == {"host", "other"}
MCInScope    == {"host"}
MCGrantable  == { <<"target_enumeration", "*">>, <<"intrusive_validation", "host">> }

(* One state of each kind the policy tells apart: everything may run, passive *)
(* and local actions only, local actions only.                                *)
MCStages == {"analyzing", "reporting", "completed"}

MCSeeds == { << >>, << Hop("target_enumeration", "host") >> }

(* A hop and its fallback recommend the hop again: results go round in a     *)
(* circle.                                                                   *)
MCRecs == { << >>,
            << Rec("intrusive_validation", "host"), Rec("target_enumeration", "other"),
               Rec("target_enumeration", "host"), Rec("local_analysis", "none") >> }

MCOthers == { Hop("public_source_lookup", "host") }

MCCaps == [a \in RequestActions |-> IF a = "local_analysis" THEN 1 ELSE 2]
=============================================================================
