------------------------------ MODULE MCReview ------------------------------
(* A model-checking instance of Review. *)
EXTENDS Review

Claim(kind, subject, text, cites) ==
  [kind |-> kind, subject |-> subject, text |-> text, cites |-> cites]

Good   == Claim("finding_candidate", "in_scope", "t1", {1})
Other  == Claim("finding_candidate", "in_scope", "t2", {1})
Second == Claim("finding_candidate", "in_scope", "t1", {2})
Beyond == Claim("finding_candidate", "out_of_scope", "t1", {1})
Remark == Claim("observation", "in_scope", "t1", {1})

(* One artifact is there from the start, one is in the legacy folder. *)
MCLegacy == [path \in {"a2"} |-> "x"]

Content(status, claims) == [status |-> status, claims |-> claims]

(* One candidate; the same, reworded; the same, failed; two candidates;    *)
(* a candidate that cannot be promoted, beside a remark.                   *)
MCContents ==
  { Content("completed", [c1 |-> Good]),
    Content("completed", [c1 |-> Other]),
    Content("failed", [c1 |-> Good]),
    Content("partial", [c1 |-> Good, c2 |-> Second]),
    Content("completed", [c1 |-> Beyond, c2 |-> Remark]) }
=============================================================================
