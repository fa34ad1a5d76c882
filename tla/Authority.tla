----------------------------- MODULE Authority -----------------------------
(***************************************************************************)
(* What the approvals of a run promise, whatever records them: for every   *)
(* kind of action on a candidate there is at most one standing             *)
(* authorization, it ends by itself within MaxLifetime, it is extended     *)
(* only by a new decision once the old one has ended, and it can be taken  *)
(* back at any moment.                                                     *)
(*                                                                         *)
(* The record of a decision may be damaged: then nothing is authorized,    *)
(* until the record is mended.  That takes back the last decision that     *)
(* was made while the one before it was settled, and no more than that:    *)
(* an authorization, or a withdrawal.                                      *)
(***************************************************************************)
EXTENDS Naturals

CONSTANTS Keys, MaxLifetime

VARIABLES
  now,
  expiry,    \* expiry[k] = 0: nothing is authorized for k
  settled    \* the same, by the decisions no damage takes back

vars == <<now, expiry, settled>>

Nothing == [k \in Keys |-> 0]

Init ==
  /\ now = 0
  /\ expiry = Nothing
  /\ settled = Nothing

(* A decision may be left unsettled; then there is none after it. *)
Decide(new) ==
  /\ settled = expiry
  /\ expiry' = new
  /\ settled' \in {settled, new}
  /\ UNCHANGED now

Authorize(k) ==
  /\ expiry[k] = 0
  /\ \E end \in now + 1 .. now + MaxLifetime : Decide([expiry EXCEPT ![k] = end])

Withdraw(k) == Decide([expiry EXCEPT ![k] = 0])

(* The record is damaged, maybe beyond repair. *)
Damage ==
  /\ expiry' = Nothing
  /\ settled' \in {settled, Nothing}
  /\ UNCHANGED now

Mend ==
  /\ expiry = Nothing
  /\ expiry' = settled
  /\ UNCHANGED <<now, settled>>

Remaining(old, t) == [k \in Keys |-> IF old[k] <= t THEN 0 ELSE old[k]]

Elapse ==
  /\ now' = now + 1
  /\ expiry' = Remaining(expiry, now')
  /\ settled' = Remaining(settled, now')

Next ==
  \/ \E k \in Keys : Authorize(k) \/ Withdraw(k)
  \/ Damage \/ Mend
  \/ Elapse

Spec == Init /\ [][Next]_vars
=============================================================================
