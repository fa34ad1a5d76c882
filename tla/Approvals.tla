----------------------------- MODULE Approvals -----------------------------
(***************************************************************************)
(* The approval registry of a run, approvals.jsonl: an append-only stream  *)
(* of grants and revocations, reloaded and validated by every operation.   *)
(* Time is counted in the units timestamps are stored in (seconds); what   *)
(* is finer is the `fraction` of a requested expiry, which the writer's    *)
(* check sees and iso() then cuts off.  The workflow state and the scope   *)
(* are the environment of the registry: they move under it at any time.    *)
(*                                                                         *)
(* There is one writer at a time, as in RunState, and it may die in an     *)
(* append: what is left is mended by outrider repair, which drops the      *)
(* lines at the end that are not JSON.                                     *)
(*                                                                         *)
(* A grant is named by its sequence number instead of a fresh UUID: one    *)
(* that a repair drops leaves its name to a later one.                     *)
(***************************************************************************)
EXTENDS Policy, Naturals, Sequences, FiniteSetsExt

CONSTANTS
  Candidates,    \* normalised candidates
  GrantActions,  \* the action types approvals are requested for
  Fractions,     \* sub-second parts of a requested expiry: 0, or not 0
  MaxLifetime,   \* longest lifetime of a grant
  MaxTime,       \* bound on the clock
  MaxEvents      \* bound on the length of the registry

ASSUME CandidatesAssumption ==
  NoCandidate \notin Candidates /\ ScopeWide \notin Candidates
ASSUME ActionsAssumption    == GrantActions \subseteq ActionTypes
ASSUME FractionsAssumption  == Fractions \subseteq {0, 1}
ASSUME LifetimeAssumption   == MaxLifetime \in Nat \ {0}
ASSUME BoundsAssumption     == MaxTime \in Nat /\ MaxEvents \in Nat

VARIABLES
  registry,   \* the lines of approvals.jsonl
  ended,      \* the last of them has its line end
  now,        \* utc_now_dt()
  state,      \* the workflow state load_state derives
  scope,      \* the candidates scope.yaml allows
  \* History, read by the properties only:
  withdrawn   \* the grants whose revocation was reported done

vars == <<registry, ended, now, state, scope, withdrawn>>

GrantCandidates == Candidates \cup {ScopeWide}

Granted(g, action, candidate, occurred, expires) ==
  [ type |-> "approval_granted", grant |-> g, action |-> action,
    candidate |-> candidate, occurred |-> occurred, expires |-> expires ]

(* A revocation names the grant and nothing else of it. *)
RevokedEvent(g, occurred) ==
  [ type |-> "approval_revoked", grant |-> g, action |-> "none",
    candidate |-> NoCandidate, occurred |-> occurred, expires |-> 0 ]

(* A line that is not JSON: a part of a record, or two on one line. *)
Torn ==
  [ type |-> "torn", grant |-> 0, action |-> "none", candidate |-> NoCandidate,
    occurred |-> 0, expires |-> 0 ]

IsGrant(r, i) == r[i].type = "approval_granted"

RevokedBefore(r, g, i) ==
  \E j \in 1..i - 1 : r[j].type = "approval_revoked" /\ r[j].grant = g

(* _parse: line i of registry r is accepted after the lines before it. *)
Parses(r, i) ==
  LET e == r[i] IN
  \/ /\ IsGrant(r, i)
     /\ e.candidate = ScopeWide => e.action \in ScopeWideApprovable
     /\ e.expires > e.occurred
     /\ e.expires <= e.occurred + MaxLifetime
  \/ /\ e.type = "approval_revoked"
     /\ e.grant \in 1..i - 1
     /\ IsGrant(r, e.grant)
     /\ ~RevokedBefore(r, e.grant, i)
     /\ r[e.grant].expires > e.occurred

(* load_approval_registry succeeds. *)
Loads(r) == \A i \in 1..Len(r) : Parses(r, i)

RegistryLoads == Loads(registry)

(* _status: the grant at line g of r is "active" at time t. *)
IsUnexpired(r, g, t) ==                               \* defect: revoked or not
  IsGrant(r, g) /\ t < r[g].expires

IsActive(r, g, t) ==
  /\ IsGrant(r, g)
  /\ ~RevokedBefore(r, g, Len(r) + 1)
  /\ t < r[g].expires

ActiveIn(r, t) == {g \in 1..Len(r) : IsActive(r, g, t)}

KeyIn(r, g) == <<r[g].action, r[g].candidate>>

LiveIn(r, t) == {KeyIn(r, g) : g \in ActiveIn(r, t)}

ActiveGrants == ActiveIn(registry, now)
Key(g)       == KeyIn(registry, g)
Live         == LiveIn(registry, now)

(* evaluate_action decides "allow": any registry that does not load denies. *)
Authorised(action, candidate) ==
  RegistryLoads /\ Allowed(action, candidate, state, scope, Live)

-----------------------------------------------------------------------------
Init ==
  /\ registry = << >>
  /\ ended = TRUE
  /\ now = 0
  /\ state = InitialState
  /\ scope \in SUBSET Candidates
  /\ withdrawn = {}

(* _append: one line at the end of the file.  Text that follows a line     *)
(* without its line end spoils that line.                                  *)
Extended(line) ==
  IF ended THEN Append(registry, line)
  ELSE [registry EXCEPT ![Len(registry)] = Torn]

Recorded(line) == registry' = Extended(line) /\ ended' = TRUE

(* The writer dies in the append: a part of the line is in the file, or    *)
(* all of it but its end.                                                  *)
CutShort(line) == registry' \in {Extended(line), Extended(Torn)} /\ ended' = FALSE

(* The lifetime asked for, checked on the exact expiry: it ends in the     *)
(* future, and not too far in it.                                          *)
NeverTooLong(seconds, fraction) ==                    \* defect: no maximum
  seconds > now \/ (seconds = now /\ fraction > 0)

FromNow(seconds, fraction) ==                         \* defect: now allowed
  seconds >= now /\ seconds + fraction <= now + MaxLifetime

ValidExpiry(seconds, fraction) ==
  /\ seconds > now \/ (seconds = now /\ fraction > 0)
  /\ seconds + fraction <= now + MaxLifetime

(* An approval of that name is live. *)
DuplicateScopeWide(action, candidate) ==              \* defect: wrong name
  <<action, ScopeWide>> \in Live

Duplicate(action, candidate) == <<action, candidate>> \in Live

(* grant_approval with an expiry at `seconds` and a fraction of one more;  *)
(* the whole seconds are stored.  The registry is read back, and the call  *)
(* fails when it does not load any more; the line stays.                   *)
GrantApproval(action, candidate, seconds, fraction) ==
  LET line == Granted(Len(registry) + 1, action, candidate, now, seconds) IN
  /\ Len(registry) < MaxEvents
  /\ action \in (IF candidate = ScopeWide THEN ScopeWideApprovable ELSE Approvable)
  /\ ValidExpiry(seconds, fraction)
  /\ state \in {"scoped", "collecting", "analyzing"}
  /\ candidate # ScopeWide => candidate \in scope
  /\ RegistryLoads
  /\ ~Duplicate(action, candidate)
  /\ Recorded(line) \/ CutShort(line)
  /\ UNCHANGED <<now, state, scope, withdrawn>>

(* revoke_approval: allowed in every workflow state.  The registry is not  *)
(* read back: what was appended is reported as done.                       *)
RevokeApproval(g) ==
  LET line == RevokedEvent(g, now) IN
  /\ Len(registry) < MaxEvents
  /\ RegistryLoads
  /\ g \in ActiveGrants
  /\ \/ Recorded(line) /\ withdrawn' = withdrawn \cup {g}
     \/ CutShort(line) /\ UNCHANGED withdrawn
  /\ UNCHANGED <<now, state, scope>>

(* outrider repair --apply: the lines from the first that is not JSON are  *)
(* dropped if all of them are not; the others are written back, ended.     *)
NotJson == {i \in 1..Len(registry) : registry[i] = Torn}

Repair ==
  /\ \E n \in 1..Len(registry) :
       /\ NotJson = n .. Len(registry)
       /\ registry' = SubSeq(registry, 1, n - 1)
       /\ withdrawn' = withdrawn \cap 1..n - 1
  /\ ended' = TRUE
  /\ UNCHANGED <<now, state, scope>>

(* The environment: time passes, the run changes state, scope is edited. *)
Tick ==
  /\ now < MaxTime
  /\ now' = now + 1
  /\ UNCHANGED <<registry, ended, state, scope, withdrawn>>

TransitionState ==
  /\ state' \in AllowedTransitions[state]
  /\ UNCHANGED <<registry, ended, now, scope, withdrawn>>

EditScope ==
  /\ scope' \in SUBSET Candidates
  /\ UNCHANGED <<registry, ended, now, state, withdrawn>>

Next ==
  \/ \E action \in GrantActions, candidate \in GrantCandidates,
        seconds \in now .. now + MaxLifetime + 1, fraction \in Fractions :
       GrantApproval(action, candidate, seconds, fraction)
  \/ \E g \in 1..Len(registry) : RevokeApproval(g)
  \/ Repair
  \/ Tick
  \/ TransitionState
  \/ EditScope

Spec == Init /\ [][Next]_vars

-----------------------------------------------------------------------------
Grants ==
  [ type      : {"approval_granted"},
    grant     : Nat,
    action    : GrantActions,
    candidate : GrantCandidates,
    occurred  : Nat,
    expires   : Nat ]

Revocations ==
  [ type      : {"approval_revoked"},
    grant     : Nat,
    action    : {"none"},
    candidate : {NoCandidate},
    occurred  : Nat,
    expires   : {0} ]

TypeOK ==
  /\ registry \in Seq(Grants \cup Revocations \cup {Torn}) /\ Len(registry) <= MaxEvents
  /\ \A i \in 1..Len(registry) : registry[i].expires <= registry[i].occurred + MaxLifetime
  /\ ended \in BOOLEAN
  /\ now \in 0..MaxTime
  /\ state \in States
  /\ scope \in SUBSET Candidates
  /\ withdrawn \in SUBSET (1..MaxEvents)

(* Whatever crashes leave and repairs make of it, the registry loads, or   *)
(* would without its last line, which is not JSON and so what a repair     *)
(* drops: what is recorded whole is accepted for good, and no writer adds  *)
(* to a damaged registry (approval.py:244-372, 405-472, 488-605;           *)
(* repair.py:48-69).                                                       *)
RegistryRecovers ==
  \A i \in 1..Len(registry) :
    Parses(registry, i) \/ (i = Len(registry) /\ registry[i] = Torn)

(* However many grants, expiries and revocations a registry has seen, and  *)
(* whatever a repair has brought back, two active approvals never name     *)
(* the same action and candidate: revoking one by its id leaves no second  *)
(* one behind (approval.py:550-558).                                       *)
AtMostOneActive ==
  \A g, h \in ActiveGrants : Key(g) = Key(h) => g = h

(* An intrusive action is only ever authorised by an approval that names   *)
(* its candidate: no approval of the whole scope reaches it, although      *)
(* evaluate_action looks for one in every approvable action's name         *)
(* (approval.py:752-768, ADR 0021 "intrusive_validation and prohibited     *)
(* actions cannot").                                                       *)
IntrusiveIsExact ==
  \A candidate \in Candidates :
    Authorised("intrusive_validation", candidate)
      => \E g \in ActiveGrants : Key(g) = <<"intrusive_validation", candidate>>

(* Taking an approval back is effective at once, even where the append     *)
(* goes wrong: after the step that revokes g, no approval of that name is  *)
(* live, or the registry does not load and denies everything               *)
(* (approval.py:580-605, 611-633).  What a repair makes of it later is     *)
(* another matter: RevokedStaysRevoked.                                    *)
WithdrawalIsEffective ==
  [][ \A g \in ActiveGrants :
        RevokeApproval(g) /\ RegistryLoads' => Key(g) \notin Live' ]_vars

(* "repair can only undo a crash-truncation and recreate static            *)
(* scaffolding, never reconstruct lost authorization" (ADR 0022): a grant  *)
(* whose revocation was reported done is never active again.               *)
RevokedStaysRevoked ==
  \A g \in withdrawn : ~(RegistryLoads /\ g \in ActiveGrants)

(* The registry implements Authority: what is authorized is the expiry of  *)
(* the active approval of each action and candidate, none when there is    *)
(* none or the registry does not load; what is settled is what it would be *)
(* by the lines a crash can no longer spoil.                               *)
ExpiriesOf(k, r, t) == {r[g].expires : g \in {h \in ActiveIn(r, t) : KeyIn(r, h) = k}}

Expiry(r, t) ==
  [k \in GrantActions \X GrantCandidates |->
     IF Loads(r) /\ ExpiriesOf(k, r, t) # {} THEN Max(ExpiriesOf(k, r, t)) ELSE 0]

EndIsOpen == Len(registry) > 0 /\ (~ended \/ registry[Len(registry)] = Torn)

Sure == IF EndIsOpen THEN SubSeq(registry, 1, Len(registry) - 1) ELSE registry

Authorities == INSTANCE Authority
  WITH Keys <- GrantActions \X GrantCandidates,
       expiry <- Expiry(registry, now), settled <- Expiry(Sure, now)

ImplementsAuthority == Authorities!Spec
=============================================================================
