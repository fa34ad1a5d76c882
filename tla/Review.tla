------------------------------- MODULE Review -------------------------------
(***************************************************************************)
(* From artifacts to a completed engagement: evidence is registered, a     *)
(* skill writes its result, the operator promotes the result's finding     *)
(* candidates and follows the guide, and repairs a ledger a crash left     *)
(* torn.                                                                   *)
(*                                                                         *)
(* The skill and the tools write artifacts and the result whenever they    *)
(* like, also while a promotion is being handled: its reads of the result  *)
(* are separate steps.  Everything else the handlers do is one step, as    *)
(* the event loop runs one at a time and the command line is not used      *)
(* while one runs.  A process may die in any append.                       *)
(*                                                                         *)
(* One result contract stands for all; the scope has been confirmed and    *)
(* does not change (Portal), the state log loads (RunState).               *)
(***************************************************************************)
EXTENDS Lifecycle, Ledger

CONSTANTS
  Artifacts,      \* the paths below artifacts/
  Bytes,          \* what a tool may write to an artifact
  Legacy,         \* the files of the legacy folder: path to bytes
  ClaimIds,
  Contents,       \* what the skill may write as its result
  MaxIds,         \* bound on the evidence ids handed out
  MaxFaults       \* bound on crashes and on changes behind the operator's back

ASSUME ArtifactsAssumption ==
  /\ DOMAIN Legacy \subseteq Artifacts
  /\ {"absent", "torn"} \cap Bytes = {}
  /\ \A path \in DOMAIN Legacy : Legacy[path] \notin {"absent", "torn"}
ASSUME ContentsAssumption  ==
  \A c \in Contents :
    /\ c.status \in {"completed", "partial", "failed", "blocked"}
    /\ DOMAIN c.claims \subseteq ClaimIds
    /\ \A k \in DOMAIN c.claims : c.claims[k].cites \subseteq 1..MaxIds
ASSUME MaxAssumption       == MaxIds \in Nat /\ MaxFaults \in Nat

VARIABLES
  state,          \* the workflow state
  artifact,       \* the bytes of each artifact
  evidence,       \* evidence.jsonl
  findings,       \* findings.jsonl
  backups,        \* the ledgers repair has put aside
  requested,      \* there is a request contract
  result,         \* what contracts/results/ holds
  promo,          \* the promotion under way
  ids,            \* the evidence ids handed out: 1..ids
  acked,          \* the records a caller was told are recorded
  faults          \* crashes and changes so far

vars == <<state, artifact, evidence, findings, backups, requested, result,
          promo, ids, acked, faults>>

NoResult == [status |-> "none", claims |-> << >>]
NoClaim  == [kind |-> "none"]
Idle     == [at |-> "idle", claim |-> "none", candidate |-> "none",
             seen |-> NoResult, snapshot |-> NoClaim, replaced |-> FALSE]

(* What a claim is about, or a promotion is asked for, as the scope has it. *)
Assets == {"in_scope", "out_of_scope"}

-----------------------------------------------------------------------------
(* Evidence.  A path names a regular file below artifacts/. *)
OnDisk(path) == artifact[path] # "absent"

EvidenceRecord(path, bytes) ==
  [seq |-> NextSeq(evidence), key |-> path, id |-> ids + 1, bytes |-> bytes]

(* verify_evidence says "verified". *)
Intact(r) == artifact[r.key] = r.bytes

(* The artifacts the page offers for registration. *)
Unregistered == {path \in Artifacts : OnDisk(path) /\ path \notin Keys(evidence)}

(* Every id is registered and its artifact verifies. *)
IdsRegistered(cites) == cites \subseteq {r.id : r \in Records(evidence)}

IdsVerify(cites) ==
  /\ IdsRegistered(cites)
  /\ \A r \in Records(evidence) : r.id \in cites => Intact(r)

(* find_skill_request_by_id: there is one request contract at most. *)
RequestFound == requested

(* validate_skill_result says "valid"; it raises when the registry of      *)
(* evidence does not load.                                                 *)
ResultValid ==
  /\ result # NoResult
  /\ RequestFound
  /\ \A k \in DOMAIN result.claims : IdsVerify(result.claims[k].cites)

-----------------------------------------------------------------------------
(* Findings. *)
PromotionStates == {"analyzing", "reporting"}

Candidates == {k \in DOMAIN result.claims : result.claims[k].kind = "finding_candidate"}

(* list_finding_candidates, when the registry of findings loads. *)
Unpromoted == {k \in Candidates : k \notin Keys(findings)}

Eligible(k) ==
  /\ k \in Unpromoted
  /\ result.status \notin {"blocked", "failed"}
  /\ ResultValid
  /\ result.claims[k].subject = "in_scope"
  /\ IdsVerify(result.claims[k].cites)

(* deterministic_falsifier says "supported". *)
Supported(k) ==
  /\ IdsVerify(result.claims[k].cites)
  /\ result.claims[k].subject = "in_scope"

(* promote_finding's checks on the result once it has been read again.  In *)
(* scope must be the asset the reviewer names, not the claim's subject.    *)
OnlyCompleted(k, candidate) ==                        \* defect: partial refused
  /\ result.status = "completed"
  /\ k \in Unpromoted
  /\ IdsVerify(result.claims[k].cites)
  /\ candidate = "in_scope"

Promotable(k, candidate) ==
  /\ result.status \in {"completed", "partial"}
  /\ k \in Candidates
  /\ k \notin Keys(findings)
  /\ IdsVerify(result.claims[k].cites)
  /\ candidate = "in_scope"

FindingRecord(source) ==
  [seq |-> NextSeq(findings), key |-> promo.claim, snapshot |-> promo.snapshot,
   source |-> source, seen |-> promo.seen, replaced |-> promo.replaced]

(* verify_finding: the source is what was hashed, and in it the claim is   *)
(* what was read; the evidence verifies.                                   *)
HashOnly(f) == result = f.source                      \* defect: no snapshot

SourceVerifies(f) ==
  /\ result = f.source
  /\ f.key \in DOMAIN result.claims
  /\ result.claims[f.key] = f.snapshot

FindingVerifies(f) ==
  SourceVerifies(f) /\ Loads(evidence) /\ IdsVerify(f.snapshot.cites)

-----------------------------------------------------------------------------
(* The operator's commands: evidence. *)
AnyPath(path)     == TRUE                             \* defect: not asked
Registrable(path) == path \notin Keys(evidence)

(* register_evidence, of a file that holds `bytes`.  Of a caller that      *)
(* fails after the append the operator is told it failed: the record       *)
(* stays.  The process may die in the append.                              *)
RegisterEvidence(path, bytes, Tells) ==
  LET r == EvidenceRecord(path, bytes) IN
  /\ state # "archived"
  /\ Loads(evidence)
  /\ bytes # "absent"
  /\ Registrable(path)
  /\ ids < MaxIds
  /\ ids' = ids + 1
  /\ \/ /\ evidence' = Appended(evidence, r)
        /\ \E told \in Tells : acked' = IF told THEN acked \cup {r} ELSE acked
        /\ UNCHANGED faults
     \/ /\ faults < MaxFaults
        /\ faults' = faults + 1
        /\ evidence' \in Interrupted(evidence, r) \ {evidence}
        /\ UNCHANGED acked

Register(path, Tells) ==
  /\ promo.at = "idle"
  /\ RegisterEvidence(path, artifact[path], Tells)
  /\ UNCHANGED <<state, artifact, findings, backups, requested, result, promo>>

RegisterRoute(path)   == Register(path, BOOLEAN)
RegisterCommand(path) == Register(path, {TRUE})

(* import_files_as_evidence, one file of the legacy folder: copied unless  *)
(* there is one, and registered unless it is.  The process may die in the  *)
(* copy; what is there then counts as the file when the import is repeated.*)
CopiedAnyway(path) == Legacy[path]                    \* defect: overwrites
Copied(path)       == IF OnDisk(path) THEN artifact[path] ELSE Legacy[path]

CopyTorn(path) ==
  /\ ~OnDisk(path)
  /\ faults < MaxFaults
  /\ faults' = faults + 1
  /\ artifact' = [artifact EXCEPT ![path] = "torn"]
  /\ UNCHANGED <<evidence, ids, acked>>

Import(path) ==
  /\ promo.at = "idle"
  /\ \/ CopyTorn(path)
     \/ /\ artifact' = [artifact EXCEPT ![path] = Copied(path)]
        /\ \/ RegisterEvidence(path, Copied(path), {FALSE})
           \/ /\ state = "archived" \/ ~Loads(evidence) \/ ~Registrable(path)
              /\ UNCHANGED <<evidence, ids, acked, faults>>
  /\ UNCHANGED <<state, findings, backups, requested, result, promo>>

ImportTarget == \E path \in DOMAIN Legacy : Import(path)

(* create_skill_request, for local analysis: any state allows that. *)
CreateSkillRequest == Loads(evidence) /\ requested' = TRUE

PrepareRequest ==
  /\ promo.at = "idle"
  /\ ~requested
  /\ CreateSkillRequest
  /\ UNCHANGED <<state, artifact, evidence, findings, backups, result, promo,
                 ids, acked, faults>>

(* outrider repair --apply: each ledger that can be is repaired, its bytes *)
(* put aside first.  The copy is named after the second: it overwrites one *)
(* that a repair of the same ledger made in the same second.               *)
NeedsRepair == \E file \in {evidence, findings} : TailStatus(file) = "safe_repair"

Backup(ledger, file) ==
  IF TailStatus(file) = "safe_repair" THEN {[ledger |-> ledger, file |-> file]} ELSE {}

SameSecond(made) ==
  {b \in backups : \E new \in made : new.ledger = b.ledger}

AfterRepair(file) == IF TailStatus(file) = "safe_repair" THEN Repaired(file) ELSE file

Repair ==
  LET made == Backup("evidence", evidence) \cup Backup("findings", findings) IN
  /\ promo.at = "idle"
  /\ NeedsRepair
  /\ evidence' = AfterRepair(evidence)
  /\ findings' = AfterRepair(findings)
  /\ \E overwritten \in SUBSET SameSecond(made) :
       backups' = (backups \ overwritten) \cup made
  /\ UNCHANGED <<state, artifact, requested, result, promo, ids, acked, faults>>

-----------------------------------------------------------------------------
(* Promotion through the portal.  The page shows the result; a page that   *)
(* is old in any other respect is refused and changes nothing.  To ask for *)
(* the promotion of what the page does not offer, or for another asset     *)
(* than the claim's, is a fault.                                           *)
AsOffered(k, candidate) == Eligible(k) /\ candidate = result.claims[k].subject

Asked(k, candidate, promotion) ==
  /\ promo.at = "idle"
  /\ state \in PromotionStates
  /\ Loads(findings) /\ Loads(evidence)
  /\ AsOffered(k, candidate) \/ faults < MaxFaults
  /\ faults' = IF AsOffered(k, candidate) THEN faults ELSE faults + 1
  /\ promo' = promotion
  /\ UNCHANGED <<state, artifact, evidence, findings, backups, requested, result,
                 ids, acked>>

Review(k, candidate) ==
  Asked(k, candidate, [Idle EXCEPT !.at = "reviewing", !.claim = k,
                                   !.candidate = candidate, !.seen = result])

(* On the command line nothing is compared with what the operator saw. *)
PromoteCommand(k, candidate) ==
  Asked(k, candidate, [Idle EXCEPT !.at = "checked", !.claim = k,
                                   !.candidate = candidate])

PromoStep(next) ==
  /\ promo' = next
  /\ UNCHANGED <<state, artifact, evidence, findings, backups, requested, result,
                 ids, acked, faults>>

(* promote_finding_by_ids: the hash of the result is the one on the page.  *)
Stale(seen) == TRUE                                   \* defect: not compared
Fresh(seen) == result = seen

CheckHash ==
  /\ promo.at = "reviewing"
  /\ \/ ~Fresh(promo.seen) /\ PromoStep(Idle)
     \/ Fresh(promo.seen)  /\ PromoStep([promo EXCEPT !.at = "checked"])

(* promote_finding: the result is valid, *)
Validate ==
  /\ promo.at = "checked"
  /\ \/ ~ResultValid /\ PromoStep(Idle)
     \/ ResultValid  /\ PromoStep([promo EXCEPT !.at = "valid"])

(* it is read again, and the claim taken from it, *)
TakeClaim ==
  /\ promo.at = "valid"
  /\ \/ ~Promotable(promo.claim, promo.candidate) /\ PromoStep(Idle)
     \/ /\ Promotable(promo.claim, promo.candidate)
        /\ PromoStep([promo EXCEPT !.at = "taken",
                                   !.snapshot = result.claims[promo.claim]])

(* and it is hashed, and the finding recorded. *)
Record ==
  LET f == FindingRecord(result) IN
  /\ promo.at = "taken"
  /\ promo' = Idle
  /\ \/ /\ findings' = Appended(findings, f)
        /\ \E told \in {{f}, {}} : acked' = acked \cup told
        /\ UNCHANGED faults
     \/ /\ faults < MaxFaults
        /\ faults' = faults + 1
        /\ findings' \in Interrupted(findings, f)
        /\ UNCHANGED acked
  /\ UNCHANGED <<state, artifact, evidence, backups, requested, result, ids>>

Promote == CheckHash \/ Validate \/ TakeClaim \/ Record

-----------------------------------------------------------------------------
(* The guide.  What cannot be read counts as nothing: a default stands in  *)
(* for a ledger that does not load.  Only a result that cannot be judged   *)
(* without the registry of evidence makes the guide fail as a whole.       *)
VerifiedEvidence ==
  IF Loads(evidence) THEN {r \in Records(evidence) : Intact(r)} ELSE {}

NothingLeft == IF Loads(findings) THEN Unpromoted ELSE {}

UnverifiedFindings ==
  IF Loads(findings) THEN {f \in Records(findings) : ~FindingVerifies(f)} ELSE {}

GuideTarget ==
  [confirm_scope |-> "scoped", begin_discovery |-> "collecting",
   begin_analysis |-> "analyzing", begin_findings |-> "reporting",
   complete_engagement |-> "completed"]

GuideBuilds == result # NoResult => Loads(evidence)

InvalidResults == result # NoResult /\ ~ResultValid

Offers(action) ==
  /\ GuideBuilds
  /\ \/ action = "confirm_scope" /\ state = "initialized"
     \/ action = "begin_discovery" /\ state = "scoped"
     \/ /\ action = "begin_analysis" /\ state = "collecting"
        /\ VerifiedEvidence # {}
     \/ /\ action = "begin_findings" /\ state = "analyzing"
        /\ requested /\ result # NoResult /\ ~InvalidResults
        /\ NothingLeft = {}
     \/ /\ action = "complete_engagement" /\ state = "reporting"
        /\ NothingLeft = {} /\ UnverifiedFindings = {}

(* guide_action: the guide is built again under the lock, and must still   *)
(* offer the action.                                                       *)
GuideAction(action) ==
  /\ promo.at = "idle"
  /\ Offers(action)
  /\ state' = GuideTarget[action]
  /\ UNCHANGED <<artifact, evidence, findings, backups, requested, result, promo,
                 ids, acked, faults>>

Archive ==
  /\ promo.at = "idle"
  /\ state = "completed"
  /\ state' = "archived"
  /\ UNCHANGED <<artifact, evidence, findings, backups, requested, result, promo,
                 ids, acked, faults>>

-----------------------------------------------------------------------------
(* The world outside.  The skill answers the request, and may write its    *)
(* answer again; a tool may write an artifact again.                       *)
Answer(content) ==
  /\ requested /\ result = NoResult
  /\ result' = content
  /\ UNCHANGED <<state, artifact, evidence, findings, backups, requested, promo,
                 ids, acked, faults>>

Rewrite(content) ==
  /\ result \notin {NoResult, content}
  /\ faults < MaxFaults
  /\ faults' = faults + 1
  /\ result' = content
  /\ promo' = [promo EXCEPT !.replaced = promo.at \in {"checked", "valid", "taken"}]
  /\ UNCHANGED <<state, artifact, evidence, findings, backups, requested, ids, acked>>

Overwrite(path, bytes) ==
  /\ artifact[path] # bytes
  /\ faults < MaxFaults
  /\ faults' = faults + 1
  /\ artifact' = [artifact EXCEPT ![path] = bytes]
  /\ UNCHANGED <<state, evidence, findings, backups, requested, result, promo,
                 ids, acked>>

-----------------------------------------------------------------------------
Init ==
  /\ state = InitialState
  /\ artifact \in [Artifacts -> Bytes \cup {"absent"}]
  /\ \A path \in Artifacts : OnDisk(path) <=> path \notin DOMAIN Legacy
  /\ evidence = EmptyLedger
  /\ findings = EmptyLedger
  /\ backups = {}
  /\ requested = FALSE
  /\ result = NoResult
  /\ promo = Idle
  /\ ids = 0
  /\ acked = {}
  /\ faults = 0

Guide == \E action \in DOMAIN GuideTarget : GuideAction(action)

Next ==
  \/ \E path \in Artifacts : RegisterRoute(path) \/ RegisterCommand(path)
  \/ ImportTarget
  \/ PrepareRequest \/ Repair
  \/ \E k \in Candidates, candidate \in Assets :
       Review(k, candidate) \/ PromoteCommand(k, candidate)
  \/ Promote
  \/ Guide \/ Archive
  \/ \E content \in Contents : Answer(content) \/ Rewrite(content)
  \/ \E path \in Artifacts, bytes \in Bytes \cup {"absent"} : Overwrite(path, bytes)

(* The event loop finishes what it handles.  The rest is the operator, who *)
(* does what the guide asks for: imports and registers artifacts while     *)
(* none verifies, prepares a request, reviews the candidates on offer,     *)
(* repairs a ledger that does not load, and takes the step offered; and    *)
(* the skill, which answers.                                               *)
FollowGuide ==
  /\ WF_vars(Promote)
  /\ WF_vars(VerifiedEvidence = {} /\ \E path \in Unregistered : RegisterRoute(path))
  /\ WF_vars(VerifiedEvidence = {} /\ ImportTarget)
  /\ WF_vars(PrepareRequest)
  /\ WF_vars(\E k \in Candidates : Eligible(k) /\ Review(k, result.claims[k].subject))
  /\ WF_vars(Repair)
  /\ WF_vars(Guide)
  /\ WF_vars(\E content \in Contents : Answer(content))

Spec == Init /\ [][Next]_vars /\ FollowGuide
-----------------------------------------------------------------------------
(* Every variable holds a value of its kind, within the bounds, and no     *)
(* record is numbered beyond the ledger that holds it.                     *)
TypeOK ==
  /\ state \in States
  /\ DOMAIN artifact = Artifacts
  /\ \A file \in {evidence, findings} \cup {b.file : b \in backups} :
       /\ file.ended \in BOOLEAN
       /\ \A i \in 1..Len(file.lines) : Len(file.lines[i]) \in 1..2
  /\ requested \in BOOLEAN
  /\ result \in Contents \cup {NoResult}
  /\ promo.at \in {"idle", "reviewing", "checked", "valid", "taken"}
  /\ promo.candidate \in Assets \cup {"none"}
  /\ promo.seen \in Contents \cup {NoResult}
  /\ ids \in 0..MaxIds
  /\ faults \in 0..MaxFaults

(* A ledger repair finds nothing wrong with loads, and so does one it has  *)
(* repaired: line by line JSON is all repair looks at, numbering and       *)
(* uniqueness are up to the writers.                                       *)
RepairHeals ==
  \A file \in {evidence, findings} :
    /\ TailStatus(file) = "ok" => Loads(file)
    /\ TailStatus(file) = "safe_repair" => Loads(Repaired(file))

(* Crashes never leave damage repair would hand to a human: a writer loads *)
(* the ledger first, so nothing is appended after a damaged line.          *)
DamageIsRepairable ==
  \A file \in {evidence, findings} : TailStatus(file) # "manual"

(* A record a caller was told about stays on an ended line of its own,     *)
(* whatever crashes, appends and repairs follow (repair.py:48-69).  One    *)
(* that was written onto a line left open shares that line: a repair takes *)
(* it off the ledger, against ADR 0022:53-55, and leaves it in the copy it *)
(* puts aside (repair.py:169-175), which the next repair may overwrite.    *)
OnRecord(r, file) ==
  \E i \in 1..Len(file.lines) :
    file.lines[i] = <<r>> /\ (i < Len(file.lines) \/ file.ended)

SharesLine(r, file) ==
  \E i \in 1..Len(file.lines) :
    Len(file.lines[i]) = 2 /\ \E j \in 1..2 : file.lines[i][j] = r

IsKept(r, old, new) ==
  /\ OnRecord(r, old) => OnRecord(r, new)
  /\ SharesLine(r, old) =>
       SharesLine(r, new) \/ \E b \in backups' : b.file = old

AcknowledgedIsKept ==
  [][ /\ \A r \in acked : IsKept(r, evidence, evidence') /\ IsKept(r, findings, findings')
      /\ \A r \in acked' \ acked :
           \E file \in {evidence', findings'} : OnRecord(r, file) \/ SharesLine(r, file) ]_vars

(* A finding that verifies rests on the claim as it was judged, whatever   *)
(* was written to the result while it was judged; and on the very claim    *)
(* the reviewer saw, in a result that can be promoted, unless the result   *)
(* was replaced during the promotion.                                      *)
VerifiedMeansReviewed ==
  Loads(findings) =>
    \A f \in Records(findings) :
      FindingVerifies(f) =>
        /\ result.claims[f.key] = f.snapshot
        /\ ~f.replaced => result.status \in {"completed", "partial"}
        /\ ~f.replaced /\ f.seen # NoResult => f.seen.claims[f.key] = f.snapshot

(* What the candidate list offers, the verifier supports and a promotion   *)
(* of the claim's own subject accepts, unless the result or the evidence   *)
(* was changed meanwhile.                                                  *)
OfferedIsPromoted ==
  [][ /\ promo.at \in {"reviewing", "checked", "valid"}
      /\ AsOffered(promo.claim, promo.candidate)
      /\ promo.seen \in {result, NoResult} /\ ~promo.replaced
      => promo'.at # "idle" /\ Supported(promo.claim) ]_vars

(* Nothing Outrider does to a run breaks the evidence of an artifact that  *)
(* was registered: an import that is repeated leaves what is there.        *)
EvidenceStaysIntact ==
  [][ Loads(evidence) /\ faults' = faults =>
        \A r \in Records(evidence) : Intact(r) => artifact'[r.key] = r.bytes ]_vars

(* The engagement is completed only when every candidate was promoted and  *)
(* every finding verifies.                                                 *)
CompletionIsReviewed ==
  [][ state # "completed" /\ state' = "completed" =>
        /\ Loads(findings)
        /\ Unpromoted = {}
        /\ \A f \in Records(findings) : FindingVerifies(f) ]_vars

(* The records are as the operator left them, and the result asks for      *)
(* nothing the portal refuses.                                             *)
RecordsIntact ==
  /\ Loads(evidence) => \A r \in Records(evidence) : Intact(r)
  /\ result # NoResult /\ Loads(evidence) =>
       /\ result.status \in {"completed", "partial"}
       /\ \A k \in DOMAIN result.claims :
            /\ IdsRegistered(result.claims[k].cites)
            /\ result.claims[k].subject = "in_scope"
  /\ Loads(findings) => \A f \in Records(findings) : SourceVerifies(f)

(* An operator who follows the guide, and repairs after a crash, gets to   *)
(* the end of the engagement, when the records stay intact.                *)
GuidedEngagementCompletes ==
  <>[]RecordsIntact => <>(state \in {"completed", "archived"})
=============================================================================
