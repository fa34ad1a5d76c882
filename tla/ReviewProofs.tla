---------------------------- MODULE ReviewProofs ----------------------------
(***************************************************************************)
(* Theorems about the ledgers of evidence and findings, their repair, and  *)
(* promotion, for any artifacts, results and number of crashes.            *)
(*                                                                         *)
(* What a crash leaves is damage in the last line and there alone, because *)
(* every writer loads the ledger before it appends.  A promotion appends   *)
(* several steps after it looked: what it saw then has to stay true.       *)
(***************************************************************************)
EXTENDS Review, SequenceTheorems, TLAPS

(* The bytes of an artifact that is there. *)
Values == Bytes \cup {"torn"} \cup {Legacy[path] : path \in DOMAIN Legacy}

EvidencePieces ==
  [seq : Nat \ {0}, key : Artifacts, id : Nat, bytes : Values] \cup {Cut}

(* A finding of a promotion during which the result was not replaced rests *)
(* on the result the claim was taken from.                                 *)
Faithful(f) ==
  ~f.replaced =>
    /\ f.source.status \in {"completed", "partial"}
    /\ f.source.claims[f.key] = f.snapshot
    /\ f.seen # NoResult => f.seen = f.source

Claims == UNION {{c.claims[k] : k \in DOMAIN c.claims} : c \in Contents}

FindingPieces ==
  { f \in [seq : Nat \ {0}, key : ClaimIds, snapshot : Claims, source : Contents,
           seen : Contents \cup {NoResult}, replaced : BOOLEAN] : Faithful(f) }
  \cup {Cut}

(* A ledger of lines of one or two pieces. *)
Shaped(file, Pieces) ==
  /\ file = [lines |-> file.lines, ended |-> file.ended]
  /\ file.lines \in Seq(Seq(Pieces))
  /\ \A i \in 1..Len(file.lines) : Len(file.lines[i]) \in 1..2
  /\ file.ended \in BOOLEAN
  /\ ~file.ended => Len(file.lines) > 0

Undamaged(file) == (1..Len(file.lines)) \ Damaged(file)

(* Only the last line can be damaged; the others are in order. *)
Healthy(file, Pieces) ==
  /\ Shaped(file, Pieces)
  /\ Damaged(file) \subseteq {Len(file.lines)}
  /\ \A i \in Undamaged(file) : file.lines[i][1].seq = i
  /\ \A i, j \in Undamaged(file) :
       file.lines[i][1].key = file.lines[j][1].key => i = j

-----------------------------------------------------------------------------
(* Lines. *)
LEMMA ShapeFacts ==
  ASSUME NEW Pieces, NEW file, Shaped(file, Pieces)
  PROVE  /\ Len(file.lines) \in Nat
         /\ \A i \in 1..Len(file.lines) :
              /\ file.lines[i] \in Seq(Pieces)
              /\ Len(file.lines[i]) \in 1..2
              /\ file.lines[i][1] \in Pieces
<1>1. file.lines \in Seq(Seq(Pieces)) /\ Len(file.lines) \in Nat
  BY DEF Shaped
<1>2. ASSUME NEW i \in 1..Len(file.lines)
      PROVE  /\ file.lines[i] \in Seq(Pieces)
             /\ Len(file.lines[i]) \in 1..2
             /\ file.lines[i][1] \in Pieces
  <2>1. file.lines[i] \in Seq(Pieces) /\ Len(file.lines[i]) \in 1..2
    BY <1>1 DEF Shaped
  <2> QED BY <2>1
<1> QED BY <1>1, <1>2

LEMMA LoadsFacts ==
  ASSUME NEW file, Loads(file), NEW i \in 1..Len(file.lines)
  PROVE  Len(file.lines[i]) = 1 /\ file.lines[i][1] # Cut
  BY DEF Loads, Damaged, IsJson

(* A ledger that is in order but for its last line loads when that line    *)
(* does, and a repair otherwise takes away that line.                      *)
LEMMA HealthyLoads ==
  ASSUME NEW Pieces, NEW file, Healthy(file, Pieces), Damaged(file) = {}
  PROVE  Loads(file)
  BY DEF Healthy, Loads, Undamaged

LEMMA HealthyTail ==
  ASSUME NEW Pieces, NEW file, Healthy(file, Pieces)
  PROVE  /\ TailStatus(file) \in {"ok", "safe_repair"}
         /\ TailStatus(file) = "ok" <=> Damaged(file) = {}
<1>1. Len(file.lines) \in Nat
  BY ShapeFacts DEF Healthy
<1>2. ~ \E i \in Damaged(file), j \in 1..Len(file.lines) : i < j /\ IsJson(file.lines[j])
  BY <1>1 DEF Healthy
<1> QED BY <1>2 DEF TailStatus

LEMMA RepairRemovesTail ==
  ASSUME NEW Pieces, NEW file, Healthy(file, Pieces), TailStatus(file) = "safe_repair"
  PROVE  /\ Len(file.lines) \in Nat \ {0}
         /\ Damaged(file) = {Len(file.lines)}
         /\ Repaired(file) =
              [lines |-> SubSeq(file.lines, 1, Len(file.lines) - 1), ended |-> TRUE]
<1> DEFINE n == Len(file.lines)
<1>1. n \in Nat /\ Damaged(file) \subseteq {n} /\ Damaged(file) \subseteq 1..n
  BY ShapeFacts DEF Healthy, Damaged
<1>2. Damaged(file) # {}
  BY HealthyTail
<1>3. Damaged(file) = {n} /\ n \in Nat \ {0}
  BY <1>1, <1>2
<1>4. FirstDamaged(file) = n
  BY <1>3 DEF FirstDamaged
<1> QED BY <1>3, <1>4 DEF Repaired

LEMMA RepairedHealthy ==
  ASSUME NEW Pieces, NEW file, Healthy(file, Pieces), TailStatus(file) = "safe_repair"
  PROVE  Healthy(Repaired(file), Pieces) /\ Loads(Repaired(file))
<1> DEFINE lines == file.lines
           n == Len(lines)
           kept == SubSeq(lines, 1, n - 1)
<1>1. n \in Nat \ {0} /\ Damaged(file) = {n} /\ lines \in Seq(Seq(Pieces))
  BY RepairRemovesTail DEF Healthy, Shaped
<1>2. Repaired(file).lines = kept /\ Repaired(file).ended = TRUE
      /\ Repaired(file) = [lines |-> kept, ended |-> TRUE]
  BY RepairRemovesTail
<1>3. kept \in Seq(Seq(Pieces)) /\ Len(kept) = n - 1 /\ \A i \in 1..n - 1 : kept[i] = lines[i]
  BY <1>1
<1>4. \A i \in 1..n - 1 : i \in Undamaged(file)
  BY <1>1 DEF Undamaged
<1>5. \A i \in 1..n - 1 : IsJson(lines[i]) /\ Len(lines[i]) \in 1..2
  BY <1>1, <1>4 DEF Undamaged, Damaged, Healthy, Shaped
<1> HIDE DEF lines, n, kept
<1>6. Damaged(Repaired(file)) = {}
  BY <1>2, <1>3, <1>5 DEF Damaged
<1>7. /\ \A i \in 1..n - 1 : kept[i][1].seq = i
      /\ \A i, j \in 1..n - 1 : kept[i][1].key = kept[j][1].key => i = j
  BY <1>3, <1>4 DEF Healthy, lines
<1>8. Shaped(Repaired(file), Pieces)
  BY <1>2, <1>3, <1>5 DEF Shaped
<1>9. Loads(Repaired(file))
  BY <1>2, <1>3, <1>6, <1>7 DEF Loads
<1>10. Healthy(Repaired(file), Pieces)
  BY <1>6, <1>8, <1>9 DEF Healthy, Undamaged, Loads
<1> QED BY <1>9, <1>10
-----------------------------------------------------------------------------
(* Appends.  To a ledger that loads, so that a line of two pieces is new.  *)
LEMMA AppendLine ==
  ASSUME NEW Pieces, NEW file, Healthy(file, Pieces), Loads(file), file.ended,
         NEW piece \in Pieces,
         piece = Cut \/ (piece.seq = NextSeq(file) /\ piece.key \notin Keys(file)),
         NEW end \in BOOLEAN
  PROVE  /\ Healthy(Written(file, piece, end), Pieces)
         /\ end => OnRecord(piece, Written(file, piece, end))
         /\ \A r : OnRecord(r, file) => OnRecord(r, Written(file, piece, end))
         /\ piece # Cut => Loads(Written(file, piece, end))
<1> DEFINE new == Written(file, piece, end)
           n == Len(file.lines)
           line == <<piece>>
<1>1. /\ n \in Nat /\ file.lines \in Seq(Seq(Pieces))
      /\ line \in Seq(Pieces) /\ Len(line) = 1 /\ line[1] = piece
  BY ShapeFacts DEF Healthy, Shaped
<1>2. new.lines = Append(file.lines, line) /\ new.ended = end
      /\ new = [lines |-> new.lines, ended |-> new.ended]
  BY DEF Written
<1> HIDE DEF new, line
<1>3. /\ new.lines \in Seq(Seq(Pieces)) /\ Len(new.lines) = n + 1
      /\ \A i \in 1..n : new.lines[i] = file.lines[i]
      /\ new.lines[n + 1] = line
      /\ \A i \in 1..n + 1 : i \in 1..n \/ i = n + 1
  BY <1>1, <1>2
<1>4. Shaped(new, Pieces)
  <2>1. \A i \in 1..n + 1 : Len(new.lines[i]) \in 1..2
    <3> TAKE i \in 1..n + 1
    <3>1. CASE i = n + 1
      BY <1>1, <1>3, <3>1
    <3>2. CASE i \in 1..n
      BY <1>3, <3>2 DEF Healthy, Shaped
    <3> QED BY <1>3, <3>1, <3>2
  <2> QED BY <1>1, <1>2, <1>3, <2>1 DEF Shaped
<1>5. ASSUME NEW i \in 1..n
      PROVE  /\ IsJson(file.lines[i]) /\ i \notin Damaged(new)
             /\ file.lines[i][1].seq = i
             /\ file.lines[i][1].key \in Keys(file)
  <2>1. IsJson(file.lines[i]) /\ file.lines[i][1].seq = i
    BY DEF Loads, Damaged
  <2>2. file.lines[i][1].key \in Keys(file)
    BY DEF Keys, Records
  <2>3. new.lines[i] = file.lines[i]
    BY <1>3
  <2> QED BY <2>1, <2>2, <2>3 DEF Damaged
<1>6. /\ Damaged(new) \subseteq {n + 1}
      /\ piece # Cut => Damaged(new) = {}
      /\ piece = Cut => Damaged(new) = {n + 1}
  <2>1. Damaged(new) \subseteq {n + 1}
    BY <1>3, <1>5 DEF Damaged
  <2>2. piece # Cut <=> IsJson(new.lines[n + 1])
    BY <1>1, <1>3 DEF IsJson
  <2>3. n + 1 \in 1..Len(new.lines)
    BY <1>1, <1>3
  <2> QED BY <2>1, <2>2, <2>3 DEF Damaged
<1>7. /\ \A i \in Undamaged(new) : new.lines[i][1].seq = i
      /\ \A i, j \in Undamaged(new) : new.lines[i][1].key = new.lines[j][1].key => i = j
  <2>1. \A i, j \in 1..n : file.lines[i][1].key = file.lines[j][1].key => i = j
    BY DEF Loads
  <2>2. \A i \in 1..n : new.lines[i][1] = file.lines[i][1]
    BY <1>3
  <2>3. CASE piece = Cut
    <3>1. Undamaged(new) \subseteq 1..n
      BY <1>3, <1>6, <2>3 DEF Undamaged
    <3> QED BY <1>5, <2>1, <2>2, <3>1
  <2>4. CASE piece.seq = NextSeq(file) /\ piece.key \notin Keys(file)
    <3>1. Undamaged(new) \subseteq 1..n \cup {n + 1}
      BY <1>3 DEF Undamaged
    <3>2. new.lines[n + 1][1] = piece /\ piece.seq = n + 1
      BY <1>1, <1>3, <2>4 DEF NextSeq
    <3>3. \A i \in Undamaged(new) : new.lines[i][1].seq = i
      BY <1>5, <2>2, <3>1, <3>2
    <3>4. \A i \in 1..n : new.lines[i][1].key # piece.key
      BY <1>5, <2>2, <2>4
    <3>5. \A i \in Undamaged(new) : i = n + 1 <=> new.lines[i][1].key = piece.key
      BY <3>1, <3>2, <3>4
    <3>6. ASSUME NEW i \in Undamaged(new), NEW j \in Undamaged(new),
                 new.lines[i][1].key = new.lines[j][1].key
          PROVE  i = j
      <4>1. CASE i = n + 1 \/ j = n + 1
        BY <3>5, <3>6, <4>1
      <4>2. CASE i \in 1..n /\ j \in 1..n
        BY <2>1, <2>2, <3>6, <4>2
      <4> QED BY <3>1, <4>1, <4>2
    <3> QED BY <3>3, <3>6
  <2> QED BY <2>3, <2>4
<1>8. Healthy(new, Pieces)
  BY <1>3, <1>4, <1>6, <1>7 DEF Healthy
<1>9. ASSUME end PROVE OnRecord(piece, new)
  <2>1. n + 1 \in 1..Len(new.lines)
    BY <1>1, <1>3
  <2>2. new.lines[n + 1] = <<piece>>
    BY <1>3 DEF line
  <2> QED BY <1>2, <1>9, <2>1, <2>2 DEF OnRecord
<1>10. ASSUME NEW r, OnRecord(r, file) PROVE OnRecord(r, new)
  <2>1. PICK i \in 1..n : file.lines[i] = <<r>>
    BY <1>10 DEF OnRecord
  <2>2. i \in 1..Len(new.lines) /\ new.lines[i] = file.lines[i] /\ i < Len(new.lines)
    BY <1>1, <1>3
  <2> QED BY <2>1, <2>2 DEF OnRecord
<1> QED BY <1>6, <1>8, <1>9, <1>10, HealthyLoads DEF new

LEMMA GlueToLine ==
  ASSUME NEW Pieces, NEW file, Healthy(file, Pieces), Loads(file), ~file.ended,
         NEW piece \in Pieces, NEW end \in BOOLEAN
  PROVE  /\ Healthy(Written(file, piece, end), Pieces)
         /\ SharesLine(piece, Written(file, piece, end))
         /\ \A r : OnRecord(r, file) => OnRecord(r, Written(file, piece, end))
<1> DEFINE new == Written(file, piece, end)
           n == Len(file.lines)
           last == file.lines[n]
<1>1. n \in Nat \ {0} /\ file.lines \in Seq(Seq(Pieces))
  BY ShapeFacts DEF Healthy, Shaped
<1>2. last \in Seq(Pieces) /\ Len(last) = 1
  BY <1>1, ShapeFacts, LoadsFacts DEF Healthy
<1>3. /\ new.lines = [file.lines EXCEPT ![n] = Append(@, piece)] /\ new.ended = end
      /\ new = [lines |-> new.lines, ended |-> new.ended]
  BY DEF Written
<1> HIDE DEF new, last
<1> DEFINE line == Append(last, piece)
<1>4. line \in Seq(Pieces) /\ Len(line) = 2 /\ line[1] = last[1] /\ line[2] = piece
  BY <1>2, AppendProperties
<1>5. /\ new.lines \in Seq(Seq(Pieces)) /\ Len(new.lines) = n
      /\ \A i \in 1..n : i # n => new.lines[i] = file.lines[i]
      /\ new.lines[n] = line
  <2>1. new.lines = [file.lines EXCEPT ![n] = line]
    BY <1>3 DEF last
  <2> HIDE DEF line
  <2> QED BY <1>1, <1>4, <2>1, ExceptSeq
<1> HIDE DEF line
<1>6. Damaged(new) = {n}
  <2>1. ~IsJson(new.lines[n])
    BY <1>4, <1>5 DEF IsJson
  <2>2. ASSUME NEW i \in 1..n, i # n PROVE IsJson(new.lines[i])
    BY <1>5, <2>2, LoadsFacts DEF IsJson
  <2> QED BY <1>1, <1>5, <2>1, <2>2 DEF Damaged
<1>7. Shaped(new, Pieces)
  <2>1. \A i \in 1..n : Len(new.lines[i]) \in 1..2
    BY <1>1, <1>4, <1>5 DEF Healthy, Shaped
  <2> QED BY <1>1, <1>3, <1>5, <2>1 DEF Shaped
<1>8. \A i \in Undamaged(new) : i \in 1..n /\ new.lines[i] = file.lines[i]
  BY <1>5, <1>6 DEF Undamaged
<1>9. Healthy(new, Pieces)
  BY <1>5, <1>6, <1>7, <1>8 DEF Healthy, Loads
<1>10. SharesLine(piece, new)
  <2>1. n \in 1..Len(new.lines) /\ Len(new.lines[n]) = 2 /\ new.lines[n][2] = piece
    BY <1>1, <1>4, <1>5
  <2>2. 2 \in 1..2
    OBVIOUS
  <2> QED BY <2>1, <2>2 DEF SharesLine
<1>11. ASSUME NEW r, OnRecord(r, file) PROVE OnRecord(r, new)
  <2>1. PICK i \in 1..n : file.lines[i] = <<r>> /\ i < n
    BY <1>11 DEF OnRecord
  <2>2. new.lines[i] = <<r>> /\ i \in 1..Len(new.lines) /\ i < Len(new.lines)
    BY <1>5, <2>1
  <2> QED BY <2>2 DEF OnRecord
<1> QED BY <1>9, <1>10, <1>11 DEF new

(* What stood on an ended line of its own still does, and what shared a    *)
(* line still does.                                                        *)
Keeps(old, new) ==
  \A r : /\ OnRecord(r, old) => OnRecord(r, new)
         /\ SharesLine(r, old) => SharesLine(r, new)

LEMMA NothingShared ==
  ASSUME NEW file, Loads(file), NEW r
  PROVE  ~SharesLine(r, file)
  BY LoadsFacts DEF SharesLine

LEMMA WriteKeeps ==
  ASSUME NEW Pieces, NEW file, Healthy(file, Pieces), Loads(file),
         NEW piece \in Pieces,
         piece = Cut \/ (piece.seq = NextSeq(file) /\ piece.key \notin Keys(file)),
         NEW end \in BOOLEAN
  PROVE  /\ Healthy(Written(file, piece, end), Pieces)
         /\ Keeps(file, Written(file, piece, end))
         /\ end => \/ OnRecord(piece, Written(file, piece, end))
                   \/ SharesLine(piece, Written(file, piece, end))
<1>1. file.ended \in BOOLEAN
  BY DEF Healthy, Shaped
<1>2. \A r : ~SharesLine(r, file)
  BY NothingShared
<1>3. CASE file.ended
  BY <1>2, <1>3, AppendLine DEF Keeps
<1>4. CASE ~file.ended
  BY <1>2, <1>4, GlueToLine DEF Keeps
<1> QED BY <1>1, <1>3, <1>4

(* An append that is interrupted loses the new record or none. *)
LEMMA InterruptKeeps ==
  ASSUME NEW Pieces, NEW file, Healthy(file, Pieces), Loads(file),
         NEW piece \in Pieces, Cut \in Pieces,
         piece.seq = NextSeq(file), piece.key \notin Keys(file),
         NEW new \in Interrupted(file, piece)
  PROVE  Healthy(new, Pieces) /\ Keeps(file, new)
<1>1. new \in { file, Written(file, Cut, FALSE), Written(file, piece, FALSE),
                Written(file, piece, TRUE) }
  BY DEF Interrupted
<1>2. Keeps(file, file)
  BY DEF Keeps
<1> QED BY <1>1, <1>2, WriteKeeps

(* A repair keeps what is on a line of its own; what it takes away is in   *)
(* the bytes it puts aside.                                                *)
LEMMA RepairKeeps ==
  ASSUME NEW Pieces, NEW file, Healthy(file, Pieces), NEW ledger
  PROVE  /\ Healthy(AfterRepair(file), Pieces)
         /\ \A r : r # Cut /\ OnRecord(r, file) => OnRecord(r, AfterRepair(file))
         /\ \/ AfterRepair(file) = file /\ Backup(ledger, file) = {}
            \/ Backup(ledger, file) = {[ledger |-> ledger, file |-> file]}
<1>1. CASE TailStatus(file) = "safe_repair"
  <2> DEFINE n == Len(file.lines)
  <2>1. /\ n \in Nat \ {0} /\ Damaged(file) = {n}
        /\ AfterRepair(file).lines = SubSeq(file.lines, 1, n - 1)
        /\ AfterRepair(file).ended
    BY <1>1, RepairRemovesTail DEF AfterRepair
  <2>2. file.lines \in Seq(Seq(Pieces))
    BY DEF Healthy, Shaped
  <2>3. /\ Len(AfterRepair(file).lines) = n - 1
        /\ \A i \in 1..n - 1 : AfterRepair(file).lines[i] = file.lines[i]
    BY <2>1, <2>2
  <2>4. ~IsJson(file.lines[n])
    BY <2>1 DEF Damaged
  <2>5. ASSUME NEW r, r # Cut, OnRecord(r, file) PROVE OnRecord(r, AfterRepair(file))
    <3>1. PICK i \in 1..n : file.lines[i] = <<r>>
      BY <2>5 DEF OnRecord
    <3>2. IsJson(file.lines[i])
      BY <2>5, <3>1 DEF IsJson
    <3>3. i \in 1..n - 1
      BY <2>1, <2>4, <3>2
    <3> QED BY <2>1, <2>3, <3>1, <3>3 DEF OnRecord
  <2>6. Healthy(AfterRepair(file), Pieces)
        /\ Backup(ledger, file) = {[ledger |-> ledger, file |-> file]}
    BY <1>1, RepairedHealthy DEF AfterRepair, Backup
  <2> QED BY <2>5, <2>6
<1>2. CASE TailStatus(file) # "safe_repair"
  BY <1>2 DEF AfterRepair, Backup
<1> QED BY <1>1, <1>2

-----------------------------------------------------------------------------
(* The run. *)
Basics ==
  /\ state \in States
  /\ artifact \in [Artifacts -> Values \cup {"absent"}]
  /\ requested \in BOOLEAN
  /\ result \in Contents \cup {NoResult}
  /\ ids \in 0..MaxIds
  /\ faults \in 0..MaxFaults

Ledgers == Healthy(evidence, EvidencePieces) /\ Healthy(findings, FindingPieces)

PutAside ==
  \A b \in backups : Shaped(b.file, EvidencePieces) \/ Shaped(b.file, FindingPieces)

(* Nobody is told that a part of a record is recorded. *)
Acks == Cut \notin acked

(* A promotion goes on from what it found: the findings still load and do  *)
(* not have the claim; the result is the one that was looked at, unless it *)
(* was replaced.                                                           *)
Promotion ==
  /\ promo \in [ at : {"idle", "reviewing", "checked", "valid", "taken"},
                 claim : ClaimIds \cup {"none"},
                 candidate : Assets \cup {"none"}, seen : Contents \cup {NoResult},
                 snapshot : Claims \cup {NoClaim}, replaced : BOOLEAN ]
  /\ promo.at # "idle" => /\ result \in Contents /\ promo.claim \in ClaimIds
                          /\ Loads(findings)
  /\ promo.at \in {"idle", "reviewing"} => ~promo.replaced
  /\ promo.at = "reviewing" => promo.seen # NoResult
  /\ promo.at \in {"checked", "valid", "taken"} /\ ~promo.replaced /\ promo.seen # NoResult
       => result = promo.seen
  /\ promo.at = "taken" =>
       /\ promo.claim \notin Keys(findings)
       /\ promo.snapshot \in Claims
       /\ ~promo.replaced => /\ result.status \in {"completed", "partial"}
                             /\ result.claims[promo.claim] = promo.snapshot

IInv == Basics /\ Ledgers /\ PutAside /\ Acks /\ Promotion

USE ArtifactsAssumption, ContentsAssumption, MaxAssumption

(* The frames of these. *)
LEMMA LedgersFrame ==
  ASSUME Ledgers, PutAside, Acks, UNCHANGED <<evidence, findings, backups, acked>>
  PROVE  Ledgers' /\ PutAside' /\ Acks'
  BY DEF Ledgers, PutAside, Acks

LEMMA IdleFrame ==
  ASSUME Promotion, promo.at = "idle", UNCHANGED promo
  PROVE  Promotion'
  BY DEF Promotion

LEMMA NoResultFacts ==
  /\ NoResult \notin Contents
  /\ NoResult.status = "none" /\ DOMAIN NoResult.claims = {}
<1>1. NoResult.status = "none" /\ NoResult.claims = << >>
  BY DEF NoResult
<1>2. DOMAIN << >> = {}
  OBVIOUS
<1> QED BY <1>1, <1>2

(* Evidence: the record is typed, so it is not a torn one, and is numbered *)
(* after the last.                                                         *)
LEMMA RegisterEvidenceKeeps ==
  ASSUME Basics, Ledgers, Acks, NEW path \in Artifacts, NEW bytes \in Values \cup {"absent"},
         NEW Tells, Tells \subseteq BOOLEAN, RegisterEvidence(path, bytes, Tells),
         UNCHANGED <<findings, backups>>
  PROVE  /\ Ledgers' /\ Acks'
         /\ ids' \in 0..MaxIds /\ faults' \in 0..MaxFaults
         /\ Keeps(evidence, evidence')
         /\ \A s \in acked' \ acked : OnRecord(s, evidence') \/ SharesLine(s, evidence')
<1> DEFINE r == EvidenceRecord(path, bytes)
<1>1. /\ Loads(evidence) /\ path \notin Keys(evidence) /\ bytes \in Values
      /\ ids < MaxIds /\ ids' = ids + 1
  BY DEF RegisterEvidence, Registrable
<1>2. r.seq = NextSeq(evidence) /\ r.key = path
  BY DEF EvidenceRecord
<1>3. NextSeq(evidence) \in Nat \ {0}
  BY ShapeFacts DEF NextSeq, Ledgers, Healthy
<1>4. r \in EvidencePieces /\ r # Cut /\ Cut \in EvidencePieces
  BY <1>1, <1>3 DEF EvidenceRecord, EvidencePieces, Cut, Basics
<1> HIDE DEF r
<1>5. Healthy(evidence, EvidencePieces)
  BY DEF Ledgers
<1>6. /\ Healthy(evidence', EvidencePieces)
      /\ Keeps(evidence, evidence')
      /\ acked' \subseteq acked \cup {r}
      /\ r \in acked' => r \in acked \/ OnRecord(r, evidence') \/ SharesLine(r, evidence')
      /\ faults' \in 0..MaxFaults
  <2>1. CASE /\ evidence' = Appended(evidence, r)
             /\ \E told \in Tells : acked' = IF told THEN acked \cup {r} ELSE acked
             /\ UNCHANGED faults
    <3>1. acked' \subseteq acked \cup {r}
      BY <2>1
    <3> QED BY <1>1, <1>2, <1>4, <1>5, <2>1, <3>1, WriteKeeps DEF Appended, Basics
  <2>2. CASE /\ faults < MaxFaults
             /\ faults' = faults + 1
             /\ evidence' \in Interrupted(evidence, r) \ {evidence}
             /\ UNCHANGED acked
    <3>1. Healthy(evidence', EvidencePieces) /\ Keeps(evidence, evidence')
      BY <1>1, <1>2, <1>4, <1>5, <2>2, InterruptKeeps
    <3> QED BY <2>2, <3>1 DEF Basics
  <2> QED BY <2>1, <2>2 DEF RegisterEvidence, r
<1>7. /\ Acks'
      /\ \A s \in acked' \ acked : OnRecord(s, evidence') \/ SharesLine(s, evidence')
  BY <1>4, <1>6 DEF Acks
<1>8. Ledgers'
  BY <1>6 DEF Ledgers
<1>9. ids' \in 0..MaxIds
  BY <1>1 DEF Basics
<1> QED BY <1>6, <1>7, <1>8, <1>9

LEMMA RegisterKeeps ==
  ASSUME IInv, NEW path \in Artifacts, RegisterRoute(path) \/ RegisterCommand(path)
  PROVE  IInv'
<1>1. PICK Tells \in SUBSET BOOLEAN : Register(path, Tells)
  BY DEF RegisterRoute, RegisterCommand
<1>2. /\ promo.at = "idle" /\ RegisterEvidence(path, artifact[path], Tells)
      /\ UNCHANGED <<state, artifact, findings, backups, requested, result, promo>>
  BY <1>1 DEF Register
<1>3. artifact[path] \in Values \cup {"absent"}
  BY DEF IInv, Basics
<1>4. Ledgers' /\ Acks' /\ ids' \in 0..MaxIds /\ faults' \in 0..MaxFaults
  BY <1>2, <1>3, RegisterEvidenceKeeps DEF IInv
<1>5. Promotion'
  BY <1>2, IdleFrame DEF IInv
<1> QED BY <1>2, <1>4, <1>5 DEF IInv, Basics, PutAside

LEMMA ImportKeeps ==
  ASSUME IInv, NEW path \in DOMAIN Legacy, Import(path)
  PROVE  IInv'
<1>1. /\ promo.at = "idle"
      /\ UNCHANGED <<state, findings, backups, requested, result, promo>>
      /\ path \in Artifacts
  BY DEF Import
<1>2. Promotion' /\ PutAside'
  BY <1>1, IdleFrame DEF IInv, PutAside
<1>3. CASE CopyTorn(path)
  <2>1. artifact' \in [Artifacts -> Values \cup {"absent"}]
    BY <1>3 DEF CopyTorn, IInv, Basics, Values
  <2>2. UNCHANGED <<evidence, ids, acked>> /\ faults' \in 0..MaxFaults
    BY <1>3 DEF CopyTorn, IInv, Basics
  <2>3. Ledgers' /\ Acks'
    BY <1>1, <2>2, LedgersFrame DEF IInv
  <2> QED BY <1>1, <1>2, <2>1, <2>2, <2>3 DEF IInv, Basics
<1>4. CASE ~CopyTorn(path)
  <2>1. Copied(path) \in Values \cup {"absent"}
    BY <1>1 DEF Copied, IInv, Basics, Values
  <2>2. artifact' = [artifact EXCEPT ![path] = Copied(path)]
    BY <1>4 DEF Import
  <2>3. artifact' \in [Artifacts -> Values \cup {"absent"}]
    BY <1>1, <2>1, <2>2 DEF IInv, Basics
  <2>4. Ledgers' /\ Acks' /\ ids' \in 0..MaxIds /\ faults' \in 0..MaxFaults
    <3>1. CASE RegisterEvidence(path, Copied(path), {FALSE})
      <4>1. {FALSE} \subseteq BOOLEAN
        OBVIOUS
      <4> QED BY <1>1, <2>1, <3>1, <4>1, RegisterEvidenceKeeps DEF IInv
    <3>2. CASE UNCHANGED <<evidence, ids, acked, faults>>
      BY <1>1, <3>2, LedgersFrame DEF IInv, Basics
    <3> QED BY <1>4, <3>1, <3>2 DEF Import
  <2> QED BY <1>1, <1>2, <2>3, <2>4 DEF IInv, Basics
<1> QED BY <1>3, <1>4

(* Repair. *)
LEMMA RepairStepKeeps ==
  ASSUME IInv, Repair
  PROVE  IInv'
<1>1. /\ promo.at = "idle"
      /\ evidence' = AfterRepair(evidence) /\ findings' = AfterRepair(findings)
      /\ backups' \subseteq backups \cup Backup("evidence", evidence)
                                  \cup Backup("findings", findings)
      /\ UNCHANGED <<state, artifact, requested, result, promo, ids, acked, faults>>
  BY DEF Repair
<1>2. Basics' /\ Promotion'
  BY <1>1, IdleFrame DEF IInv, Basics
<1>3. Healthy(evidence, EvidencePieces) /\ Healthy(findings, FindingPieces)
  BY DEF IInv, Ledgers
<1>4. Ledgers'
  BY <1>1, <1>3, RepairKeeps DEF Ledgers
<1>5. PutAside'
  <2> SUFFICES ASSUME NEW b \in backups'
               PROVE  Shaped(b.file, EvidencePieces) \/ Shaped(b.file, FindingPieces)
    BY DEF PutAside
  <2>1. \/ b \in backups
        \/ b = [ledger |-> "evidence", file |-> evidence]
        \/ b = [ledger |-> "findings", file |-> findings]
    BY <1>1 DEF Backup
  <2> QED BY <1>3, <2>1 DEF IInv, PutAside, Healthy
<1>6. Acks'
  BY <1>1 DEF IInv, Acks
<1> QED BY <1>2, <1>4, <1>5, <1>6 DEF IInv

-----------------------------------------------------------------------------
(* Promotion.  A result that has candidates is one the skill wrote. *)
LEMMA CandidateFacts ==
  ASSUME Basics, NEW k \in Candidates
  PROVE  result \in Contents /\ k \in ClaimIds /\ k \in DOMAIN result.claims
  BY NoResultFacts DEF Basics, Candidates

LEMMA AskedKeeps ==
  ASSUME IInv, NEW k \in Candidates, NEW candidate \in Assets,
         Review(k, candidate) \/ PromoteCommand(k, candidate)
  PROVE  IInv'
<1>1. /\ Loads(findings)
      /\ faults' = (IF AsOffered(k, candidate) THEN faults ELSE faults + 1)
      /\ AsOffered(k, candidate) \/ faults < MaxFaults
      /\ UNCHANGED <<state, artifact, evidence, findings, backups, requested,
                     result, ids, acked>>
  BY DEF Review, PromoteCommand, Asked
<1>2. Ledgers' /\ PutAside' /\ Acks'
  BY <1>1, LedgersFrame DEF IInv
<1>3. Basics'
  BY <1>1 DEF IInv, Basics
<1>4. result \in Contents /\ k \in ClaimIds /\ result # NoResult
  BY CandidateFacts, NoResultFacts DEF IInv
<1>5. Promotion'
  <2>1. CASE Review(k, candidate)
    <3>1. promo' = [at |-> "reviewing", claim |-> k, candidate |-> candidate, seen |-> result,
                    snapshot |-> NoClaim, replaced |-> FALSE]
      BY <2>1 DEF Review, Asked, Idle
    <3> QED BY <1>1, <1>4, <3>1 DEF Promotion
  <2>2. CASE PromoteCommand(k, candidate)
    <3>1. promo' = [at |-> "checked", claim |-> k, candidate |-> candidate, seen |-> NoResult,
                    snapshot |-> NoClaim, replaced |-> FALSE]
      BY <2>2 DEF PromoteCommand, Asked, Idle
    <3> QED BY <1>1, <1>4, <3>1 DEF Promotion
  <2> QED BY <2>1, <2>2
<1> QED BY <1>2, <1>3, <1>5 DEF IInv

LEMMA PromoStepFrame ==
  ASSUME IInv, NEW next, PromoStep(next), Promotion'
  PROVE  IInv'
<1>1. UNCHANGED <<state, artifact, evidence, findings, backups, requested,
                  result, ids, acked, faults>>
  BY DEF PromoStep
<1> QED BY <1>1, LedgersFrame DEF IInv, Basics

LEMMA GivenUp ==
  ASSUME PromoStep(Idle)
  PROVE  Promotion'
  BY DEF PromoStep, Idle, Promotion

LEMMA LookingKeeps ==
  ASSUME IInv, CheckHash \/ Validate \/ TakeClaim
  PROVE  IInv'
<1>1. CASE PromoStep(Idle)
  BY <1>1, GivenUp, PromoStepFrame
<1>2. CASE CheckHash /\ ~PromoStep(Idle)
  <2>1. promo.at = "reviewing" /\ result = promo.seen /\ PromoStep([promo EXCEPT !.at = "checked"])
    BY <1>2 DEF CheckHash, Fresh
  <2>2. Promotion'
    BY <2>1 DEF IInv, Promotion, PromoStep
  <2> QED BY <2>1, <2>2, PromoStepFrame
<1>3. CASE Validate /\ ~PromoStep(Idle)
  <2>1. promo.at = "checked" /\ PromoStep([promo EXCEPT !.at = "valid"])
    BY <1>3 DEF Validate
  <2>2. Promotion'
    BY <2>1 DEF IInv, Promotion, PromoStep
  <2> QED BY <2>1, <2>2, PromoStepFrame
<1>4. CASE TakeClaim /\ ~PromoStep(Idle)
  <2> DEFINE claim == promo.claim
  <2>1. /\ promo.at = "valid" /\ Promotable(claim, promo.candidate)
        /\ PromoStep([promo EXCEPT !.at = "taken", !.snapshot = result.claims[claim]])
    BY <1>4 DEF TakeClaim
  <2>2. /\ result.status \in {"completed", "partial"}
        /\ claim \in Candidates /\ claim \notin Keys(findings)
    BY <2>1 DEF Promotable
  <2>3. result \in Contents /\ claim \in DOMAIN result.claims
    BY <2>2, CandidateFacts DEF IInv
  <2>4. result.claims[claim] \in Claims
    BY <2>3 DEF Claims
  <2>5. Promotion'
    BY <2>1, <2>2, <2>4 DEF IInv, Promotion, PromoStep
  <2> QED BY <2>1, <2>5, PromoStepFrame
<1> QED BY <1>1, <1>2, <1>3, <1>4

LEMMA RecordKeeps ==
  ASSUME IInv, Record
  PROVE  /\ IInv'
         /\ Keeps(findings, findings')
         /\ \A s \in acked' \ acked : OnRecord(s, findings') \/ SharesLine(s, findings')
<1> DEFINE f == FindingRecord(result)
<1>1. /\ promo.at = "taken" /\ promo' = Idle
      /\ UNCHANGED <<state, artifact, evidence, backups, requested, result, ids>>
  BY DEF Record
<1>2. Promotion'
  BY <1>1 DEF Idle, Promotion
<1>3. /\ result \in Contents /\ promo.claim \in ClaimIds /\ promo.snapshot \in Claims
      /\ Loads(findings) /\ promo.claim \notin Keys(findings)
  BY <1>1 DEF IInv, Promotion
<1>4. /\ f = [seq |-> NextSeq(findings), key |-> promo.claim, snapshot |-> promo.snapshot,
              source |-> result, seen |-> promo.seen, replaced |-> promo.replaced]
      /\ f.seq = NextSeq(findings) /\ f.key = promo.claim
  BY DEF FindingRecord
<1>5. NextSeq(findings) \in Nat \ {0}
  BY ShapeFacts DEF NextSeq, IInv, Ledgers, Healthy
<1>6. Faithful(f)
  BY <1>1, <1>4 DEF Faithful, IInv, Promotion
<1>7. f \in FindingPieces /\ Cut \in FindingPieces
  BY <1>3, <1>4, <1>5, <1>6 DEF FindingPieces, IInv, Promotion
<1>8. f # Cut
  BY <1>4, <1>5 DEF Cut
<1> HIDE DEF f
<1>9. Healthy(findings, FindingPieces)
  BY DEF IInv, Ledgers
<1>10. /\ Healthy(findings', FindingPieces)
       /\ Keeps(findings, findings')
       /\ faults' \in 0..MaxFaults
       /\ acked' \subseteq acked \cup {f}
       /\ f \in acked' => f \in acked \/ OnRecord(f, findings') \/ SharesLine(f, findings')
  <2>1. CASE /\ findings' = Appended(findings, f)
             /\ \E told \in {{f}, {}} : acked' = acked \cup told
             /\ UNCHANGED faults
    <3>1. /\ Healthy(findings', FindingPieces) /\ Keeps(findings, findings')
          /\ OnRecord(f, findings') \/ SharesLine(f, findings')
      BY <1>3, <1>4, <1>7, <1>9, <2>1, WriteKeeps DEF Appended
    <3> QED BY <2>1, <3>1 DEF IInv, Basics
  <2>2. CASE /\ faults < MaxFaults
             /\ faults' = faults + 1
             /\ findings' \in Interrupted(findings, f)
             /\ UNCHANGED acked
    <3>1. Healthy(findings', FindingPieces) /\ Keeps(findings, findings')
      BY <1>3, <1>4, <1>7, <1>9, <2>2, InterruptKeeps
    <3> QED BY <2>2, <3>1 DEF IInv, Basics
  <2> QED BY <2>1, <2>2 DEF Record, f
<1>11. /\ Acks'
       /\ \A s \in acked' \ acked : OnRecord(s, findings') \/ SharesLine(s, findings')
  BY <1>8, <1>10 DEF IInv, Acks
<1>12. Ledgers'
  BY <1>1, <1>10 DEF IInv, Ledgers
<1> QED BY <1>1, <1>2, <1>10, <1>11, <1>12 DEF IInv, Basics, PutAside

-----------------------------------------------------------------------------
(* The guide, and the world outside. *)
LEMMA IdleStepKeeps ==
  ASSUME IInv, PrepareRequest \/ Archive \/ (\E action \in DOMAIN GuideTarget : GuideAction(action))
  PROVE  IInv'
<1>1. /\ promo.at = "idle"
      /\ UNCHANGED <<artifact, evidence, findings, backups, result, promo, ids, acked, faults>>
  BY DEF PrepareRequest, Archive, GuideAction
<1>2. Ledgers' /\ PutAside' /\ Acks' /\ Promotion'
  BY <1>1, LedgersFrame, IdleFrame DEF IInv
<1>3. state' \in States /\ requested' \in BOOLEAN
  <2>1. CASE PrepareRequest
    BY <2>1 DEF PrepareRequest, CreateSkillRequest, IInv, Basics
  <2>2. CASE Archive
    BY <2>2 DEF Archive, States, IInv, Basics
  <2>3. ASSUME NEW action \in DOMAIN GuideTarget, GuideAction(action)
        PROVE  state' \in States /\ requested' \in BOOLEAN
    <3>1. GuideTarget[action] \in States
      BY DEF GuideTarget, States
    <3> QED BY <2>3, <3>1 DEF GuideAction, IInv, Basics
  <2> QED BY <2>1, <2>2, <2>3
<1> QED BY <1>1, <1>2, <1>3 DEF IInv, Basics

LEMMA AnswerKeeps ==
  ASSUME IInv, NEW content \in Contents, Answer(content)
  PROVE  IInv'
<1>1. /\ result = NoResult /\ result' = content
      /\ UNCHANGED <<state, artifact, evidence, findings, backups, requested,
                     promo, ids, acked, faults>>
  BY DEF Answer
<1>2. promo.at = "idle"
  BY <1>1, NoResultFacts DEF IInv, Promotion
<1>3. Ledgers' /\ PutAside' /\ Acks' /\ Promotion'
  BY <1>1, <1>2, LedgersFrame, IdleFrame DEF IInv
<1> QED BY <1>1, <1>3 DEF IInv, Basics

LEMMA RewriteKeeps ==
  ASSUME IInv, NEW content \in Contents, Rewrite(content)
  PROVE  IInv'
<1>1. /\ faults < MaxFaults /\ faults' = faults + 1 /\ result' = content
      /\ promo' = [promo EXCEPT !.replaced = promo.at \in {"checked", "valid", "taken"}]
      /\ UNCHANGED <<state, artifact, evidence, findings, backups, requested, ids, acked>>
  BY DEF Rewrite
<1>2. Ledgers' /\ PutAside' /\ Acks'
  BY <1>1, LedgersFrame DEF IInv
<1>3. Basics'
  BY <1>1 DEF IInv, Basics
<1>4. Promotion'
  <2>1. CASE promo.at \in {"checked", "valid", "taken"}
    <3>1. promo' = [promo EXCEPT !.replaced = TRUE]
      BY <1>1, <2>1
    <3> QED BY <1>1, <2>1, <3>1 DEF IInv, Promotion
  <2>2. CASE promo.at \notin {"checked", "valid", "taken"}
    <3> DEFINE past == promo.at \in {"checked", "valid", "taken"}
    <3>2. past = FALSE /\ promo' = [promo EXCEPT !.replaced = past]
      BY <1>1, <2>2
    <3> HIDE DEF past
    <3>1. promo' = [promo EXCEPT !.replaced = FALSE]
      BY <3>2
    <3> QED BY <1>1, <2>2, <3>1 DEF IInv, Promotion
  <2> QED BY <2>1, <2>2
<1> QED BY <1>2, <1>3, <1>4 DEF IInv

LEMMA OverwriteKeeps ==
  ASSUME IInv, NEW path \in Artifacts, NEW bytes \in Bytes \cup {"absent"},
         Overwrite(path, bytes)
  PROVE  IInv'
<1>1. /\ faults < MaxFaults /\ faults' = faults + 1
      /\ artifact' = [artifact EXCEPT ![path] = bytes]
      /\ UNCHANGED <<state, evidence, findings, backups, requested, result,
                     promo, ids, acked>>
  BY DEF Overwrite
<1>2. Ledgers' /\ PutAside' /\ Acks'
  BY <1>1, LedgersFrame DEF IInv
<1>3. Basics'
  BY <1>1 DEF IInv, Basics, Values
<1>4. Promotion'
  BY <1>1 DEF IInv, Promotion
<1> QED BY <1>2, <1>3, <1>4 DEF IInv

-----------------------------------------------------------------------------
LEMMA EmptyHealthy ==
  ASSUME NEW Pieces
  PROVE  Healthy(EmptyLedger, Pieces)
<1>1. << >> \in Seq(Seq(Pieces)) /\ Len(<< >>) = 0
  OBVIOUS
<1> QED BY <1>1 DEF Healthy, Shaped, Undamaged, Damaged, EmptyLedger

LEMMA InitIInv == Init => IInv
<1> SUFFICES ASSUME Init PROVE IInv
  OBVIOUS
<1>1. Basics
  <2>1. state \in States
    BY DEF Init, States, InitialState
  <2>2. artifact \in [Artifacts -> Values \cup {"absent"}]
    BY DEF Init, Values
  <2>3. 0 \in 0..MaxIds /\ 0 \in 0..MaxFaults
    OBVIOUS
  <2> QED BY <2>1, <2>2, <2>3 DEF Init, Basics
<1>2. Ledgers
  BY EmptyHealthy DEF Init, Ledgers
<1>3. PutAside /\ Acks
  BY DEF Init, PutAside, Acks
<1>4. Promotion
  BY DEF Init, Promotion, Idle
<1> QED BY <1>1, <1>2, <1>3, <1>4 DEF IInv

LEMMA NextIInv == IInv /\ [Next]_vars => IInv'
<1> SUFFICES ASSUME IInv, [Next]_vars PROVE IInv'
  OBVIOUS
<1>1. CASE Next
  <2>1. ASSUME NEW path \in Artifacts, RegisterRoute(path) \/ RegisterCommand(path)
        PROVE  IInv'
    BY <2>1, RegisterKeeps
  <2>2. CASE ImportTarget
    BY <2>2, ImportKeeps DEF ImportTarget
  <2>3. CASE Repair
    BY <2>3, RepairStepKeeps
  <2>4. CASE PrepareRequest \/ Guide \/ Archive
    BY <2>4, IdleStepKeeps DEF Guide
  <2>5. ASSUME NEW k \in Candidates, NEW candidate \in Assets,
               Review(k, candidate) \/ PromoteCommand(k, candidate)
        PROVE  IInv'
    BY <2>5, AskedKeeps
  <2>6. CASE Promote
    BY <2>6, LookingKeeps, RecordKeeps DEF Promote
  <2>7. ASSUME NEW content \in Contents, Answer(content) \/ Rewrite(content) PROVE IInv'
    BY <2>7, AnswerKeeps, RewriteKeeps
  <2>8. ASSUME NEW path \in Artifacts, NEW bytes \in Bytes \cup {"absent"},
               Overwrite(path, bytes)
        PROVE  IInv'
    BY <2>8, OverwriteKeeps
  <2> QED BY <1>1, <2>1, <2>2, <2>3, <2>4, <2>5, <2>6, <2>7, <2>8 DEF Next
<1>2. CASE UNCHANGED vars
  <2>1. UNCHANGED <<state, artifact, evidence, findings, backups, requested,
                    result, promo, ids, acked, faults>>
    BY <1>2 DEF vars
  <2>2. Ledgers' /\ PutAside' /\ Acks'
    BY <2>1, LedgersFrame DEF IInv
  <2>3. Promotion' /\ Basics'
    BY <2>1 DEF IInv, Promotion, Basics
  <2> QED BY <2>2, <2>3 DEF IInv
<1> QED BY <1>1, <1>2

LEMMA Invariance == Spec => []IInv
<1>1. Init => IInv
  BY InitIInv
<1>2. IInv /\ [Next]_vars => IInv'
  BY NextIInv
<1> QED BY <1>1, <1>2, PTL DEF Spec

(* Every variable holds a value of its kind, whatever crashes and whoever  *)
(* changes the files.                                                      *)
THEOREM ReviewTypes == Spec => []TypeOK
<1>1. IInv => TypeOK
  <2> SUFFICES ASSUME IInv PROVE TypeOK
    OBVIOUS
  <2>1. ASSUME NEW file \in {evidence, findings} \cup {b.file : b \in backups}
        PROVE  /\ file.ended \in BOOLEAN
               /\ \A i \in 1..Len(file.lines) : Len(file.lines[i]) \in 1..2
    <3>1. Shaped(file, EvidencePieces) \/ Shaped(file, FindingPieces)
      BY DEF IInv, Ledgers, Healthy, PutAside
    <3> QED BY <3>1 DEF Shaped
  <2>2. DOMAIN artifact = Artifacts
    BY DEF IInv, Basics
  <2> QED BY <2>1, <2>2 DEF TypeOK, IInv, Basics, Promotion
<1> QED BY <1>1, Invariance, PTL

(* A ledger that looks right line by line loads, and so does one that was  *)
(* repaired: numbering and uniqueness survive every crash.                 *)
THEOREM RepairIsEnough == Spec => []RepairHeals
<1>1. IInv => RepairHeals
  <2> SUFFICES ASSUME IInv, NEW file \in {evidence, findings}
               PROVE  /\ TailStatus(file) = "ok" => Loads(file)
                      /\ TailStatus(file) = "safe_repair" => Loads(Repaired(file))
    BY DEF RepairHeals
  <2>1. Healthy(file, EvidencePieces) \/ Healthy(file, FindingPieces)
    BY DEF IInv, Ledgers
  <2> QED BY <2>1, HealthyTail, HealthyLoads, RepairedHealthy
<1> QED BY <1>1, Invariance, PTL

(* No sequence of crashes, appends and repairs leaves damage before a line *)
(* that is good: repair never has to leave a ledger to a human.            *)
THEOREM CrashesLeaveATail == Spec => []DamageIsRepairable
<1>1. IInv => DamageIsRepairable
  <2> SUFFICES ASSUME IInv, NEW file \in {evidence, findings} PROVE TailStatus(file) # "manual"
    BY DEF DamageIsRepairable
  <2>1. Healthy(file, EvidencePieces) \/ Healthy(file, FindingPieces)
    BY DEF IInv, Ledgers
  <2> QED BY <2>1, HealthyTail
<1> QED BY <1>1, Invariance, PTL

(* What a step does to the records somebody was told about. *)
LEMMA KeptWhenKeeps ==
  ASSUME NEW old, NEW new, NEW r, Keeps(old, new)
  PROVE  IsKept(r, old, new)
  BY DEF Keeps, IsKept

LEMMA KeptByRepair ==
  ASSUME IInv, Repair, NEW r, r # Cut
  PROVE  IsKept(r, evidence, evidence') /\ IsKept(r, findings, findings')
<1>1. /\ evidence' = AfterRepair(evidence) /\ findings' = AfterRepair(findings)
      /\ Backup("evidence", evidence) \subseteq backups'
      /\ Backup("findings", findings) \subseteq backups'
  BY DEF Repair
<1>2. IsKept(r, evidence, evidence')
  <2>1. Healthy(evidence, EvidencePieces)
    BY DEF IInv, Ledgers
  <2>2. /\ OnRecord(r, evidence) => OnRecord(r, evidence')
        /\ \/ evidence' = evidence
           \/ [ledger |-> "evidence", file |-> evidence] \in backups'
    BY <1>1, <2>1, RepairKeeps
  <2> QED BY <2>2 DEF IsKept
<1>3. IsKept(r, findings, findings')
  <2>1. Healthy(findings, FindingPieces)
    BY DEF IInv, Ledgers
  <2>2. /\ OnRecord(r, findings) => OnRecord(r, findings')
        /\ \/ findings' = findings
           \/ [ledger |-> "findings", file |-> findings] \in backups'
    BY <1>1, <2>1, RepairKeeps
  <2> QED BY <2>2 DEF IsKept
<1> QED BY <1>2, <1>3

(* The record is on a line of one of the ledgers. *)
Recorded(r) == \E file \in {evidence', findings'} : OnRecord(r, file) \/ SharesLine(r, file)

LEMMA OthersLeaveLedgers ==
  ASSUME Next
  PROVE  \/ UNCHANGED <<evidence, findings, acked>>
         \/ \E path \in Artifacts : RegisterRoute(path) \/ RegisterCommand(path)
         \/ ImportTarget \/ Repair \/ Record
<1>1. ASSUME NEW k, NEW candidate, Review(k, candidate) \/ PromoteCommand(k, candidate)
      PROVE  UNCHANGED <<evidence, findings, acked>>
  BY <1>1 DEF Review, PromoteCommand, Asked
<1>2. CASE Promote
  BY <1>2 DEF Promote, CheckHash, Validate, TakeClaim, PromoStep
<1>3. CASE PrepareRequest \/ Guide \/ Archive
  BY <1>3 DEF PrepareRequest, Guide, GuideAction, Archive
<1>4. ASSUME NEW content, Answer(content) \/ Rewrite(content)
      PROVE  UNCHANGED <<evidence, findings, acked>>
  BY <1>4 DEF Answer, Rewrite
<1>5. ASSUME NEW path, NEW bytes, Overwrite(path, bytes)
      PROVE  UNCHANGED <<evidence, findings, acked>>
  BY <1>5 DEF Overwrite
<1> QED BY <1>1, <1>2, <1>3, <1>4, <1>5 DEF Next

LEMMA RegistrationKeeps ==
  ASSUME IInv,
         (\E path \in Artifacts : RegisterRoute(path) \/ RegisterCommand(path)) \/ ImportTarget
  PROVE  /\ Keeps(evidence, evidence') /\ findings' = findings
         /\ \A r \in acked' \ acked : OnRecord(r, evidence') \/ SharesLine(r, evidence')
<1>1. Basics /\ Ledgers /\ Acks
  BY DEF IInv
<1>2. CASE UNCHANGED <<evidence, findings, acked>>
  BY <1>2 DEF Keeps
<1>3. ASSUME NEW path \in Artifacts, NEW bytes \in Values \cup {"absent"},
             NEW Tells \in SUBSET BOOLEAN, RegisterEvidence(path, bytes, Tells),
             UNCHANGED <<findings, backups>>
      PROVE  /\ Keeps(evidence, evidence') /\ findings' = findings
             /\ \A r \in acked' \ acked : OnRecord(r, evidence') \/ SharesLine(r, evidence')
  BY <1>1, <1>3, RegisterEvidenceKeeps
<1>4. ASSUME NEW path \in Artifacts, RegisterRoute(path) \/ RegisterCommand(path)
      PROVE  \E Tells \in SUBSET BOOLEAN :
               /\ RegisterEvidence(path, artifact[path], Tells)
               /\ UNCHANGED <<findings, backups>>
               /\ artifact[path] \in Values \cup {"absent"}
  BY <1>1, <1>4 DEF RegisterRoute, RegisterCommand, Register, Basics
<1>5. ASSUME NEW path \in DOMAIN Legacy, Import(path), ~UNCHANGED <<evidence, findings, acked>>
      PROVE  /\ RegisterEvidence(path, Copied(path), {FALSE})
             /\ UNCHANGED <<findings, backups>>
             /\ path \in Artifacts /\ Copied(path) \in Values \cup {"absent"}
  BY <1>1, <1>5 DEF Import, CopyTorn, Copied, Basics, Values
<1>6. {FALSE} \in SUBSET BOOLEAN
  OBVIOUS
<1>7. CASE \E path \in Artifacts : RegisterRoute(path) \/ RegisterCommand(path)
  BY <1>3, <1>4, <1>7
<1>8. CASE ImportTarget
  BY <1>2, <1>3, <1>5, <1>6, <1>8 DEF ImportTarget
<1> QED BY <1>7, <1>8

(* A record somebody was told about keeps its line under every append,     *)
(* crash and repair, when its own append found the last line ended         *)
(* (repair.py:48-69); of the others a repair leaves a copy                 *)
(* (repair.py:169-175).                                                    *)
THEOREM AcknowledgedLinesStay == Spec => AcknowledgedIsKept
<1>1. IInv /\ [Next]_vars =>
        [ /\ \A r \in acked : IsKept(r, evidence, evidence') /\ IsKept(r, findings, findings')
          /\ \A r \in acked' \ acked :
               \E file \in {evidence', findings'} : OnRecord(r, file) \/ SharesLine(r, file) ]_vars
  <2> SUFFICES ASSUME IInv, Next
               PROVE  /\ \A r \in acked :
                           IsKept(r, evidence, evidence') /\ IsKept(r, findings, findings')
                      /\ \A r \in acked' \ acked : Recorded(r)
    BY DEF Recorded
  <2>1. \A r \in acked : r # Cut
    BY DEF IInv, Acks
  <2>2. Keeps(evidence, evidence) /\ Keeps(findings, findings)
    BY DEF Keeps
  <2>3. CASE UNCHANGED <<evidence, findings, acked>>
    BY <2>2, <2>3, KeptWhenKeeps
  <2>4. CASE (\E path \in Artifacts : RegisterRoute(path) \/ RegisterCommand(path)) \/ ImportTarget
    <3>1. /\ Keeps(evidence, evidence') /\ findings' = findings
          /\ \A r \in acked' \ acked : Recorded(r)
      BY <2>4, RegistrationKeeps DEF Recorded
    <3> QED BY <2>2, <3>1, KeptWhenKeeps
  <2>5. CASE Repair
    <3>1. acked' = acked
      BY <2>5 DEF Repair
    <3> QED BY <2>1, <2>5, <3>1, KeptByRepair
  <2>6. CASE Record
    <3>1. /\ Keeps(findings, findings') /\ evidence' = evidence
          /\ \A r \in acked' \ acked : Recorded(r)
      BY <2>6, RecordKeeps DEF Recorded, Record
    <3> QED BY <2>2, <3>1, KeptWhenKeeps
  <2> QED BY <2>3, <2>4, <2>5, <2>6, OthersLeaveLedgers
<1> QED BY <1>1, Invariance, PTL DEF Spec, AcknowledgedIsKept

(* The findings of a registry that loads are records of their kind. *)
LEMMA RecordsTyped ==
  ASSUME NEW Pieces, NEW file, Healthy(file, Pieces), Loads(file), NEW r \in Records(file)
  PROVE  r \in Pieces /\ r # Cut
<1>1. PICK i \in 1..Len(file.lines) : r = file.lines[i][1]
  BY DEF Records
<1> QED BY <1>1, ShapeFacts, LoadsFacts DEF Healthy

(* A finding that verifies is the claim as it was judged, and unless the   *)
(* result was replaced meanwhile it is the claim the reviewer saw.         *)
THEOREM VerifiedFindingsWereReviewed == Spec => []VerifiedMeansReviewed
<1>1. IInv => VerifiedMeansReviewed
  <2> SUFFICES ASSUME IInv, Loads(findings), NEW f \in Records(findings), FindingVerifies(f)
               PROVE  /\ result.claims[f.key] = f.snapshot
                      /\ ~f.replaced => result.status \in {"completed", "partial"}
                      /\ ~f.replaced /\ f.seen # NoResult => f.seen.claims[f.key] = f.snapshot
    BY DEF VerifiedMeansReviewed
  <2>1. f \in FindingPieces /\ f # Cut
    BY RecordsTyped DEF IInv, Ledgers
  <2>2. Faithful(f)
    BY <2>1 DEF FindingPieces
  <2>3. result = f.source /\ result.claims[f.key] = f.snapshot
    BY DEF FindingVerifies, SourceVerifies
  <2> QED BY <2>2, <2>3 DEF Faithful
<1> QED BY <1>1, Invariance, PTL

-----------------------------------------------------------------------------
(* What is offered is supported, and passes every check of a promotion.    *)
LEMMA OfferedPasses ==
  ASSUME IInv, NEW k, NEW candidate, AsOffered(k, candidate)
  PROVE  Supported(k) /\ ResultValid /\ Promotable(k, candidate)
<1>1. k \in Candidates
  BY DEF AsOffered, Eligible, Unpromoted
<1>2. result \in Contents
  BY <1>1, CandidateFacts DEF IInv
<1>3. result.status \in {"completed", "partial"}
  BY <1>2 DEF AsOffered, Eligible
<1> QED BY <1>1, <1>3 DEF AsOffered, Eligible, Supported, Promotable, Unpromoted

(* A promotion of what the page offers is not refused at any of its        *)
(* checks, unless the result was changed meanwhile.                        *)
THEOREM OffersHold == Spec => OfferedIsPromoted
<1>1. IInv /\ [Next]_vars =>
        [ /\ promo.at \in {"reviewing", "checked", "valid"}
          /\ AsOffered(promo.claim, promo.candidate)
          /\ promo.seen \in {result, NoResult} /\ ~promo.replaced
          => promo'.at # "idle" /\ Supported(promo.claim) ]_vars
  <2> SUFFICES ASSUME IInv, Next,
                      promo.at \in {"reviewing", "checked", "valid"},
                      AsOffered(promo.claim, promo.candidate),
                      promo.seen \in {result, NoResult}
               PROVE  promo'.at # "idle" /\ Supported(promo.claim)
    OBVIOUS
  <2>1. Supported(promo.claim) /\ ResultValid /\ Promotable(promo.claim, promo.candidate)
    BY OfferedPasses
  <2>2. promo.at = "reviewing" => Fresh(promo.seen)
    BY DEF IInv, Promotion, Fresh
  <2>3. promo \in [ at : {"idle", "reviewing", "checked", "valid", "taken"},
                    claim : ClaimIds \cup {"none"}, candidate : Assets \cup {"none"},
                    seen : Contents \cup {NoResult}, snapshot : Claims \cup {NoClaim}, replaced : BOOLEAN ]
    BY DEF IInv, Promotion
  <2>4. CASE Promote
    BY <2>1, <2>2, <2>3, <2>4 DEF Promote, CheckHash, Validate, TakeClaim, Record, PromoStep
  <2>5. CASE \E content \in Contents : Answer(content) \/ Rewrite(content)
    BY <2>1, <2>3, <2>5 DEF Answer, Rewrite
  <2>6. CASE \E path \in Artifacts, bytes \in Bytes \cup {"absent"} : Overwrite(path, bytes)
    BY <2>1, <2>6 DEF Overwrite
  <2>7. CASE promo.at = "idle"
    BY <2>7
  <2>8. Promote \/ promo.at = "idle"
        \/ (\E content \in Contents : Answer(content) \/ Rewrite(content))
        \/ (\E path \in Artifacts, bytes \in Bytes \cup {"absent"} : Overwrite(path, bytes))
    BY DEF Next, Register, RegisterRoute, RegisterCommand, ImportTarget, Import,
      PrepareRequest, Repair, Review, PromoteCommand, Asked, Guide, GuideAction, Archive
  <2> QED BY <2>1, <2>4, <2>5, <2>6, <2>7, <2>8
<1> QED BY <1>1, Invariance, PTL DEF Spec, OfferedIsPromoted

(* No command breaks the evidence of a registered artifact, an import that *)
(* is repeated included.                                                   *)
THEOREM CommandsLeaveEvidence == Spec => EvidenceStaysIntact
<1>1. IInv /\ [Next]_vars =>
        [ Loads(evidence) /\ faults' = faults =>
            \A r \in Records(evidence) : Intact(r) => artifact'[r.key] = r.bytes ]_vars
  <2> SUFFICES ASSUME IInv, Next, Loads(evidence), faults' = faults,
                      NEW r \in Records(evidence), Intact(r)
               PROVE  artifact'[r.key] = r.bytes
    OBVIOUS
  <2>1. r \in EvidencePieces /\ r # Cut
    BY RecordsTyped DEF IInv, Ledgers
  <2>2. r.key \in Artifacts /\ r.bytes # "absent" /\ artifact[r.key] = r.bytes
    BY <2>1 DEF EvidencePieces, Values, Intact
  <2>3. artifact \in [Artifacts -> Values \cup {"absent"}] /\ faults \in Nat
    BY DEF IInv, Basics
  <2>4. CASE artifact' = artifact
    BY <2>2, <2>4
  <2>5. CASE \E path \in DOMAIN Legacy : Import(path)
    <3>1. PICK path \in DOMAIN Legacy : Import(path)
      BY <2>5
    <3>2. ~CopyTorn(path)
      BY <2>3 DEF CopyTorn
    <3>3. artifact' = [artifact EXCEPT ![path] = Copied(path)]
      BY <3>1, <3>2 DEF Import
    <3>4. path = r.key => Copied(path) = r.bytes
      BY <2>2 DEF Copied, OnDisk
    <3> QED BY <2>2, <2>3, <3>3, <3>4
  <2>6. ASSUME NEW path \in Artifacts, NEW bytes \in Bytes \cup {"absent"}
        PROVE  ~Overwrite(path, bytes)
    BY <2>3 DEF Overwrite
  <2>7. CASE Promote \/ Repair \/ PrepareRequest \/ Guide \/ Archive
    BY <2>4, <2>7 DEF Promote, CheckHash, Validate, TakeClaim, Record, PromoStep,
      Repair, PrepareRequest, Guide, GuideAction, Archive
  <2>8. ASSUME NEW path \in Artifacts, RegisterRoute(path) \/ RegisterCommand(path)
        PROVE  artifact' = artifact
    BY <2>8 DEF Register, RegisterRoute, RegisterCommand
  <2>9. ASSUME NEW k, NEW candidate, Review(k, candidate) \/ PromoteCommand(k, candidate)
        PROVE  artifact' = artifact
    BY <2>9 DEF Review, PromoteCommand, Asked
  <2>10. ASSUME NEW content, Answer(content) \/ Rewrite(content) PROVE artifact' = artifact
    BY <2>10 DEF Answer, Rewrite
  <2> QED BY <2>4, <2>5, <2>6, <2>7, <2>8, <2>9, <2>10 DEF Next, ImportTarget
<1> QED BY <1>1, Invariance, PTL DEF Spec, EvidenceStaysIntact

-----------------------------------------------------------------------------
(* The states the guide leads through, and that the skill answers only     *)
(* what was asked.                                                         *)
Guided ==
  /\ state \in {"initialized", "scoped", "collecting", "analyzing", "reporting",
                "completed", "archived"}
  /\ result # NoResult => requested

LEMMA GuidedStep == Guided /\ [Next]_vars => Guided'
<1> SUFFICES ASSUME Guided, [Next]_vars PROVE Guided'
  OBVIOUS
<1> USE DEF Guided
<1>1. CASE UNCHANGED vars
  BY <1>1 DEF vars
<1>2. ASSUME NEW path \in Artifacts, RegisterRoute(path) \/ RegisterCommand(path)
      PROVE  Guided'
  BY <1>2 DEF RegisterRoute, RegisterCommand, Register
<1>3. CASE ImportTarget
  BY <1>3 DEF ImportTarget, Import
<1>4. CASE PrepareRequest
  BY <1>4 DEF PrepareRequest, CreateSkillRequest
<1>5. CASE Repair
  BY <1>5 DEF Repair
<1>6. ASSUME NEW k \in Candidates, NEW candidate \in Assets,
             Review(k, candidate) \/ PromoteCommand(k, candidate)
      PROVE  Guided'
  BY <1>6 DEF Review, PromoteCommand, Asked
<1>7. CASE Promote
  BY <1>7 DEF Promote, CheckHash, Validate, TakeClaim, Record, PromoStep
<1>8. ASSUME NEW action \in DOMAIN GuideTarget, GuideAction(action) PROVE Guided'
  BY <1>8 DEF GuideAction, GuideTarget
<1>9. CASE Archive
  BY <1>9 DEF Archive
<1>10. ASSUME NEW content \in Contents, Answer(content) \/ Rewrite(content) PROVE Guided'
  BY <1>10 DEF Answer, Rewrite
<1>11. ASSUME NEW path \in Artifacts, NEW bytes \in Bytes \cup {"absent"},
              Overwrite(path, bytes)
       PROVE  Guided'
  BY <1>11 DEF Overwrite
<1> QED
  BY <1>1, <1>2, <1>3, <1>4, <1>5, <1>6, <1>7, <1>8, <1>9, <1>10, <1>11 DEF Next, Guide

(* What there is to do for whoever follows the guide: repair, take the     *)
(* step offered, review a candidate, register the first evidence, prepare  *)
(* the request, or wait for its answer.                                    *)
SomethingToDo ==
  \/ NeedsRepair
  \/ \E action \in DOMAIN GuideTarget : Offers(action)
  \/ \E k \in Candidates : Eligible(k)
  \/ state = "collecting" /\ Loads(evidence) /\ Records(evidence) = {}
  \/ state = "analyzing" /\ Loads(evidence) /\ ~requested
  \/ state = "analyzing" /\ requested /\ result = NoResult

(* When the records are intact, a candidate that is left is on offer and a *)
(* finding on record verifies.                                             *)
LEMMA IntactResult ==
  ASSUME IInv, Guided, RecordsIntact, Loads(evidence), result # NoResult
  PROVE  /\ ResultValid
         /\ \A k \in Unpromoted : Eligible(k)
         /\ Loads(findings) => UnverifiedFindings = {}
<1>1. \A k \in DOMAIN result.claims :
        IdsVerify(result.claims[k].cites) /\ result.claims[k].subject = "in_scope"
  BY DEF RecordsIntact, IdsVerify
<1>2. ResultValid
  BY <1>1 DEF ResultValid, RequestFound, Guided
<1>3. ASSUME NEW k \in Unpromoted PROVE Eligible(k)
  <2>1. k \in DOMAIN result.claims /\ result.status \in {"completed", "partial"}
    BY DEF Unpromoted, Candidates, RecordsIntact
  <2> QED BY <1>1, <1>2, <2>1 DEF Eligible
<1>4. ASSUME Loads(findings), NEW f \in Records(findings) PROVE FindingVerifies(f)
  <2>1. SourceVerifies(f)
    BY <1>4 DEF RecordsIntact
  <2>2. IdsVerify(f.snapshot.cites)
    BY <1>1, <2>1 DEF SourceVerifies
  <2> QED BY <2>1, <2>2 DEF FindingVerifies
<1> QED BY <1>2, <1>3, <1>4 DEF UnverifiedFindings

(* Without a result there is nothing to verify against and nothing left.   *)
LEMMA IntactWithoutResult ==
  ASSUME RecordsIntact, result = NoResult, Loads(findings)
  PROVE  Unpromoted = {} /\ UnverifiedFindings = {}
<1>1. DOMAIN result.claims = {}
  BY NoResultFacts
<1>2. Records(findings) = {}
  BY <1>1 DEF RecordsIntact, SourceVerifies
<1> QED BY <1>1, <1>2 DEF Unpromoted, Candidates, UnverifiedFindings

(* As long as the records stay intact, the guide leaves nobody without a   *)
(* next step before the engagement is complete, whatever crashes did to    *)
(* the ledgers: what GuidedEngagementCompletes rests on                    *)
(* (workflow_guide.py:46-63, 84-106).                                      *)
THEOREM GuideNeverStrands ==
  Spec => [](RecordsIntact /\ state \notin {"completed", "archived"} => SomethingToDo)
<1>1. IInv /\ Guided =>
        (RecordsIntact /\ state \notin {"completed", "archived"} => SomethingToDo)
  <2> SUFFICES ASSUME IInv, Guided, RecordsIntact, ~NeedsRepair,
                      state \notin {"completed", "archived"}
               PROVE  SomethingToDo
    BY DEF SomethingToDo
  <2>1. Loads(evidence) /\ Loads(findings)
    BY HealthyTail, HealthyLoads DEF NeedsRepair, IInv, Ledgers
  <2>2. GuideBuilds
    BY <2>1 DEF GuideBuilds
  <2>3. DOMAIN GuideTarget = {"confirm_scope", "begin_discovery", "begin_analysis",
                              "begin_findings", "complete_engagement"}
    BY DEF GuideTarget
  <2>4. CASE state = "initialized"
    BY <2>2, <2>3, <2>4 DEF Offers, SomethingToDo
  <2>5. CASE state = "scoped"
    BY <2>2, <2>3, <2>5 DEF Offers, SomethingToDo
  <2>6. CASE state = "collecting"
    <3>1. CASE Records(evidence) = {}
      BY <2>1, <2>6, <3>1 DEF SomethingToDo
    <3>2. CASE Records(evidence) # {}
      <4>1. VerifiedEvidence # {}
        BY <2>1, <3>2 DEF VerifiedEvidence, RecordsIntact
      <4> QED BY <2>2, <2>3, <2>6, <4>1 DEF Offers, SomethingToDo
    <3> QED BY <3>1, <3>2
  <2>7. CASE state = "analyzing"
    <3>1. CASE ~requested \/ result = NoResult
      BY <2>1, <2>7, <3>1 DEF SomethingToDo
    <3>2. CASE requested /\ result # NoResult
      <4>1. ResultValid /\ \A k \in Unpromoted : Eligible(k)
        BY <2>1, <3>2, IntactResult
      <4>2. CASE Unpromoted = {}
        BY <2>1, <2>2, <2>3, <2>7, <3>2, <4>1, <4>2
        DEF Offers, InvalidResults, NothingLeft, SomethingToDo
      <4>3. CASE Unpromoted # {}
        BY <4>1, <4>3 DEF Unpromoted, SomethingToDo
      <4> QED BY <4>2, <4>3
    <3> QED BY <3>1, <3>2
  <2>8. CASE state = "reporting"
    <3>1. UnverifiedFindings = {}
      BY <2>1, IntactResult, IntactWithoutResult
    <3>2. CASE Unpromoted = {}
      BY <2>1, <2>2, <2>3, <2>8, <3>1, <3>2 DEF Offers, NothingLeft, SomethingToDo
    <3>3. CASE Unpromoted # {}
      <4>1. \A k \in Unpromoted : Eligible(k)
        BY <2>1, <3>3, IntactResult, IntactWithoutResult
      <4> QED BY <3>3, <4>1 DEF Unpromoted, SomethingToDo
    <3> QED BY <3>2, <3>3
  <2> QED BY <2>4, <2>5, <2>6, <2>7, <2>8 DEF Guided
<1>2. Init => Guided
  BY DEF Init, Guided, InitialState
<1> QED BY <1>1, <1>2, Invariance, GuidedStep, PTL DEF Spec

-----------------------------------------------------------------------------
(* The guide and the archive take the workflow along its table, and        *)
(* nothing else in the review moves it.                                    *)
WF == INSTANCE Workflow

THEOREM GuideImplementsWorkflow == Spec => WF!Spec
<1>1. WF!AllowedTransitions = AllowedTransitions /\ WF!InitialState = InitialState
  BY DEF WF!AllowedTransitions, AllowedTransitions, WF!InitialState, InitialState
<1>2. Init => WF!Init
  BY <1>1 DEF Init, WF!Init
<1>3. [Next]_vars => [WF!Move]_state
  <2> SUFFICES ASSUME Next, state' # state PROVE WF!Move
    BY DEF vars
  <2>1. (\E action \in DOMAIN GuideTarget : GuideAction(action)) \/ Archive
    BY DEF Next, RegisterRoute, RegisterCommand, Register, ImportTarget, Import,
      PrepareRequest, Repair, Review, PromoteCommand, Asked, Promote, CheckHash,
      Validate, TakeClaim, Record, PromoStep, Guide, Answer, Rewrite, Overwrite
  <2>2. ASSUME NEW action \in DOMAIN GuideTarget, GuideAction(action) PROVE WF!Move
    BY <1>1, <2>2 DEF GuideAction, Offers, GuideTarget, AllowedTransitions, WF!Move
  <2>3. CASE Archive
    BY <1>1, <2>3 DEF Archive, AllowedTransitions, WF!Move
  <2> QED BY <2>1, <2>2, <2>3
<1> QED BY <1>2, <1>3, PTL DEF Spec, WF!Spec
=============================================================================
