------------------------------ MODULE Ledger ------------------------------
(***************************************************************************)
(* A JSON-lines ledger as bytes on disk: what an append leaves when it is  *)
(* interrupted, what the strict loaders accept, and what `outrider repair` *)
(* makes of the rest.  Shared by evidence.jsonl and findings.jsonl.        *)
(*                                                                         *)
(* A line is the sequence of the pieces written to it.  One whole record   *)
(* is a JSON line; a piece of a record, or two records on one line after   *)
(* an append to a line that was never ended, is not.                       *)
(***************************************************************************)
EXTENDS Naturals, Sequences, FiniteSets

(* The first bytes of a record, not all of them. *)
Cut == [seq |-> 0, key |-> "cut", id |-> 0]

EmptyLedger == [lines |-> << >>, ended |-> TRUE]

IsJson(line) == Len(line) = 1 /\ line[1] # Cut

Damaged(file) == {i \in 1..Len(file.lines) : ~IsJson(file.lines[i])}

UntidyTail(file) ==                                   \* defect: last line spared
  /\ Damaged(file) \subseteq {Len(file.lines)}
  /\ \A i \in 1..Len(file.lines) : i \in Damaged(file) \/ file.lines[i][1].seq = i

(* The loader: every line is JSON, the records are numbered from one, and  *)
(* no two have the key in common that must be unique.                      *)
Loads(file) ==
  /\ Damaged(file) = {}
  /\ \A i \in 1..Len(file.lines) : file.lines[i][1].seq = i
  /\ \A i, j \in 1..Len(file.lines) :
       file.lines[i][1].key = file.lines[j][1].key => i = j

(* The records of a ledger that loads. *)
Records(file) == {file.lines[i][1] : i \in 1..Len(file.lines)}

Keys(file) == {r.key : r \in Records(file)}

NextSeq(file) == Len(file.lines) + 1

-----------------------------------------------------------------------------
(* Appending a piece: to a line of its own, or to the line left open. *)
Written(file, piece, end) ==
  [lines |-> IF file.ended THEN Append(file.lines, <<piece>>)
             ELSE [file.lines EXCEPT ![Len(file.lines)] = Append(@, piece)],
   ended |-> end]

Appended(file, record) == Written(file, record, TRUE)

(* What is there when the process dies on the way. *)
Interrupted(file, record) ==
  { file, Written(file, Cut, FALSE), Written(file, record, FALSE),
    Written(file, record, TRUE) }

-----------------------------------------------------------------------------
(* _jsonl_tail_status: damage with a JSON line after it is for a human. *)
TailStatus(file) ==
  IF Damaged(file) = {} THEN "ok"
  ELSE IF \E i \in Damaged(file), j \in 1..Len(file.lines) :
            i < j /\ IsJson(file.lines[j])
  THEN "manual" ELSE "safe_repair"

FirstDamaged(file) == CHOOSE i \in Damaged(file) : \A j \in Damaged(file) : i <= j

(* repair_run: the lines before the damage, each ended; the original bytes *)
(* go to a backup.                                                         *)
OneLineMore(file) ==                                  \* defect: off by one
  [lines |-> SubSeq(file.lines, 1, FirstDamaged(file) - 2), ended |-> TRUE]

Repaired(file) ==
  [lines |-> SubSeq(file.lines, 1, FirstDamaged(file) - 1), ended |-> TRUE]
=============================================================================
