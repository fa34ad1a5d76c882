------------------------------ MODULE RunState ------------------------------
(***************************************************************************)
(* The workflow ledger of one run: manifest.json and the versioned events  *)
(* of run.jsonl.  The current state is kept nowhere else: every operation  *)
(* replays the log, checks the request against the state it derives, and   *)
(* appends one line.  There is one writer at a time (the web application   *)
(* serialises its mutations with a lock; the decision record excludes      *)
(* simultaneous writers), and it may crash between any two steps, or in    *)
(* the middle of an append.                                                *)
(*                                                                         *)
(* Identifiers, timestamps and actors are left out: they are fresh or      *)
(* checked before anything is written.  Unversioned legacy lines precede   *)
(* the versioned stream and are only counted by the reader, so `log` holds *)
(* the versioned stream alone.                                             *)
(***************************************************************************)
EXTENDS Lifecycle, Naturals, Sequences

CONSTANTS
  InputReasons,   \* the reasons a caller can pass to transition_state
  MaxLog          \* bound on the length of the log

ASSUME InputsAssumption == InputReasons \subseteq Reasons
ASSUME BoundAssumption  == MaxLog \in Nat \ {0}

VARIABLES
  manifest,   \* manifest.json exists
  log,        \* the versioned lines of run.jsonl
  scopeOk,    \* scope.yaml loads
  pending,    \* the event the writer has validated and not yet appended
  noNewline,  \* the last line of run.jsonl has no line end yet
  \* History, read by the properties only:
  scopedWell  \* scope.yaml loaded when the move to scoped was validated

vars == <<manifest, log, scopeOk, pending, noNewline, scopedWell>>

Event(type, sequence, previous, new, reason) ==
  [ type |-> type, sequence |-> sequence, previous |-> previous,
    new |-> new, reason |-> reason ]

Events ==
  [ type     : {"run_initialized", "state_transition", "torn"},
    sequence : Nat,
    previous : States \cup {"none"},
    new      : States \cup {"none"},
    reason   : Reasons ]

NoEvent == Event("torn", 0, "none", "none", "null")

(* The line a crash in the middle of an append leaves: malformed JSON. *)
TornLine == NoEvent

InitialEvent(reason) ==
  Event("run_initialized", 1, "none", InitialState, reason)

(* _parse_event: line i of lg is accepted after the lines before it. *)
Parses(lg, i) ==
  LET e == lg[i] IN
  /\ e.sequence = i
  /\ LoadableReason(e.reason)
  /\ \/ /\ e.type = "run_initialized"
        /\ i = 1
        /\ e.previous = "none"
        /\ e.new = InitialState
     \/ /\ e.type = "state_transition"
        /\ i > 1
        /\ e.previous = lg[i - 1].new
        /\ ValidTransition(e.previous, e.new, e.reason)

(* load_state succeeds. *)
Loads(lg) == Len(lg) > 0 /\ \A i \in 1..Len(lg) : Parses(lg, i)

CurrentState(lg) == lg[Len(lg)].new

Init ==
  /\ manifest = FALSE
  /\ log = << >>
  /\ scopeOk \in BOOLEAN
  /\ pending = NoEvent
  /\ noNewline = FALSE
  /\ scopedWell = FALSE

(* write_manifest_atomic, from initialize_state or, over a legacy folder,  *)
(* bootstrap_legacy_run, which requires a scope that loads.  The manifest  *)
(* is written before the first event.                                      *)
WriteManifest(reason) ==
  /\ ~manifest
  /\ pending = NoEvent
  /\ reason = "text" => scopeOk
  /\ manifest' = TRUE
  /\ pending' = InitialEvent(reason)
  /\ UNCHANGED <<log, scopeOk, noNewline, scopedWell>>

InitializeState == WriteManifest("null")

BootstrapLegacyRun == WriteManifest("text")

(* transition_state up to make_event. *)
NextEventOffByOne(new, reason) ==                     \* defect: off by one
  Event("state_transition", Len(log), CurrentState(log), new, reason)

NextEvent(new, reason) ==
  Event("state_transition", Len(log) + 1, CurrentState(log), new, reason)

ValidateTransition(new, reason) ==
  /\ manifest
  /\ pending = NoEvent
  /\ Loads(log)
  /\ Len(log) < MaxLog
  /\ ValidTransition(CurrentState(log), new, reason)
  /\ CurrentState(log) = "initialized" /\ new = "scoped" => scopeOk
  /\ pending' = NextEvent(new, reason)
  /\ scopedWell' = IF new = "scoped" THEN scopeOk ELSE scopedWell
  /\ UNCHANGED <<manifest, log, scopeOk, noNewline>>

(* The log after a write of `line`: text that follows a line without its  *)
(* line end spoils that line.                                              *)
Extended(line) ==
  IF noNewline THEN [log EXCEPT ![Len(log)] = TornLine] ELSE Append(log, line)

(* append_event: the line is written, flushed and synced. *)
AppendEventTwice ==                                   \* defect: kept pending
  /\ pending # NoEvent
  /\ log' = Extended(pending)
  /\ noNewline' = FALSE
  /\ UNCHANGED <<manifest, scopeOk, pending, scopedWell>>

AppendEvent ==
  /\ pending # NoEvent
  /\ log' = Extended(pending)
  /\ noNewline' = FALSE
  /\ pending' = NoEvent
  /\ UNCHANGED <<manifest, scopeOk, scopedWell>>

(* The writer dies before its append. *)
Crash ==
  /\ pending # NoEvent
  /\ pending' = NoEvent
  /\ UNCHANGED <<manifest, log, scopeOk, noNewline, scopedWell>>

(* The writer dies in its append: a part of the line reaches the file, or  *)
(* the line without its line end, which still parses.                      *)
CrashInAppend ==
  /\ pending # NoEvent
  /\ \/ log' = Extended(TornLine) /\ noNewline' = FALSE
     \/ log' = Extended(pending)  /\ noNewline' = TRUE
  /\ pending' = NoEvent
  /\ UNCHANGED <<manifest, scopeOk, scopedWell>>

(* The operator edits scope.yaml. *)
EditScope ==
  /\ scopeOk' = ~scopeOk
  /\ UNCHANGED <<manifest, log, pending, noNewline, scopedWell>>

Next ==
  \/ InitializeState
  \/ BootstrapLegacyRun
  \/ \E new \in States, reason \in InputReasons : ValidateTransition(new, reason)
  \/ AppendEvent
  \/ Crash
  \/ CrashInAppend
  \/ EditScope

Spec == Init /\ [][Next]_vars

-----------------------------------------------------------------------------
TypeOK ==
  /\ manifest \in BOOLEAN
  /\ log \in Seq(Events) /\ Len(log) <= MaxLog
  /\ scopeOk \in BOOLEAN
  /\ pending \in Events
  /\ noNewline \in BOOLEAN
  /\ scopedWell \in BOOLEAN

Torn(lg) == Len(lg) > 0 /\ lg[Len(lg)].type = "torn"

(* The lines that were written whole: the log without a torn last line. *)
Whole(lg) == IF Torn(lg) THEN SubSeq(lg, 1, Len(lg) - 1) ELSE lg

(* Everything the writer acknowledged can be replayed: whatever crashes    *)
(* happened, the only line load_state may reject is a torn last one, and   *)
(* nothing is ever written after it (transition_state reloads the log      *)
(* before it appends, state.py:325-339 against 219-302).                   *)
LogReplays ==
  LET lg == Whole(log) IN Len(lg) > 0 => Loads(lg)

(* Work is delivered only after every stage, in order: a completed run's   *)
(* log enters scoped, collecting, analyzing and reporting before completed, *)
(* however often it went back, and the scope loaded when the move to       *)
(* scoped that is on file was validated, however often a crash kept an     *)
(* earlier one from the file and whatever was done to scope.yaml meanwhile *)
(* (state.py:23-32, 325-339).                                              *)
StagesInOrder ==
  \A i \in 1..Len(log) : log[i].new = "completed" =>
    /\ scopedWell
    /\ \E s, c, a, r \in 1..i :
         /\ s < c /\ c < a /\ a < r /\ r < i
         /\ log[s].new = "scoped"    /\ log[c].new = "collecting"
         /\ log[a].new = "analyzing" /\ log[r].new = "reporting"

(* Going back a stage or cancelling is always explained: the record of it  *)
(* carries a reason a reader can read (ADR 0001, "backward workflow        *)
(* transitions require a reason").                                         *)
RegressIsExplained ==
  \A i \in 1..Len(log) :
    NeedsReason(log[i].previous, log[i].new) => log[i].reason = "text"

(* The ledger implements the workflow: the state its durable lines derive, *)
(* before the first event the initial one, moves by allowed transitions    *)
(* only, and neither a crash nor a scope edit moves it.  A line without    *)
(* its line end is not durable: the next append spoils it.                 *)
Durable(lg, open) == IF open THEN SubSeq(lg, 1, Len(lg) - 1) ELSE Whole(lg)

DerivedState ==
  LET lg == Durable(log, noNewline) IN
  IF Len(lg) = 0 THEN InitialState ELSE CurrentState(lg)

WF == INSTANCE Workflow WITH state <- DerivedState

ImplementsWorkflow == WF!Spec
=============================================================================
