--------------------------- MODULE RunStateProofs ---------------------------
(***************************************************************************)
(* Theorems about the workflow ledger, for logs of any length and crashes  *)
(* at any step.  The inductive invariant says what load_state will accept: *)
(* every line but a torn one parses after the lines before it, only the    *)
(* last line can be torn, and the event the writer has validated and not   *)
(* yet appended parses where it is going to be.                            *)
(***************************************************************************)
EXTENDS RunState, SequenceTheorems, TLAPS

IsTorn(e) == e = TornLine

(* What load_state accepts of an event on its own, after `before`. *)
Follows(before, e) ==
  /\ e.type = "state_transition"
  /\ e.previous = before
  /\ ValidTransition(before, e.new, e.reason)

LinesParse ==
  \A i \in 1..Len(log) : Parses(log, i) \/ (IsTorn(log[i]) /\ i = Len(log))

PendingParses ==
  pending # NoEvent =>
    /\ \A i \in 1..Len(log) : ~IsTorn(log[i])
    /\ pending.sequence = Len(log) + 1
    /\ LoadableReason(pending.reason)
    /\ ~IsTorn(pending)
    /\ \/ pending = InitialEvent(pending.reason) /\ log = << >>
       \/ Len(log) > 0 /\ Follows(CurrentState(log), pending)

NothingBeforeManifest == ~manifest => log = << >> /\ pending = NoEvent

IInv ==
  /\ TypeOK
  /\ LinesParse
  /\ PendingParses
  /\ pending # NoEvent => Len(log) < MaxLog
  /\ NothingBeforeManifest
  /\ noNewline => Len(log) > 0

(* Reasons as the web application and the workflow guide pass them: none,  *)
(* or text that is not blank.                                              *)
NormalisedReasons == InputReasons \subseteq {"null", "text"}

-----------------------------------------------------------------------------
LEMMA NoEventTyped == NoEvent \in Events
  BY DEF NoEvent, Event, Events, Reasons

LEMMA InitialEventTyped ==
  ASSUME NEW reason \in Reasons
  PROVE  InitialEvent(reason) \in Events /\ InitialEvent(reason) # NoEvent
  BY DEF InitialEvent, NoEvent, Event, Events, Reasons, States, InitialState

(* What the table allows are states. *)
LEMMA ValidTransitionTyped ==
  ASSUME NEW p, NEW n, NEW reason, ValidTransition(p, n, reason)
  PROVE  p \in States /\ n \in States
  BY DEF ValidTransition, AllowedTransitions, States

(* A log without its last line. *)
LEMMA Front ==
  ASSUME NEW lg \in Seq(Events), Len(lg) > 0, NEW f, f = SubSeq(lg, 1, Len(lg) - 1)
  PROVE  /\ f \in Seq(Events)
         /\ Len(f) = Len(lg) - 1
         /\ \A i \in 1..Len(lg) - 1 : f[i] = lg[i]
<1>1. 1 \in Int /\ Len(lg) - 1 \in Int /\ \A i \in 1..Len(lg) - 1 : lg[i] \in Events
  OBVIOUS
<1>2. f \in Seq(Events)
  BY <1>1, SubSeqProperties
<1>3. Len(f) = IF 1 <= Len(lg) - 1 THEN (Len(lg) - 1) - 1 + 1 ELSE 0
  BY <1>1, SubSeqProperties
<1>4. \A i \in 1..(Len(lg) - 1) - 1 + 1 : f[i] = lg[1 + i - 1]
  BY <1>1, SubSeqProperties
<1>5. Len(lg) \in Nat
  OBVIOUS
<1>6. Len(f) = Len(lg) - 1
  <2>1. \A k \in Nat : k > 0 => (IF 1 <= k - 1 THEN (k - 1) - 1 + 1 ELSE 0) = k - 1
    OBVIOUS
  <2> QED BY <1>3, <1>5, <2>1
<1>7. ASSUME NEW i \in 1..Len(lg) - 1
      PROVE  f[i] = lg[i]
  <2>1. i \in 1..(Len(lg) - 1) - 1 + 1 /\ 1 + i - 1 = i
    BY <1>5
  <2> QED BY <1>4, <2>1
<1> QED
  BY <1>2, <1>6, <1>7

(* A line that parses is not torn. *)
LEMMA ParsedIsWhole ==
  ASSUME NEW lg \in Seq(Events), NEW i \in 1..Len(lg), Parses(lg, i)
  PROVE  ~IsTorn(lg[i])
  BY DEF Parses, IsTorn, TornLine, NoEvent, Event

(* The lines before i decide whether line i parses. *)
LEMMA ParsesLocal ==
  ASSUME NEW lg, NEW lh, NEW i, lg[i] = lh[i], i > 1 => lg[i-1] = lh[i-1],
         Parses(lg, i)
  PROVE  Parses(lh, i)
  BY DEF Parses

(* A line appended to a log: it parses, or it is torn.                     *)
LEMMA ExtendedParses ==
  ASSUME IInv, pending # NoEvent, NEW line \in {pending, TornLine},
         NEW lg, lg = Extended(line)
  PROVE  /\ lg \in Seq(Events)
         /\ Len(lg) <= Len(log) + 1
         /\ Len(lg) > 0
         /\ \A i \in 1..Len(lg) : Parses(lg, i) \/ (IsTorn(lg[i]) /\ i = Len(lg))
<1>1. log \in Seq(Events) /\ line \in Events /\ pending \in Events
  BY NoEventTyped DEF IInv, TypeOK, TornLine
<1>2. TornLine \in Events /\ IsTorn(TornLine)
  BY NoEventTyped DEF TornLine, NoEvent, Event, IsTorn
<1>3. CASE noNewline
  <2>1. Len(log) > 0 /\ lg = [log EXCEPT ![Len(log)] = TornLine]
    BY <1>3 DEF IInv, Extended
  <2>2. lg \in Seq(Events) /\ Len(lg) = Len(log) /\ lg[Len(lg)] = TornLine
    BY <1>1, <1>2, <2>1
  <2>3. \A j \in 1..Len(log) : j # Len(log) => lg[j] = log[j]
    BY <1>1, <2>1
  <2>4. ASSUME NEW i \in 1..Len(lg), i # Len(lg)
        PROVE  Parses(lg, i)
    <3>1. Parses(log, i)
      BY <2>2, <2>4 DEF IInv, LinesParse
    <3>2. i \in 1..Len(log) /\ i # Len(log) /\ (i > 1 => i-1 \in 1..Len(log))
      BY <1>1, <2>2, <2>4
    <3>3. log[i] = lg[i] /\ (i > 1 => log[i-1] = lg[i-1])
      BY <1>1, <2>3, <3>2
    <3> QED BY ONLY <3>1, <3>3, ParsesLocal
  <2>5. \A i \in 1..Len(lg) : i = Len(lg) => IsTorn(lg[i])
    BY <1>2, <2>2
  <2>6. Len(lg) > 0 /\ Len(lg) <= Len(log) + 1
    BY <1>1, <2>1, <2>2
  <2> QED BY <2>2, <2>4, <2>5, <2>6
<1>4. CASE ~noNewline
  <2>1. lg = Append(log, line)
    BY <1>4 DEF Extended
  <2>2. lg \in Seq(Events) /\ Len(lg) = Len(log) + 1 /\ lg[Len(lg)] = line
    BY <1>1, <2>1
  <2>3. ASSUME NEW i \in 1..Len(log)
        PROVE  Parses(lg, i)
    <3>1. Parses(log, i)
      BY <2>3 DEF IInv, LinesParse, PendingParses
    <3>2. log[i] = lg[i] /\ (i > 1 => log[i-1] = lg[i-1])
      BY <1>1, <2>1, <2>3
    <3> QED BY ONLY <3>1, <3>2, ParsesLocal
  <2>4. CASE line = TornLine
    BY <1>2, <2>2, <2>3, <2>4
  <2>5. CASE line = pending
    <3>1. CASE pending = InitialEvent(pending.reason) /\ log = << >>
      <4>1. Parses(lg, Len(lg))
        BY <1>1, <2>2, <2>5, <3>1
        DEF IInv, PendingParses, Parses, InitialEvent, Event
      <4> QED BY <2>2, <2>3, <3>1, <4>1
    <3>2. CASE Len(log) > 0 /\ Follows(CurrentState(log), pending)
      <4>1. lg[Len(lg) - 1] = log[Len(log)]
        BY <1>1, <2>1, <2>2, <3>2
      <4>2. Parses(lg, Len(lg))
        BY <1>1, <2>2, <2>5, <3>2, <4>1
        DEF IInv, PendingParses, Parses, Follows, CurrentState
      <4> QED BY <2>2, <2>3, <4>2
    <3> QED BY <3>1, <3>2 DEF IInv, PendingParses
  <2> QED BY <2>4, <2>5
<1> QED BY <1>3, <1>4

-----------------------------------------------------------------------------
LEMMA InitIInv == Init => IInv
<1> SUFFICES ASSUME Init PROVE IInv
  OBVIOUS
<1>1. log = << >> /\ Len(log) = 0 /\ pending = NoEvent /\ ~noNewline
  BY DEF Init
<1>2. log \in Seq(Events) /\ Len(log) <= MaxLog
  BY <1>1, BoundAssumption
<1>3. TypeOK
  BY <1>2, NoEventTyped DEF Init, TypeOK
<1> QED
  BY <1>1, <1>3 DEF IInv, LinesParse, PendingParses, NothingBeforeManifest

LEMMA StepIInv ==
  ASSUME NormalisedReasons
  PROVE  IInv /\ [Next]_vars => IInv'
<1> SUFFICES ASSUME IInv, [Next]_vars
             PROVE  IInv'
  OBVIOUS
<1>0. log \in Seq(Events) /\ pending \in Events /\ MaxLog \in Nat /\ MaxLog > 0
  BY BoundAssumption DEF IInv, TypeOK
<1>1. ASSUME NEW reason \in {"null", "text"}, WriteManifest(reason)
      PROVE  IInv'
  <2>1. log = << >> /\ log' = << >> /\ pending' = InitialEvent(reason)
    BY <1>1 DEF WriteManifest, IInv, NothingBeforeManifest
  <2>2. pending' \in Events /\ pending'.sequence = 1 /\ pending'.reason = reason
        /\ ~IsTorn(pending') /\ LoadableReason(reason)
    BY <2>1, InitialEventTyped 
    DEF InitialEvent, Event, IsTorn, TornLine, NoEvent, LoadableReason, Reasons
  <2>3. TypeOK'
    BY <1>0, <1>1, <2>1, <2>2 DEF WriteManifest, IInv, TypeOK
  <2>4. LinesParse' /\ PendingParses'
    BY <2>1, <2>2 DEF LinesParse, PendingParses
  <2>5. NothingBeforeManifest' /\ (noNewline' => Len(log') > 0) /\ Len(log') < MaxLog
    BY <1>0, <1>1, <2>1 DEF WriteManifest, NothingBeforeManifest, IInv
  <2> QED BY <2>3, <2>4, <2>5 DEF IInv
<1>2. CASE InitializeState
  BY <1>1, <1>2 DEF InitializeState
<1>3. CASE BootstrapLegacyRun
  BY <1>1, <1>3 DEF BootstrapLegacyRun
<1>4. ASSUME NEW new \in States, NEW reason \in InputReasons,
             ValidateTransition(new, reason)
      PROVE  IInv'
  <2>1. log' = log /\ noNewline' = noNewline /\ manifest /\ manifest' = manifest
        /\ scopeOk' = scopeOk /\ scopedWell' \in BOOLEAN /\ Len(log) < MaxLog /\ Loads(log)
        /\ pending' = NextEvent(new, reason)
        /\ ValidTransition(CurrentState(log), new, reason)
    BY <1>4 DEF ValidateTransition, IInv, TypeOK
  <2>2. CurrentState(log) \in States /\ reason \in Reasons /\ LoadableReason(reason)
    BY <2>1, ValidTransitionTyped, InputsAssumption
    DEF NormalisedReasons, LoadableReason
  <2>3. /\ pending' \in Events /\ pending'.sequence = Len(log) + 1
        /\ pending'.reason = reason /\ ~IsTorn(pending')
        /\ Follows(CurrentState(log), pending')
    BY <1>0, <2>1, <2>2 DEF NextEvent, Event, Events, IsTorn, TornLine, NoEvent, Follows
  <2>4. \A i \in 1..Len(log) : ~IsTorn(log[i])
    BY <1>0, <2>1, ParsedIsWhole DEF Loads
  <2>5. Len(log) > 0
    BY <2>1 DEF Loads
  <2>6. TypeOK'
    BY <2>1, <2>3 DEF IInv, TypeOK
  <2>7. LinesParse'
    BY <2>1 DEF IInv, LinesParse, Parses
  <2>8. PendingParses'
    BY <2>1, <2>2, <2>3, <2>4, <2>5 DEF PendingParses, CurrentState
  <2> QED BY <2>1, <2>5, <2>6, <2>7, <2>8 DEF IInv, NothingBeforeManifest
<1>5. ASSUME NEW line \in {pending, TornLine}, pending # NoEvent,
             log' = Extended(line), noNewline' \in BOOLEAN, pending' = NoEvent,
             UNCHANGED <<manifest, scopeOk, scopedWell>>
      PROVE  IInv'
  <2>1. /\ log' \in Seq(Events)
        /\ Len(log') <= Len(log) + 1
        /\ Len(log') > 0
        /\ \A i \in 1..Len(log') :
             Parses(log', i) \/ (IsTorn(log'[i]) /\ i = Len(log'))
    BY <1>5, ExtendedParses
  <2>2. Len(log') <= MaxLog
    BY <1>0, <1>5, <2>1 DEF IInv
  <2>3. TypeOK'
    BY <1>5, <2>1, <2>2, NoEventTyped DEF IInv, TypeOK
  <2>4. LinesParse'
    BY <2>1 DEF LinesParse, Parses, IsTorn
  <2>5. NothingBeforeManifest'
    BY <1>5 DEF IInv, NothingBeforeManifest
  <2> QED BY <1>5, <2>1, <2>3, <2>4, <2>5 DEF IInv, PendingParses
<1>6. CASE AppendEvent
  BY <1>5, <1>6 DEF AppendEvent
<1>7. CASE CrashInAppend
  <2>1. CASE log' = Extended(TornLine) /\ noNewline' = FALSE
    BY <1>5, <1>7, <2>1 DEF CrashInAppend
  <2>2. CASE log' = Extended(pending) /\ noNewline' = TRUE
    BY <1>5, <1>7, <2>2 DEF CrashInAppend
  <2> QED BY <1>7, <2>1, <2>2 DEF CrashInAppend
<1>8. CASE Crash
  BY <1>8, NoEventTyped
  DEF Crash, IInv, TypeOK, LinesParse, PendingParses, NothingBeforeManifest, Parses
<1>9. CASE EditScope
  BY <1>9
  DEF EditScope, IInv, TypeOK, LinesParse, PendingParses, NothingBeforeManifest,
      Parses, CurrentState
<1>10. CASE UNCHANGED vars
  BY <1>10
  DEF vars, IInv, TypeOK, LinesParse, PendingParses, NothingBeforeManifest,
      Parses, CurrentState
<1> QED
  BY <1>2, <1>3, <1>4, <1>6, <1>7, <1>8, <1>9, <1>10 DEF Next

LEMMA InvariantHolds ==
  ASSUME NormalisedReasons
  PROVE  Spec => []IInv
  BY InitIInv, StepIInv, PTL DEF Spec

(* Type correctness of the ledger (state.py:59-69, 325-348).               *)
THEOREM TypeCorrect ==
  ASSUME NormalisedReasons
  PROVE  Spec => []TypeOK
<1>1. IInv => TypeOK
  BY DEF IInv
<1> QED
  BY <1>1, InvariantHolds, PTL

(* Everything written whole can be replayed, whatever crashes happened,    *)
(* when callers pass a reason that is absent or not blank (state.py:219-   *)
(* 302, 325-339).  Without that hypothesis the theorem is false.           *)
THEOREM AcknowledgedEventsReplay ==
  ASSUME NormalisedReasons
  PROVE  Spec => []LogReplays
<1>1. ASSUME IInv
      PROVE  LogReplays
  <2>1. log \in Seq(Events)
    BY <1>1 DEF IInv, TypeOK
  <2>2. CASE Torn(log)
    <3> DEFINE lg == SubSeq(log, 1, Len(log) - 1)
    <3>1. Whole(log) = lg /\ Len(log) > 0
      BY <2>2 DEF Whole, Torn
    <3>2. Len(lg) = Len(log) - 1 /\ \A i \in 1..Len(log) - 1 : lg[i] = log[i]
      BY <2>1, <3>1, Front
    <3>3. ASSUME NEW i \in 1..Len(lg)
          PROVE  Parses(lg, i)
      <4>1. Parses(log, i)
        BY <1>1, <2>1, <3>2, <3>3 DEF IInv, LinesParse
      <4>2. log[i] = lg[i] /\ (i > 1 => log[i-1] = lg[i-1])
        BY <2>1, <3>1, <3>2, <3>3
      <4> QED BY ONLY <4>1, <4>2, ParsesLocal
    <3> QED BY <3>1, <3>3 DEF LogReplays, Loads
  <2>3. CASE ~Torn(log)
    <3>1. Whole(log) = log
      BY <2>3 DEF Whole
    <3>2. \A i \in 1..Len(log) : Parses(log, i)
      BY <1>1, <2>1, <2>3
      DEF IInv, LinesParse, Torn, IsTorn, TornLine, NoEvent, Event
    <3> QED BY <3>1, <3>2 DEF LogReplays, Loads
  <2> QED BY <2>2, <2>3
<1> QED
  BY <1>1, InvariantHolds, PTL

(* A transition that needs a reason is recorded with one a reader can read *)
(* (state.py:246, 268-271).                                                *)
THEOREM RegressExplained ==
  ASSUME NormalisedReasons
  PROVE  Spec => []RegressIsExplained
<1>1. ASSUME IInv, NEW i \in 1..Len(log), NeedsReason(log[i].previous, log[i].new)
      PROVE  log[i].reason = "text"
  <2>1. log[i] \in Events
    BY <1>1 DEF IInv, TypeOK
  <2>2. CASE IsTorn(log[i])
    BY <1>1, <2>2
    DEF IsTorn, TornLine, NoEvent, Event, NeedsReason, ReasonRequired
  <2>3. CASE Parses(log, i)
    <3>1. CASE log[i].new = InitialState /\ log[i].previous = "none"
      BY <1>1, <3>1 DEF NeedsReason, ReasonRequired, InitialState
    <3>2. CASE ValidTransition(log[i].previous, log[i].new, log[i].reason)
      BY <1>1, <2>1, <2>3, <3>2
      DEF ValidTransition, Parses, GivesReason, LoadableReason, Events, Reasons
    <3> QED BY <2>3, <3>1, <3>2 DEF Parses
  <2> QED BY <1>1, <2>2, <2>3 DEF IInv, LinesParse
<1>2. IInv => RegressIsExplained
  BY <1>1 DEF RegressIsExplained
<1> QED
  BY <1>2, InvariantHolds, PTL

-----------------------------------------------------------------------------
(* Where line i has passed before: the stages a run must have been through *)
(* when it is at the stage line i records.                                 *)
Scoped(lg, i)    == \E s \in 1..i - 1 : lg[s].new = "scoped"
Collected(lg, i) == \E c \in 1..i - 1 : lg[c].new = "collecting" /\ Scoped(lg, c)
Analyzed(lg, i)  == \E a \in 1..i - 1 : lg[a].new = "analyzing" /\ Collected(lg, a)
Reported(lg, i)  == \E r \in 1..i - 1 : lg[r].new = "reporting" /\ Analyzed(lg, r)

Trail(lg, i) ==
  /\ lg[i].new = "collecting" => Scoped(lg, i)
  /\ lg[i].new = "analyzing"  => Collected(lg, i)
  /\ lg[i].new = "reporting"  => Analyzed(lg, i)
  /\ lg[i].new = "completed"  => Reported(lg, i)

Trails == \A i \in 1..Len(log) : Trail(log, i)

(* A trail lies in the lines before its own.                               *)
LEMMA TrailLocal ==
  ASSUME NEW lg, NEW lh, NEW i \in Nat, \A j \in 1..i : lg[j] = lh[j], i > 0,
         Trail(lg, i)
  PROVE  Trail(lh, i)
<1>1. \A j \in 1..i : \A k \in 1..j - 1 : k \in 1..i
  OBVIOUS
<1>2. \A j \in 1..i : Scoped(lg, j) => Scoped(lh, j)
  BY <1>1 DEF Scoped
<1>3. \A j \in 1..i : Collected(lg, j) => Collected(lh, j)
  BY <1>1, <1>2 DEF Collected
<1>4. \A j \in 1..i : Analyzed(lg, j) => Analyzed(lh, j)
  BY <1>1, <1>3 DEF Analyzed
<1>5. \A j \in 1..i : Reported(lg, j) => Reported(lh, j)
  BY <1>1, <1>4 DEF Reported
<1>6. i \in 1..i /\ lg[i] = lh[i]
  OBVIOUS
<1> QED BY <1>2, <1>3, <1>4, <1>5, <1>6 DEF Trail

(* A stage that was passed stays passed.                                   *)
LEMMA TrailLater ==
  ASSUME NEW lg, NEW i \in Nat
  PROVE  /\ Scoped(lg, i) => Scoped(lg, i + 1)
         /\ Collected(lg, i) => Collected(lg, i + 1)
         /\ Analyzed(lg, i) => Analyzed(lg, i + 1)
<1>1. \A k \in 1..i - 1 : k \in 1..(i + 1) - 1
  OBVIOUS
<1> QED BY <1>1 DEF Scoped, Collected, Analyzed

(* The table leads to each stage from the one before it or one after it.   *)
LEMMA StagePredecessors ==
  ASSUME NEW p, NEW n, NEW reason, ValidTransition(p, n, reason)
  PROVE  /\ n = "collecting" => p \in {"scoped", "analyzing"}
         /\ n = "analyzing"  => p \in {"collecting", "reporting"}
         /\ n = "reporting"  => p = "analyzing"
         /\ n = "completed"  => p = "reporting"
  BY DEF ValidTransition, AllowedTransitions, States

LEMMA NextTrail ==
  ASSUME NEW lg \in Seq(Events), NEW i \in 1..Len(lg), i > 1,
         Follows(lg[i - 1].new, lg[i]), Trail(lg, i - 1)
  PROVE  Trail(lg, i)
<1>1. i - 1 \in 1..i - 1 /\ i - 1 \in Nat /\ (i - 1) + 1 = i
  OBVIOUS
<1> DEFINE p == lg[i - 1].new
           n == lg[i].new
<1>2. /\ n = "collecting" => p \in {"scoped", "analyzing"}
      /\ n = "analyzing"  => p \in {"collecting", "reporting"}
      /\ n = "reporting"  => p = "analyzing"
      /\ n = "completed"  => p = "reporting"
  BY StagePredecessors DEF Follows
<1>3. /\ p = "scoped" => Scoped(lg, i)
      /\ p = "collecting" => Collected(lg, i)
      /\ p = "analyzing" => Analyzed(lg, i)
      /\ p = "reporting" => Reported(lg, i)
  BY <1>1 DEF Trail, Scoped, Collected, Analyzed, Reported
<1>4. /\ Collected(lg, i) => Scoped(lg, i)
      /\ Analyzed(lg, i) => Collected(lg, i)
      /\ Reported(lg, i) => Analyzed(lg, i)
  <2>1. \A j \in 1..i - 1 : \A k \in 1..j - 1 : k \in 1..i - 1
    OBVIOUS
  <2> QED BY <2>1 DEF Scoped, Collected, Analyzed, Reported
<1> QED BY <1>2, <1>3, <1>4 DEF Trail

(* The scope loaded for the move to scoped that is pending or on file.     *)
ScopeChecked ==
  (pending.new = "scoped" \/ \E i \in 1..Len(log) : log[i].new = "scoped") => scopedWell

(* What a write puts on file was there or pending. *)
LEMMA WrittenBefore ==
  ASSUME IInv, pending # NoEvent, NEW line \in {pending, TornLine},
         NEW lg, lg = Extended(line), NEW i \in 1..Len(lg), lg[i].new = "scoped"
  PROVE  pending.new = "scoped" \/ \E j \in 1..Len(log) : log[j].new = "scoped"
<1>1. log \in Seq(Events) /\ line \in Events /\ TornLine \in Events
  BY NoEventTyped DEF IInv, TypeOK, TornLine
<1>2. TornLine.new = "none"
  BY DEF TornLine, NoEvent, Event
<1>3. CASE noNewline
  <2>1. Len(log) > 0 /\ lg = [log EXCEPT ![Len(log)] = TornLine]
    BY <1>3 DEF IInv, Extended
  <2>2. i \in 1..Len(log) /\ lg[Len(log)] = TornLine
        /\ (i # Len(log) => lg[i] = log[i])
    BY <1>1, <2>1
  <2> QED BY <1>2, <2>2
<1>4. CASE ~noNewline
  <2>1. lg = Append(log, line)
    BY <1>4 DEF Extended
  <2>2. (i \in 1..Len(log) /\ lg[i] = log[i]) \/ lg[i] = line
    BY <1>1, <2>1
  <2> QED BY <1>2, <2>2
<1> QED BY <1>3, <1>4

LEMMA StepScopeChecked ==
  IInv /\ ScopeChecked /\ [Next]_vars => ScopeChecked'
<1> SUFFICES ASSUME IInv, ScopeChecked, [Next]_vars
             PROVE  ScopeChecked'
  OBVIOUS
<1>1. NoEvent.new = "none"
  BY DEF NoEvent, Event
<1>2. ASSUME NEW reason, WriteManifest(reason)
      PROVE  ScopeChecked'
  BY <1>2
  DEF WriteManifest, IInv, NothingBeforeManifest, ScopeChecked, InitialEvent, Event,
      InitialState
<1>3. ASSUME NEW new \in States, NEW reason \in InputReasons,
             ValidateTransition(new, reason)
      PROVE  ScopeChecked'
  <2>1. pending'.new = new /\ log' = log
    BY <1>3 DEF ValidateTransition, NextEvent, Event
  <2>2. CASE new = "scoped"
    <3>1. CurrentState(log) = "initialized"
      BY <1>3, <2>2 DEF ValidateTransition, ValidTransition, AllowedTransitions, States
    <3> QED BY <1>3, <2>2, <3>1 DEF ValidateTransition, ScopeChecked
  <2>3. CASE new # "scoped"
    BY <1>3, <2>1, <2>3 DEF ValidateTransition, ScopeChecked
  <2> QED BY <2>2, <2>3
<1>4. ASSUME NEW line \in {pending, TornLine}, pending # NoEvent,
             log' = Extended(line), pending' = NoEvent, scopedWell' = scopedWell
      PROVE  ScopeChecked'
  BY <1>1, <1>4, WrittenBefore DEF ScopeChecked
<1>5. CASE AppendEvent
  BY <1>4, <1>5 DEF AppendEvent
<1>6. CASE CrashInAppend
  BY <1>4, <1>6 DEF CrashInAppend
<1>7. CASE Crash
  BY <1>1, <1>7 DEF Crash, ScopeChecked
<1>8. CASE EditScope \/ UNCHANGED vars
  BY <1>8 DEF EditScope, vars, ScopeChecked
<1> QED
  BY <1>2, <1>3, <1>5, <1>6, <1>7, <1>8 DEF Next, InitializeState, BootstrapLegacyRun

LEMMA WriteTrails ==
  ASSUME IInv, IInv', Trails, pending # NoEvent,
         NEW line \in {pending, TornLine}, log' = Extended(line)
  PROVE  Trails'
<1>1. log \in Seq(Events) /\ log' \in Seq(Events) /\ Len(log) \in Nat
      /\ line \in Events /\ TornLine \in Events
  BY NoEventTyped DEF IInv, TypeOK, TornLine
<1>2. TornLine.new = "none"
  BY DEF TornLine, NoEvent, Event
<1>3. ASSUME NEW i \in 1..Len(log'), i <= Len(log), log'[i] # TornLine,
             \A j \in 1..i : log[j] = log'[j]
      PROVE  Trail(log', i)
  <2>1. Trail(log, i) /\ i \in Nat /\ i > 0
    BY <1>1, <1>3 DEF Trails
  <2> QED BY ONLY <1>3, <2>1, TrailLocal
<1>4. CASE noNewline
  <2>1. Len(log) > 0 /\ log' = [log EXCEPT ![Len(log)] = TornLine]
    BY <1>4 DEF IInv, Extended
  <2>2. Len(log') = Len(log) /\ log'[Len(log)] = TornLine
        /\ \A i \in 1..Len(log) : i # Len(log) => log[i] = log'[i]
    BY <1>1, <2>1
  <2>3. ASSUME NEW i \in 1..Len(log')
        PROVE  Trail(log', i)
    <3>1. CASE log'[i] = TornLine
      BY <1>2, <3>1 DEF Trail
    <3>2. CASE log'[i] # TornLine
      <4>1. i # Len(log) /\ i <= Len(log)
        BY <1>1, <2>2, <2>3, <3>2
      <4>2. \A j \in 1..i : j \in 1..Len(log) /\ j # Len(log)
        BY <1>1, <2>2, <2>3, <4>1
      <4> QED BY <1>3, <2>2, <2>3, <3>2, <4>1, <4>2
    <3> QED BY <3>1, <3>2
  <2> QED BY <2>3 DEF Trails
<1>5. CASE ~noNewline
  <2>1. log' = Append(log, line)
    BY <1>5 DEF Extended
  <2>2. Len(log') = Len(log) + 1 /\ log'[Len(log) + 1] = line
        /\ \A i \in 1..Len(log) : log[i] = log'[i]
    BY <1>1, <2>1
  <2>3. ASSUME NEW i \in 1..Len(log)
        PROVE  Trail(log', i)
    <3>1. Trail(log, i) /\ i \in Nat /\ i > 0 /\ \A j \in 1..i : j \in 1..Len(log)
      BY <1>1, <2>3 DEF Trails
    <3>2. \A j \in 1..i : log[j] = log'[j]
      BY <2>2, <3>1
    <3> QED BY ONLY <3>1, <3>2, TrailLocal
  <2>4. CASE line = TornLine
    <3>1. Trail(log', Len(log) + 1)
      BY <1>2, <2>2, <2>4 DEF Trail
    <3> QED BY <1>1, <2>2, <2>3, <3>1 DEF Trails
  <2>5. CASE line = pending
    <3>1. CASE pending = InitialEvent(pending.reason)
      <4>1. Trail(log', Len(log) + 1)
        BY <2>2, <2>5, <3>1 DEF Trail, InitialEvent, Event, InitialState
      <4> QED BY <1>1, <2>2, <2>3, <4>1 DEF Trails
    <3>2. CASE Len(log) > 0 /\ Follows(CurrentState(log), pending)
      <4> DEFINE n == Len(log) + 1
      <4>1. n \in 1..Len(log') /\ n > 1 /\ n - 1 = Len(log)
            /\ Len(log) \in 1..Len(log)
        BY <1>1, <2>2, <3>2
      <4>2. Follows(log'[n - 1].new, log'[n])
        BY <2>2, <2>5, <3>2, <4>1 DEF CurrentState
      <4>3. Trail(log', n - 1)
        BY <2>3, <4>1
      <4>4. Trail(log', n)
        BY ONLY <1>1, <4>1, <4>2, <4>3, NextTrail
      <4> QED BY <1>1, <2>2, <2>3, <4>4 DEF Trails
    <3> QED BY <3>1, <3>2 DEF IInv, PendingParses
  <2> QED BY <2>4, <2>5
<1> QED BY <1>4, <1>5

LEMMA StepTrails ==
  IInv /\ IInv' /\ Trails /\ [Next]_vars => Trails'
<1> SUFFICES ASSUME IInv, IInv', Trails, [Next]_vars
             PROVE  Trails'
  OBVIOUS
<1>1. CASE log' = log
  BY <1>1 DEF Trails
<1>2. CASE AppendEvent
  BY <1>2, WriteTrails DEF AppendEvent
<1>3. CASE CrashInAppend
  BY <1>3, WriteTrails DEF CrashInAppend
<1> QED
  BY <1>1, <1>2, <1>3
  DEF Next, vars, InitializeState, BootstrapLegacyRun, WriteManifest,
      ValidateTransition, Crash, EditScope

(* A completed run went through every stage in order, and into the first   *)
(* of them with a scope that loaded, whatever transitions back, crashes    *)
(* and scope edits happened on the way (state.py:23-32, 325-339).          *)
THEOREM CompletedInOrder ==
  ASSUME NormalisedReasons
  PROVE  Spec => []StagesInOrder
<1>1. Init => Trails /\ ScopeChecked
  BY DEF Init, Trails, ScopeChecked, NoEvent, Event
<1>2. IInv /\ Trails /\ ScopeChecked => StagesInOrder
  <2>1. ASSUME IInv, Trails, NEW i \in 1..Len(log), log[i].new = "completed"
        PROVE  \E s, c, a, r \in 1..i :
                 /\ s < c /\ c < a /\ a < r /\ r < i
                 /\ log[s].new = "scoped"    /\ log[c].new = "collecting"
                 /\ log[a].new = "analyzing" /\ log[r].new = "reporting"
    <3>1. PICK r \in 1..i - 1 : log[r].new = "reporting" /\ Analyzed(log, r)
      BY <2>1 DEF Trails, Trail, Reported
    <3>2. PICK a \in 1..r - 1 : log[a].new = "analyzing" /\ Collected(log, a)
      BY <3>1 DEF Analyzed
    <3>3. PICK c \in 1..a - 1 : log[c].new = "collecting" /\ Scoped(log, c)
      BY <3>2 DEF Collected
    <3>4. PICK s \in 1..c - 1 : log[s].new = "scoped"
      BY <3>3 DEF Scoped
    <3>5. /\ s < c /\ c < a /\ a < r /\ r < i
          /\ s \in 1..i /\ c \in 1..i /\ a \in 1..i /\ r \in 1..i
      BY <2>1, <3>1, <3>2, <3>3, <3>4
    <3> QED BY <3>1, <3>2, <3>3, <3>4, <3>5
  <2>2. ASSUME IInv, ScopeChecked, NEW i \in 1..Len(log),
               \E s \in 1..i : log[s].new = "scoped"
        PROVE  scopedWell
    <3>1. PICK s \in 1..i : log[s].new = "scoped"
      BY <2>2
    <3>2. s \in 1..Len(log)
      BY <2>2, <3>1 DEF IInv, TypeOK
    <3> QED BY <2>2, <3>1, <3>2 DEF ScopeChecked
  <2> QED BY <2>1, <2>2 DEF StagesInOrder
<1> QED
  BY <1>1, <1>2, StepTrails, StepScopeChecked, InvariantHolds, PTL DEF Spec

-----------------------------------------------------------------------------
(* The derived state looks at one line: the last durable one.              *)
DurableLen(lg, open) == IF open \/ Torn(lg) THEN Len(lg) - 1 ELSE Len(lg)

StateOf(lg, n) == IF n = 0 THEN InitialState ELSE lg[n].new

LEMMA LastDurableLine ==
  ASSUME NEW lg \in Seq(Events), NEW open \in BOOLEAN, open => Len(lg) > 0,
         NEW d, d = Durable(lg, open)
  PROVE  StateOf(lg, DurableLen(lg, open)) = IF Len(d) = 0 THEN InitialState
                                             ELSE CurrentState(d)
<1>1. Len(lg) \in Nat
  OBVIOUS
<1>2. CASE open \/ Torn(lg)
  <2>1. d = SubSeq(lg, 1, Len(lg) - 1) /\ Len(lg) > 0
    BY <1>2 DEF Durable, Whole, Torn
  <2>2. Len(d) = Len(lg) - 1 /\ \A i \in 1..Len(lg) - 1 : d[i] = lg[i]
    BY <2>1, Front
  <2>3. DurableLen(lg, open) = Len(d)
    BY <1>2, <2>2 DEF DurableLen
  <2>4. Len(d) # 0 => d[Len(d)] = lg[Len(d)]
    BY <1>1, <2>1, <2>2
  <2> QED BY <2>3, <2>4 DEF StateOf, CurrentState
<1>3. CASE ~(open \/ Torn(lg))
  BY <1>3 DEF Durable, Whole, DurableLen, StateOf, CurrentState
<1> QED BY <1>2, <1>3

(* A write moves the derived state by an allowed transition, or leaves it. *)
LEMMA WriteDerives ==
  ASSUME IInv, IInv', pending # NoEvent, NEW line \in {pending, TornLine},
         log' = Extended(line)
  PROVE  \/ StateOf(log', DurableLen(log', noNewline'))
              = StateOf(log, DurableLen(log, noNewline))
         \/ StateOf(log', DurableLen(log', noNewline'))
              \in AllowedTransitions[StateOf(log, DurableLen(log, noNewline))]
<1>1. log \in Seq(Events) /\ line \in Events /\ pending \in Events
      /\ noNewline \in BOOLEAN /\ noNewline' \in BOOLEAN /\ TornLine \in Events
  BY NoEventTyped DEF IInv, TypeOK, TornLine
<1>2. TornLine.type = "torn"
  BY DEF TornLine, NoEvent, Event
<1>3. CASE noNewline
  <2>1. Len(log) > 0 /\ log' = [log EXCEPT ![Len(log)] = TornLine]
    BY <1>3 DEF IInv, Extended
  <2>2. Len(log') = Len(log) /\ log'[Len(log)] = TornLine
        /\ \A i \in 1..Len(log) - 1 : log'[i] = log[i]
    BY <1>1, <2>1
  <2>3. DurableLen(log', noNewline') = Len(log) - 1
    BY <1>2, <2>1, <2>2 DEF DurableLen, Torn
  <2>4. DurableLen(log, noNewline) = Len(log) - 1
    BY <1>3 DEF DurableLen
  <2>5. Len(log) - 1 = 0 \/ Len(log) - 1 \in 1..Len(log) - 1
    <3>1. \A k \in Nat : k > 0 => k - 1 = 0 \/ k - 1 \in 1..k - 1
      OBVIOUS
    <3>2. Len(log) \in Nat
      BY <1>1
    <3> QED BY <2>1, <3>1, <3>2
  <2>6. StateOf(log', Len(log) - 1) = StateOf(log, Len(log) - 1)
    BY <2>2, <2>5 DEF StateOf
  <2> QED BY <2>3, <2>4, <2>6
<1>4. CASE ~noNewline
  <2>1. log' = Append(log, line)
    BY <1>4 DEF Extended
  <2>2. Len(log') = Len(log) + 1 /\ log'[Len(log) + 1] = line
        /\ \A i \in 1..Len(log) : log'[i] = log[i]
    BY <1>1, <2>1
  <2>3. ~Torn(log)
    <3>1. \A i \in 1..Len(log) : log[i].type # "torn"
      <4>1. ASSUME NEW i \in 1..Len(log)
            PROVE  log[i].type # "torn"
        BY DEF IInv, LinesParse, PendingParses, Parses
      <4> QED BY <4>1
    <3> QED BY <1>1, <3>1 DEF Torn
  <2>4. DurableLen(log, noNewline) = Len(log)
    BY <1>4, <2>3 DEF DurableLen
  <2>5. CASE noNewline' \/ line = TornLine
    <3>1. DurableLen(log', noNewline') = Len(log)
      BY <1>1, <1>2, <2>2, <2>5 DEF DurableLen, Torn
    <3> QED BY <1>1, <2>2, <2>4, <3>1 DEF StateOf
  <2>6. CASE ~noNewline' /\ line = pending
    <3>1. pending.type # "torn"
      BY DEF IInv, PendingParses, InitialEvent, Event, Follows
    <3>2. DurableLen(log', noNewline') = Len(log) + 1
      BY <1>1, <2>2, <2>6, <3>1 DEF DurableLen, Torn
    <3>3. StateOf(log', DurableLen(log', noNewline')) = pending.new
      BY <1>1, <2>2, <2>6, <3>2 DEF StateOf
    <3>4. CASE pending = InitialEvent(pending.reason) /\ log = << >>
      BY <2>4, <3>3, <3>4 DEF StateOf, InitialEvent, Event
    <3>5. CASE Len(log) > 0 /\ Follows(CurrentState(log), pending)
      BY <2>4, <3>3, <3>5 DEF StateOf, Follows, CurrentState, ValidTransition
    <3> QED BY <3>4, <3>5 DEF IInv, PendingParses
  <2> QED BY <2>5, <2>6
<1> QED BY <1>3, <1>4

(* The ledger implements the workflow: the state that is derived from its  *)
(* durable lines moves by allowed transitions only (state.py:23-32, 212-   *)
(* 216, 274-339).                                                          *)
THEOREM LedgerImplementsWorkflow ==
  ASSUME NormalisedReasons
  PROVE  Spec => ImplementsWorkflow
<1>1. ASSUME IInv
      PROVE  DerivedState = StateOf(log, DurableLen(log, noNewline))
  BY <1>1, LastDurableLine DEF IInv, TypeOK, DerivedState
<1>2. ASSUME IInv'
      PROVE  DerivedState' = StateOf(log', DurableLen(log', noNewline'))
  BY <1>2, LastDurableLine DEF IInv, TypeOK, DerivedState
<1>0. WF!AllowedTransitions = AllowedTransitions /\ WF!InitialState = InitialState
  BY DEF WF!AllowedTransitions, AllowedTransitions, WF!InitialState, InitialState
<1>3. ASSUME Init
      PROVE  WF!Init
  <2>1. log = << >> /\ Len(log) = 0 /\ noNewline = FALSE
    BY <1>3 DEF Init
  <2>2. Durable(log, noNewline) = << >>
    BY <2>1 DEF Durable, Whole, Torn
  <2> QED BY <1>0, <2>1, <2>2 DEF WF!Init, DerivedState
<1>4. ASSUME IInv, IInv', [Next]_vars
      PROVE  [WF!Move]_DerivedState
  <2>1. ASSUME NEW line \in {pending, TornLine}, pending # NoEvent, log' = Extended(line)
        PROVE  [WF!Move]_DerivedState
    BY <1>0, <1>1, <1>2, <1>4, <2>1, WriteDerives DEF WF!Move
  <2>2. CASE UNCHANGED <<log, noNewline>>
    BY <2>2 DEF DerivedState
  <2>3. CASE AppendEvent
    BY <2>1, <2>3 DEF AppendEvent
  <2>4. CASE CrashInAppend
    <3>1. CASE log' = Extended(TornLine)
      BY <2>1, <2>4, <3>1 DEF CrashInAppend
    <3>2. CASE log' = Extended(pending)
      BY <2>1, <2>4, <3>2 DEF CrashInAppend
    <3> QED BY <2>4, <3>1, <3>2 DEF CrashInAppend
  <2> QED
    BY <1>4, <2>2, <2>3, <2>4
    DEF Next, vars, InitializeState, BootstrapLegacyRun, WriteManifest,
        ValidateTransition, Crash, EditScope
<1> QED
  BY <1>3, <1>4, InvariantHolds, PTL DEF Spec, ImplementsWorkflow, WF!Spec
=============================================================================
