---------------------------- MODULE SessionProofs ----------------------------
(***************************************************************************)
(* A session of Orchestrator gets nearer to its end with every step of the *)
(* loop and of the agent: what SessionEnds rests on, for every value of    *)
(* the constants.  That such a step is taken is the fairness of Spec.      *)
(***************************************************************************)
EXTENDS OrchestratorProofs, FiniteSetTheorems, WellFoundedInduction

USE BoundsAssumption DEF MarkInflight, ClearInflight, Enqueue, MayGoOn, MayRetry, NextAttempt

(* How far a session is from its end, the most significant part first:     *)
(* the phase; what the phase has still to do; where the hop is; the        *)
(* recommendations or retries that are left to it; the run of the agent.   *)
Phase ==
  CASE pc = "down"   -> 0
    [] pc = "resume" -> 3
    [] pc = "seed"   -> 2
    [] OTHER         -> 1

Left ==
  CASE pc = "down"   -> 0
    [] pc = "resume" -> Cardinality(todo)
    [] pc = "seed"   -> Len(seeds)
    [] OTHER         -> MaxHops - hops

Place ==
  CASE pc = "validate"           -> 3
    [] pc \in {"replan", "recs"} -> 2
    [] pc = "loop"               -> 1
    [] OTHER                     -> 0

TriesLeft ==
  CASE pc = "recs"                     -> Len(recs)
    [] pc \in {"dispatch", "running"}  -> MaxRetries - attempt
    [] OTHER                           -> 0

AgentRun ==
  CASE pc = "dispatch"                       -> 2
    [] pc = "running" /\ wrote = "nothing"   -> 1
    [] OTHER                                 -> 0

Distance == <<Phase, Left, Place, TriesLeft, AgentRun>>

Distances == [1..5 -> Nat]

(* The lexicographic order of distances. *)
LessThan == {p \in Nat \X Nat : p[1] < p[2]}
Nearer   == LexProductOrdering(LessThan, Nat, 5)

(* No sequence of distances descends for ever: a session that gets nearer  *)
(* with every step runs out of steps (the `while` of run_orchestration,    *)
(* orchestrator.py:196, has no other guarantee that it ends).              *)
THEOREM NoEndlessApproach == IsWellFoundedOn(Nearer, Distances)
<1>1. IsWellFoundedOn(LessThan, Nat)
  BY NatLessThanWellFounded DEF LessThan, OpToRel
<1> HIDE DEF LessThan
<1>2. QED
  BY <1>1, WFLexProductOrdering DEF Nearer, Distances

(* The files of requests, and with them what a session finds pending, are  *)
(* finitely many whatever names there are.                                 *)
Files == {r \in RequestIds : Exists(r)}

FiniteInv == IsFiniteSet(Files) /\ IsFiniteSet(todo)

LEMMA NewRequestFinite ==
  ASSUME FiniteInv, TypeInv, NEW r \in FreeIds, NEW h, NewRequest(r, h)
  PROVE  IsFiniteSet(Files')
<1>1. Files' \subseteq Files \cup {r}
  BY DEF NewRequest, Files, Exists, TypeInv, TypeOK
<1>2. IsFiniteSet(Files \cup {r})
  BY FS_AddElement DEF FiniteInv
<1>3. QED
  BY <1>1, <1>2, FS_Subset

LEMMA CreateHopFinite ==
  ASSUME FiniteInv, TypeInv, NEW h, NEW derived, CreateHop(h, derived)
  PROVE  IsFiniteSet(Files')
<1>1. CASE \E r \in FreeIds : NewRequest(r, h)
  BY <1>1, NewRequestFinite
<1>2. CASE UNCHANGED request
  BY <1>2 DEF FiniteInv, Files, Exists
<1>3. QED
  BY <1>1, <1>2 DEF CreateHop

LEMMA FiniteInit == Init => FiniteInv
<1> SUFFICES ASSUME Init PROVE FiniteInv
  OBVIOUS
<1>1. Files = {} /\ todo = {}
  BY DEF Init, Files, Exists
<1>2. QED
  BY <1>1, FS_EmptySet DEF FiniteInv

LEMMA FiniteStep == TypeInv /\ FiniteInv /\ [Next]_vars => FiniteInv'
<1> SUFFICES ASSUME TypeInv, FiniteInv, [Next]_vars PROVE FiniteInv'
  OBVIOUS
<1>1. IsFiniteSet(Files')
  <2>1. CASE UNCHANGED request
    BY <2>1 DEF FiniteInv, Files, Exists
  <2>2. CASE Seed
    BY <2>2, CreateHopFinite DEF Seed
  <2>3. CASE Replan
    BY <2>1, <2>3, CreateHopFinite DEF Replan
  <2>4. CASE Recommend
    BY <2>4, CreateHopFinite DEF Recommend
  <2>5. ASSUME NEW h \in OtherHops, OtherRequest(h) PROVE IsFiniteSet(Files')
    BY <2>5, NewRequestFinite DEF OtherRequest
  <2>6. QED
    BY <2>1, <2>2, <2>3, <2>4, <2>5
    DEF Next, Step, Operator, Start, Resume, ResumeDone, SeedsDone, LoopEnds, LoopHalts,
        WallClockExceeded, Stop, PopHop, Dispatch, AgentWrites, TimesOut, ExecutorFails,
        ExecutorReturns, Conclude, ResultValid, ResultInvalid, RequestBound,
        RecommendationsDone, Crash, TransitionState, GrantApproval, ApprovalEnds,
        OtherAnswer, vars, disk
<1>2. IsFiniteSet(todo')
  <2>1. CASE UNCHANGED todo
    BY <2>1 DEF FiniteInv
  <2>2. CASE todo' = {}
    BY <2>2, FS_EmptySet
  <2>3. CASE Start
    <3>1. todo' \subseteq Files
      BY <2>3 DEF Start, Pending, Files
    <3>2. QED
      BY <3>1, FS_Subset DEF FiniteInv
  <2>4. ASSUME NEW r \in RequestIds, Resume(r) PROVE IsFiniteSet(todo')
    BY <2>4, FS_RemoveElement DEF Resume, FiniteInv
  <2>5. QED
    BY <2>1, <2>2, <2>3, <2>4
    DEF Next, Step, Operator, ResumeDone, Seed, SeedsDone, LoopEnds, LoopHalts,
        WallClockExceeded, Stop, Blank, PopHop, Dispatch, AgentWrites, TimesOut,
        ExecutorFails, ExecutorReturns, Conclude, ResultValid, ResultInvalid, Replan,
        Recommend, RequestBound, RecommendationsDone, Crash, TransitionState,
        GrantApproval, ApprovalEnds, OtherRequest, OtherAnswer, Environment, vars, work
<1>3. QED
  BY <1>1, <1>2 DEF FiniteInv

-----------------------------------------------------------------------------
SessionInv == TypeInv /\ BoundsInv /\ FiniteInv

Typed ==
  /\ Phase \in Nat /\ Left \in Nat /\ Place \in Nat /\ TriesLeft \in Nat /\ AgentRun \in Nat
  /\ Distance \in Distances

LEMMA DistanceType == SessionInv => Typed
<1> SUFFICES ASSUME SessionInv PROVE Typed
  OBVIOUS
<1>1. Phase \in Nat /\ Place \in Nat /\ AgentRun \in Nat
  BY DEF Phase, Place, AgentRun
<1>2. Left \in Nat
  <2>1. Cardinality(todo) \in Nat
    BY FS_CardinalityType DEF SessionInv, FiniteInv
  <2>2. seeds \in Seq(Hops)
    BY DEF SessionInv, TypeInv, TypeOK
  <2>3. hops \in Nat /\ hops <= MaxHops
    BY DEF SessionInv, TypeInv, TypeOK, BoundsInv, BoundsHold
  <2>4. Len(seeds) \in Nat
    BY <2>2
  <2>5. MaxHops - hops \in Nat
    BY <2>3
  <2>6. QED
    BY <2>1, <2>4, <2>5 DEF Left
<1>3. TriesLeft \in Nat
  <2>1. recs \in Seq(Advice) /\ attempt \in 0..MaxRetries
    BY DEF SessionInv, TypeInv, TypeOK
  <2>2. Len(recs) \in Nat
    BY <2>1
  <2>3. MaxRetries - attempt \in Nat
    BY <2>1
  <2>4. QED
    BY <2>2, <2>3 DEF TriesLeft
<1>4. Distance \in Distances
  <2> HIDE DEF Phase, Left, Place, TriesLeft, AgentRun
  <2> QED
    BY <1>1, <1>2, <1>3 DEF Distance, Distances
<1>5. QED
  BY <1>1, <1>2, <1>3, <1>4 DEF Typed

(* What it takes to be nearer, part by part.                               *)
Descends ==
  \/ Phase' < Phase
  \/ Phase' = Phase /\ Left' < Left
  \/ Phase' = Phase /\ Left' = Left /\ Place' < Place
  \/ Phase' = Phase /\ Left' = Left /\ Place' = Place /\ TriesLeft' < TriesLeft
  \/ /\ Phase' = Phase /\ Left' = Left /\ Place' = Place /\ TriesLeft' = TriesLeft
     /\ AgentRun' < AgentRun

LEMMA DescendsIsNearer ==
  ASSUME SessionInv, SessionInv', Descends
  PROVE  <<Distance', Distance>> \in Nearer
<1>1. Typed /\ Typed'
  BY DistanceType, PTL
<1>2. /\ Phase \in Nat /\ Left \in Nat /\ Place \in Nat /\ TriesLeft \in Nat /\ AgentRun \in Nat
      /\ Phase' \in Nat /\ Left' \in Nat /\ Place' \in Nat /\ TriesLeft' \in Nat
      /\ AgentRun' \in Nat
      /\ Distance \in Distances /\ Distance' \in Distances
  BY <1>1 DEF Typed
<1>3. \E j \in 1..5 :
        /\ \A i \in 1..(j-1) : Distance'[i] = Distance[i]
        /\ <<Distance'[j], Distance[j]>> \in LessThan
  <2> HIDE DEF Phase, Left, Place, TriesLeft, AgentRun, SessionInv
  <2>1. /\ Distance[1] = Phase /\ Distance[2] = Left /\ Distance[3] = Place
        /\ Distance[4] = TriesLeft /\ Distance[5] = AgentRun
        /\ Distance'[1] = Phase' /\ Distance'[2] = Left' /\ Distance'[3] = Place'
        /\ Distance'[4] = TriesLeft' /\ Distance'[5] = AgentRun'
    BY DEF Distance
  <2> HIDE DEF Distance
  <2>2. \A m, n \in Nat : m < n => <<m, n>> \in LessThan
    BY DEF LessThan
  <2> HIDE DEF LessThan
  <2>3. CASE Phase' < Phase
    <3>1. \A i \in 1..(1-1) : Distance'[i] = Distance[i]
      OBVIOUS
    <3>2. <<Distance'[1], Distance[1]>> \in LessThan
      BY <1>2, <2>1, <2>2, <2>3
    <3> QED BY <3>1, <3>2
  <2>4. CASE Phase' = Phase /\ Left' < Left
    <3>1. \A i \in 1..(2-1) : Distance'[i] = Distance[i]
      BY <2>1, <2>4
    <3>2. <<Distance'[2], Distance[2]>> \in LessThan
      BY <1>2, <2>1, <2>2, <2>4
    <3> QED BY <3>1, <3>2
  <2>5. CASE Phase' = Phase /\ Left' = Left /\ Place' < Place
    <3>1. \A i \in 1..(3-1) : Distance'[i] = Distance[i]
      BY <2>1, <2>5
    <3>2. <<Distance'[3], Distance[3]>> \in LessThan
      BY <1>2, <2>1, <2>2, <2>5
    <3> QED BY <3>1, <3>2
  <2>6. CASE Phase' = Phase /\ Left' = Left /\ Place' = Place /\ TriesLeft' < TriesLeft
    <3>1. \A i \in 1..(4-1) : Distance'[i] = Distance[i]
      BY <2>1, <2>6
    <3>2. <<Distance'[4], Distance[4]>> \in LessThan
      BY <1>2, <2>1, <2>2, <2>6
    <3> QED BY <3>1, <3>2
  <2>7. CASE /\ Phase' = Phase /\ Left' = Left /\ Place' = Place /\ TriesLeft' = TriesLeft
             /\ AgentRun' < AgentRun
    <3>1. \A i \in 1..(5-1) : Distance'[i] = Distance[i]
      BY <2>1, <2>7
    <3>2. <<Distance'[5], Distance[5]>> \in LessThan
      BY <1>2, <2>1, <2>2, <2>7
    <3> QED BY <3>1, <3>2
  <2> QED BY <2>3, <2>4, <2>5, <2>6, <2>7 DEF Descends
<1>4. QED
  BY <1>2, <1>3 DEF Nearer, LexProductOrdering, Distances

-----------------------------------------------------------------------------
(* Every step of the loop and of the agent descends, and so does a crash.  *)
LEMMA StepDescends == SessionInv /\ (Step \/ Crash) => Descends
<1> SUFFICES ASSUME SessionInv, Step \/ Crash PROVE Descends
  OBVIOUS
<1>0. /\ Len(seeds) \in Nat /\ Len(recs) \in Nat /\ hops \in Nat
      /\ attempt \in 0..MaxRetries /\ pc \in Locations
      /\ seeds \in Seq(Hops) /\ recs \in Seq(Advice)
      /\ IsFiniteSet(todo)
      /\ pc \in {"dispatch", "running"} => hops < MaxHops
  BY DEF SessionInv, TypeInv, TypeOK, BoundsInv, FiniteInv
<1> USE DEF Descends
<1>1. ASSUME NEW r \in RequestIds, Resume(r) PROVE Descends
  <2>1. Cardinality(todo') = Cardinality(todo) - 1 /\ Cardinality(todo) \in Nat
    BY <1>0, <1>1, FS_RemoveElement, FS_CardinalityType DEF Resume
  <2>2. pc = "resume" /\ pc' = "resume"
    BY <1>1 DEF Resume
  <2>3. QED
    BY <2>1, <2>2 DEF Phase, Left
<1>2. CASE ResumeDone
  BY <1>2 DEF ResumeDone, Phase
<1>3. CASE Seed
  <2>1. Len(seeds') = Len(seeds) - 1
    BY <1>0, <1>3 DEF Seed
  <2>2. pc = "seed" /\ pc' = "seed"
    BY <1>3 DEF Seed
  <2>3. QED
    BY <1>0, <2>1, <2>2 DEF Phase, Left
<1>4. CASE SeedsDone
  BY <1>4 DEF SeedsDone, Phase
<1>5. CASE LoopEnds \/ LoopHalts \/ WallClockExceeded
  BY <1>5 DEF LoopEnds, LoopHalts, WallClockExceeded, Stop, Phase
<1>6. CASE Crash
  BY <1>0, <1>6 DEF Crash, Phase, Locations
<1>7. CASE PopHop
  BY <1>7 DEF PopHop, report, Phase, Left, Place
<1>8. CASE Dispatch
  BY <1>0, <1>8 DEF Dispatch, report, Phase, Left, Place, TriesLeft, AgentRun
<1>9. CASE AgentWrites
  BY <1>0, <1>9 DEF AgentWrites, report, Phase, Left, Place, TriesLeft, AgentRun
<1>10. CASE TimesOut
  BY <1>0, <1>10 DEF TimesOut, report, Phase, Left, Place, TriesLeft
<1>11. CASE ExecutorFails \/ ExecutorReturns
  BY <1>0, <1>11 DEF ExecutorFails, ExecutorReturns, Conclude, Phase, Left
<1>12. CASE ResultValid
  BY <1>12 DEF ResultValid, report, Phase, Left, Place
<1>13. CASE ResultInvalid
  BY <1>13 DEF ResultInvalid, report, Phase, Left, Place
<1>14. CASE Replan
  BY <1>14 DEF Replan, Phase, Left, Place
<1>15. CASE Recommend
  <2>1. Len(recs') = Len(recs) - 1
    BY <1>0, <1>15 DEF Recommend
  <2>2. pc = "recs" /\ pc' = "recs" /\ hops' = hops
    BY <1>15 DEF Recommend
  <2>3. QED
    BY <1>0, <2>1, <2>2 DEF Phase, Left, Place, TriesLeft
<1>16. CASE RequestBound
  <2>1. Len(recs') < Len(recs)
    BY <1>0, <1>16 DEF RequestBound
  <2>2. pc = "recs" /\ pc' = "recs" /\ hops' = hops
    BY <1>16 DEF RequestBound
  <2>3. QED
    BY <1>0, <2>1, <2>2 DEF Phase, Left, Place, TriesLeft
<1>17. CASE RecommendationsDone
  BY <1>17 DEF RecommendationsDone, report, Phase, Left, Place
<1>18. QED
  BY <1>1, <1>2, <1>3, <1>4, <1>5, <1>6, <1>7, <1>8, <1>9, <1>10, <1>11, <1>12, <1>13,
     <1>14, <1>15, <1>16, <1>17 DEF Step

(* The operator does not touch the memory of the session.                  *)
LEMMA OperatorKeepsDistance == Operator => Distance' = Distance
<1> SUFFICES ASSUME Operator PROVE Distance' = Distance
  OBVIOUS
<1>1. Environment
  BY DEF Operator, TransitionState, GrantApproval, ApprovalEnds, OtherRequest, OtherAnswer
<1>2. UNCHANGED <<pc, todo, seeds, hops, recs, attempt, wrote>>
  BY <1>1 DEF Environment, work, report
<1>3. QED
  BY <1>2 DEF Distance, Phase, Left, Place, TriesLeft, AgentRun

Advances ==
  /\ Step \/ Crash => <<Distance', Distance>> \in Nearer
  /\ Operator => Distance' = Distance

LEMMA SessionInductive == Spec => []SessionInv
<1>1. Init => SessionInv
  <2>1. Init => BoundsInv
    BY TypeInit DEF Init, BoundsInv, BoundsHold, TypeInv, TypeOK, None
  <2>2. QED
    BY <2>1, TypeInit, FiniteInit DEF SessionInv
<1>2. SessionInv /\ [Next]_vars => SessionInv'
  BY TypeStep, BoundsStep, FiniteStep DEF SessionInv
<1>3. QED
  BY <1>1, <1>2, PTL DEF Spec

(* Every step of the loop or of an agent brings the session nearer to its  *)
(* end and no step of the operator takes it away from it: with             *)
(* NoEndlessApproach, a session has finitely many steps, whatever agents   *)
(* answer, fail at and recommend, and whatever the operator does meanwhile *)
(* (run_orchestration, orchestrator.py:157-263; executors that return).    *)
THEOREM SessionApproachesItsEnd == Spec => [][Advances]_vars
<1>1. SessionInv /\ SessionInv' /\ [Next]_vars => [Advances]_vars
  <2> SUFFICES ASSUME SessionInv, SessionInv' PROVE Advances
    OBVIOUS
  <2>1. Step \/ Crash => <<Distance', Distance>> \in Nearer
    BY StepDescends, DescendsIsNearer
  <2>2. QED
    BY <2>1, OperatorKeepsDistance DEF Advances
<1>2. QED
  BY <1>1, SessionInductive, PTL DEF Spec
=============================================================================
