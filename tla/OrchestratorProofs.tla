------------------------- MODULE OrchestratorProofs -------------------------
(***************************************************************************)
(* Theorems about Orchestrator, for every value of its constants.          *)
(***************************************************************************)
EXTENDS Orchestrator, TLAPS

USE SkillsAssumption, CandidatesAssumption, IdsAssumption, SeedsAssumption,
    RecsAssumption, StagesAssumption, BoundsAssumption
    DEF MarkInflight, ClearInflight, Enqueue, MayGoOn, MayRetry, NextAttempt

(* Where the session has a request at hand. *)
AtHop == {"dispatch", "running", "validate", "replan", "recs"}

(* The type invariant with what it needs to be inductive. *)
TypeInv == TypeOK /\ (pc \in AtHop => current \in RequestIds)

(* What _create_hop does to the variables it writes, typed. *)
LEMMA CreateHopType ==
  ASSUME TypeInv, NEW h \in Hops, NEW derived \in BOOLEAN, CreateHop(h, derived)
  PROVE  /\ request' \in [RequestIds -> Hops \cup {NoHop}]
         /\ queue' \in Seq(RequestIds)
         /\ keys' \in SUBSET Hops
         /\ created' \in Nat
         /\ createdBy' \in [RequestActions -> Nat]
         /\ seededBy' \in [RequestActions -> Nat]
<1>1. CASE ~UNCHANGED <<request, queue, keys, created, createdBy, seededBy>>
  <2>1. h.action \in RequestActions
    BY <1>1 DEF CreateHop, Creatable
  <2>2. PICK r \in FreeIds : NewRequest(r, h) /\ queue' = Append(queue, r)
    BY <1>1 DEF CreateHop
  <2>3. r \in RequestIds
    BY <2>2 DEF FreeIds
  <2>4. request' \in [RequestIds -> Hops \cup {NoHop}]
    BY <2>2, <2>3 DEF NewRequest, TypeInv, TypeOK
  <2>5. queue' \in Seq(RequestIds)
    BY <2>2, <2>3 DEF TypeInv, TypeOK
  <2>6. /\ keys' = keys \cup {h}
        /\ created' = created + 1
        /\ createdBy' = [createdBy EXCEPT ![h.action] = @ + 1]
        /\ \/ seededBy' = seededBy
           \/ seededBy' = [seededBy EXCEPT ![h.action] = @ + 1]
    BY <1>1 DEF CreateHop
  <2>7. keys' \in SUBSET Hops /\ created' \in Nat
    BY <2>6 DEF TypeInv, TypeOK
  <2>8. createdBy' \in [RequestActions -> Nat]
    BY <2>1, <2>6 DEF TypeInv, TypeOK
  <2>9. seededBy' \in [RequestActions -> Nat]
    BY <2>1, <2>6 DEF TypeInv, TypeOK
  <2>10. QED
    BY <2>4, <2>5, <2>7, <2>8, <2>9
<1>2. CASE UNCHANGED <<request, queue, keys, created, createdBy, seededBy>>
  BY <1>2 DEF TypeInv, TypeOK
<1>3. QED
  BY <1>1, <1>2

LEMMA EmptySeqs ==
  << >> \in Seq(Hops) /\ << >> \in Seq(RequestIds) /\ << >> \in Seq(Advice)
OBVIOUS

LEMMA TypeInit == Init => TypeInv
<1>1. None \in [RequestActions -> Nat]
  BY DEF None
<1>2. QED
  <2> SUFFICES ASSUME Init PROVE TypeInv
    OBVIOUS
  <2>1. request \in [RequestIds -> Hops \cup {NoHop}]
    BY DEF Init
  <2>2. seeds \in Seq(Hops) /\ queue \in Seq(RequestIds) /\ recs \in Seq(Advice)
    BY EmptySeqs DEF Init
  <2>3. createdBy \in [RequestActions -> Nat] /\ seededBy \in [RequestActions -> Nat]
    BY <1>1 DEF Init
  <2>4. attempt \in 0..MaxRetries
    BY DEF Init
  <2>5. QED
    BY <2>1, <2>2, <2>3, <2>4 DEF Init, TypeInv, TypeOK, Locations, AtHop

(* A session that stops or dies leaves well-typed variables. *)
LEMMA BlankType ==
  ASSUME TypeInv, Blank, pc' = "down", UNCHANGED <<disk, policy>>,
         abandoned' \in SUBSET RequestIds, UNCHANGED foreign
  PROVE  TypeInv'
<1>1. None \in [RequestActions -> Nat]
  BY DEF None
<1>2. QED
  <2>1. /\ request' \in [RequestIds -> Hops \cup {NoHop}]
        /\ answered' \in SUBSET RequestIds /\ inflight' \in SUBSET RequestIds
        /\ state' \in Stages /\ live' \in SUBSET Grantable
        /\ foreign' \in SUBSET RequestIds
    BY DEF TypeInv, TypeOK, disk, policy
  <2>2. seeds' \in Seq(Hops) /\ queue' \in Seq(RequestIds) /\ recs' \in Seq(Advice)
    BY EmptySeqs DEF Blank
  <2>3. createdBy' \in [RequestActions -> Nat] /\ seededBy' \in [RequestActions -> Nat]
    BY <1>1 DEF Blank
  <2>4. attempt' \in 0..MaxRetries
    BY DEF Blank
  <2>5. QED
    BY <2>1, <2>2, <2>3, <2>4 DEF Blank, TypeInv, TypeOK, Locations, AtHop

LEMMA TypeStep == TypeInv /\ [Next]_vars => TypeInv'
<1> SUFFICES ASSUME TypeInv, [Next]_vars PROVE TypeInv'
  OBVIOUS
<1> USE DEF TypeInv, TypeOK, AtHop, Locations
<1>1. CASE UNCHANGED vars
  BY <1>1 DEF vars, disk, policy, work, report, history
<1>2. CASE Start
  <2>1. keys' \in SUBSET Hops
    BY <1>2 DEF Start, Exists
  <2>2. todo' \in SUBSET RequestIds
    BY <1>2 DEF Start, Pending
  <2>3. QED
    BY <1>2, <2>1, <2>2 DEF Start, vars, disk, policy, work, report, history
<1>3. ASSUME NEW r \in RequestIds, Resume(r) PROVE TypeInv'
  <2>1. queue' \in Seq(RequestIds)
    <3>1. Append(queue, r) \in Seq(RequestIds)
      OBVIOUS
    <3>2. queue' = queue \/ queue' = Append(queue, r)
      BY <1>3 DEF Resume
    <3>3. QED
      BY <3>1, <3>2
  <2>2. QED
    BY <1>3, <2>1 DEF Resume, vars, disk, policy, work, report, history
<1>4. CASE ResumeDone
  BY <1>4 DEF ResumeDone, vars, disk, policy, work, report, history
<1>5. CASE SeedsDone
  BY <1>5 DEF SeedsDone, vars, disk, policy, work, report, history
<1>6. CASE Seed
  <2>1. Head(seeds) \in Hops /\ Tail(seeds) \in Seq(Hops)
    BY <1>6 DEF Seed
  <2>2. CreateHop(Head(seeds), FALSE)
    BY <1>6 DEF Seed
  <2> HIDE DEF TypeInv
  <2>3. /\ request' \in [RequestIds -> Hops \cup {NoHop}]
        /\ queue' \in Seq(RequestIds)
        /\ keys' \in SUBSET Hops
        /\ created' \in Nat
        /\ createdBy' \in [RequestActions -> Nat]
        /\ seededBy' \in [RequestActions -> Nat]
    BY <2>1, <2>2, CreateHopType
  <2>4. QED
    BY <1>6, <2>1, <2>3 DEF TypeInv, Seed, policy
<1>7. CASE LoopEnds
  BY <1>7, BlankType DEF LoopEnds, Stop, vars, disk, policy, work, report, history
<1>8. CASE LoopHalts
  BY <1>8, BlankType DEF LoopHalts, Stop, vars, disk, policy, work, report, history
<1>9. CASE WallClockExceeded
  BY <1>9, BlankType DEF WallClockExceeded, Stop, vars, disk, policy, work, report, history
<1>10. CASE PopHop
  <2>1. Head(queue) \in RequestIds /\ Tail(queue) \in Seq(RequestIds)
    BY <1>10 DEF PopHop
  <2>2. QED
    <3>1. current' \in RequestIds /\ queue' \in Seq(RequestIds)
      BY <1>10, <2>1 DEF PopHop
    <3>2. inflight' = inflight \cup {current'} /\ tried' = tried \cup {current'}
          /\ abandoned' = abandoned \ {current'}
      BY <1>10 DEF PopHop
    <3>3. /\ pc' = "dispatch" /\ attempt' = 0
          /\ UNCHANGED <<request, answered, policy, todo, seeds, keys, wrote, recs,
                         report, moved, seededBy, late, foreign, unread>>
      BY <1>10 DEF PopHop
    <3>4. QED
      BY <3>1, <3>2, <3>3 DEF policy, report
<1>11. CASE Dispatch
  BY <1>11 DEF Dispatch, vars, disk, policy, work, report, history
<1>12. CASE AgentWrites
  BY <1>12 DEF AgentWrites, vars, disk, policy, work, report, history
<1>13. CASE TimesOut
  BY <1>13 DEF TimesOut, vars, disk, policy, work, report, history
<1>14. CASE ExecutorFails
  BY <1>14 DEF ExecutorFails, Conclude, vars, disk, policy, work, report, history
<1>15. CASE ExecutorReturns
  BY <1>15 DEF ExecutorReturns, Conclude, vars, disk, policy, work, report, history
<1>16. CASE ResultValid
  BY <1>16 DEF ResultValid, vars, disk, policy, work, report, history
<1>17. CASE ResultInvalid
  BY <1>17 DEF ResultInvalid, vars, disk, policy, work, report, history
<1>18. CASE Replan
  <2>1. Fallback \in Hops
    BY <1>18 DEF Replan, Fallback, Hops, NoHop, Targets, ActionTypes, PassiveActions
  <2>2. /\ request' \in [RequestIds -> Hops \cup {NoHop}]
        /\ queue' \in Seq(RequestIds)
        /\ keys' \in SUBSET Hops
        /\ created' \in Nat
        /\ createdBy' \in [RequestActions -> Nat]
        /\ seededBy' \in [RequestActions -> Nat]
    <3> HIDE DEF TypeInv
    <3>1. CASE MayReplan /\ CreateHop(Fallback, TRUE)
      BY <3>1, <2>1, CreateHopType
    <3>2. CASE UNCHANGED <<request, queue, keys, created, createdBy, seededBy>>
      BY <3>2 DEF TypeInv
    <3>3. QED
      BY <1>18, <3>1, <3>2 DEF Replan
  <2>3. QED
    BY <1>18, <2>2 DEF Replan, policy
<1>19. CASE Recommend
  <2>1. Head(recs) \in Advice /\ Tail(recs) \in Seq(Advice)
    BY <1>19 DEF Recommend
  <2>2. Derived(Head(recs)) \in Hops
    BY <2>1 DEF Derived, Hops, Advice
  <2>3. CreateHop(Derived(Head(recs)), TRUE)
    BY <1>19 DEF Recommend
  <2>4. /\ request' \in [RequestIds -> Hops \cup {NoHop}]
        /\ queue' \in Seq(RequestIds)
        /\ keys' \in SUBSET Hops
        /\ created' \in Nat
        /\ createdBy' \in [RequestActions -> Nat]
        /\ seededBy' \in [RequestActions -> Nat]
    <3> HIDE DEF TypeInv
    <3>1. QED
      BY <2>2, <2>3, CreateHopType
  <2>5. QED
    BY <1>19, <2>1, <2>4 DEF Recommend, policy
<1>20. CASE RequestBound
  BY <1>20 DEF RequestBound, vars, disk, policy, work, report, history
<1>21. CASE RecommendationsDone
  BY <1>21 DEF RecommendationsDone, vars, disk, policy, work, report, history
<1>22. CASE Crash
  <2>1. current \in RequestIds \/ ~InHand
    BY DEF InHand
  <2>2. QED
    BY <1>22, <2>1, BlankType DEF Crash, InHand, disk, policy
<1>23. CASE TransitionState
  BY <1>23 DEF TransitionState, Environment, vars, disk, policy, work, report, history
<1>24. ASSUME NEW k \in Grantable, GrantApproval(k) \/ ApprovalEnds(k) PROVE TypeInv'
  BY <1>24 DEF GrantApproval, ApprovalEnds, Environment, vars, disk, policy, work, report, history
<1>25. ASSUME NEW h \in OtherHops, OtherRequest(h) PROVE TypeInv'
  <2>1. PICK r \in FreeIds : NewRequest(r, h) /\ foreign' = foreign \cup {r}
    BY <1>25 DEF OtherRequest
  <2>2. r \in RequestIds
    BY <2>1 DEF FreeIds
  <2>3. QED
    BY <1>25, <2>1, <2>2 DEF OtherRequest, NewRequest, Environment, vars, disk, policy, work, report, history
<1>26. ASSUME NEW r \in RequestIds, OtherAnswer(r) PROVE TypeInv'
  BY <1>26 DEF OtherAnswer, Environment, policy, work, report
<1>27. QED
  BY <1>1, <1>2, <1>3, <1>4, <1>5, <1>6, <1>7, <1>8, <1>9, <1>10, <1>11, <1>12, <1>13, <1>14, <1>15, <1>16, <1>17, <1>18, <1>19, <1>20, <1>21, <1>22, <1>23, <1>24, <1>25, <1>26 DEF Next, Step, Operator

(* Every variable of the loop keeps its type, in particular the request    *)
(* files hold well-formed hops and the session's counters are numbers.     *)
THEOREM TypeCorrect == Spec => []TypeOK
<1>1. TypeInv => TypeOK
  BY DEF TypeInv
<1>2. QED
  BY <1>1, TypeInit, TypeStep, PTL DEF Spec

-----------------------------------------------------------------------------
(* MarkedWhileInHand is inductive once it also covers a hop that is about  *)
(* to be dispatched for the first time.                                    *)
MarkInv == pc \in {"dispatch", "running"} => current \in inflight

LEMMA MarkStep == MarkInv /\ [Next]_vars => MarkInv'
<1> SUFFICES ASSUME MarkInv, [Next]_vars PROVE MarkInv'
  OBVIOUS
<1> USE DEF MarkInv
<1>1. CASE UNCHANGED vars
  BY <1>1 DEF vars, disk, policy, work, report, history
<1>2. CASE Start
  BY <1>2 DEF Start, vars, disk, policy, work, report, history
<1>3. ASSUME NEW r \in RequestIds, Resume(r) PROVE MarkInv'
  BY <1>3 DEF Resume, vars, disk, policy, work, report, history
<1>4. CASE ResumeDone
  BY <1>4 DEF ResumeDone, vars, disk, policy, work, report, history
<1>5. CASE Seed
  BY <1>5 DEF Seed, vars, disk, policy, work, report, history
<1>6. CASE SeedsDone
  BY <1>6 DEF SeedsDone, vars, disk, policy, work, report, history
<1>7. CASE LoopEnds
  BY <1>7 DEF LoopEnds, Stop, Blank, vars, disk, policy, work, report, history
<1>8. CASE LoopHalts
  BY <1>8 DEF LoopHalts, Stop, Blank, vars, disk, policy, work, report, history
<1>9. CASE WallClockExceeded
  BY <1>9 DEF WallClockExceeded, Stop, Blank, vars, disk, policy, work, report, history
<1>10. CASE PopHop
  BY <1>10 DEF PopHop, vars, disk, policy, work, report, history
<1>11. CASE Dispatch
  BY <1>11 DEF Dispatch, vars, disk, policy, work, report, history
<1>12. CASE AgentWrites
  BY <1>12 DEF AgentWrites, vars, disk, policy, work, report, history
<1>13. CASE TimesOut
  BY <1>13 DEF TimesOut, vars, disk, policy, work, report, history
<1>14. CASE ExecutorFails
  BY <1>14 DEF ExecutorFails, Conclude, vars, disk, policy, work, report, history
<1>15. CASE ExecutorReturns
  BY <1>15 DEF ExecutorReturns, Conclude, vars, disk, policy, work, report, history
<1>16. CASE ResultValid
  BY <1>16 DEF ResultValid, vars, disk, policy, work, report, history
<1>17. CASE ResultInvalid
  BY <1>17 DEF ResultInvalid, vars, disk, policy, work, report, history
<1>18. CASE Replan
  BY <1>18 DEF Replan, vars, disk, policy, work, report, history
<1>19. CASE Recommend
  BY <1>19 DEF Recommend, vars, disk, policy, work, report, history
<1>20. CASE RequestBound
  BY <1>20 DEF RequestBound, vars, disk, policy, work, report, history
<1>21. CASE RecommendationsDone
  BY <1>21 DEF RecommendationsDone, vars, disk, policy, work, report, history
<1>22. CASE Crash
  BY <1>22 DEF Crash, Blank, vars, disk, policy, work, report, history
<1>23. CASE TransitionState
  BY <1>23 DEF TransitionState, Environment, vars, disk, policy, work, report, history
<1>24. ASSUME NEW k \in Grantable, GrantApproval(k) \/ ApprovalEnds(k) PROVE MarkInv'
  BY <1>24 DEF GrantApproval, ApprovalEnds, Environment, vars, disk, policy, work, report, history
<1>25. ASSUME NEW h \in OtherHops, OtherRequest(h) PROVE MarkInv'
  BY <1>25 DEF OtherRequest, Environment, vars, disk, policy, work, report, history
<1>26. ASSUME NEW r \in RequestIds, OtherAnswer(r) PROVE MarkInv'
  BY <1>26 DEF OtherAnswer, Environment, vars, disk, policy, work, report, history
<1>27. QED
  BY <1>1, <1>2, <1>3, <1>4, <1>5, <1>6, <1>7, <1>8, <1>9, <1>10, <1>11, <1>12, <1>13, <1>14, <1>15, <1>16, <1>17, <1>18, <1>19, <1>20, <1>21, <1>22, <1>23, <1>24, <1>25, <1>26 DEF Next, Step, Operator

(* The crash marker is on disk whenever the agent may be at work, through  *)
(* every retry, so a crash at any moment leaves it behind.                 *)
THEOREM MarkerProtocol == Spec => []MarkedWhileInHand
<1>1. Init => MarkInv
  BY DEF Init, MarkInv
<1>2. MarkInv => MarkedWhileInHand
  BY DEF MarkInv, MarkedWhileInHand, InHand
<1>3. QED
  BY <1>1, <1>2, MarkStep, PTL DEF Spec

-----------------------------------------------------------------------------
(* Late dispatches belong to the hop that was taken before the state       *)
(* moved: nothing else is taken afterwards.                                *)
LateInv ==
  /\ pc = "down" => late = {}
  /\ \A r \in late : moved /\ r = current

LEMMA LateStep == LateInv /\ [Next]_vars => LateInv'
<1> SUFFICES ASSUME LateInv, [Next]_vars PROVE LateInv'
  OBVIOUS
<1> USE DEF LateInv
<1>1. CASE UNCHANGED vars
  BY <1>1 DEF vars, disk, policy, work, report, history
<1>2. CASE Start
  BY <1>2 DEF Start, vars, disk, policy, work, report, history
<1>3. ASSUME NEW r \in RequestIds, Resume(r) PROVE LateInv'
  BY <1>3 DEF Resume, vars, disk, policy, work, report, history
<1>4. CASE ResumeDone
  BY <1>4 DEF ResumeDone, vars, disk, policy, work, report, history
<1>5. CASE Seed
  BY <1>5 DEF Seed, vars, disk, policy, work, report, history
<1>6. CASE SeedsDone
  BY <1>6 DEF SeedsDone, vars, disk, policy, work, report, history
<1>7. CASE LoopEnds
  BY <1>7 DEF LoopEnds, Stop, Blank, vars, disk, policy, work, report, history
<1>8. CASE LoopHalts
  BY <1>8 DEF LoopHalts, Stop, Blank, vars, disk, policy, work, report, history
<1>9. CASE WallClockExceeded
  BY <1>9 DEF WallClockExceeded, Stop, Blank, vars, disk, policy, work, report, history
<1>10. CASE PopHop
  BY <1>10 DEF PopHop, vars, disk, policy, work, report, history
<1>11. CASE Dispatch
  BY <1>11 DEF Dispatch, vars, disk, policy, work, report, history
<1>12. CASE AgentWrites
  BY <1>12 DEF AgentWrites, vars, disk, policy, work, report, history
<1>13. CASE TimesOut
  BY <1>13 DEF TimesOut, vars, disk, policy, work, report, history
<1>14. CASE ExecutorFails
  BY <1>14 DEF ExecutorFails, Conclude, vars, disk, policy, work, report, history
<1>15. CASE ExecutorReturns
  BY <1>15 DEF ExecutorReturns, Conclude, vars, disk, policy, work, report, history
<1>16. CASE ResultValid
  BY <1>16 DEF ResultValid, vars, disk, policy, work, report, history
<1>17. CASE ResultInvalid
  BY <1>17 DEF ResultInvalid, vars, disk, policy, work, report, history
<1>18. CASE Replan
  BY <1>18 DEF Replan, vars, disk, policy, work, report, history
<1>19. CASE Recommend
  BY <1>19 DEF Recommend, vars, disk, policy, work, report, history
<1>20. CASE RequestBound
  BY <1>20 DEF RequestBound, vars, disk, policy, work, report, history
<1>21. CASE RecommendationsDone
  BY <1>21 DEF RecommendationsDone, vars, disk, policy, work, report, history
<1>22. CASE Crash
  BY <1>22 DEF Crash, Blank, vars, disk, policy, work, report, history
<1>23. CASE TransitionState
  BY <1>23 DEF TransitionState, Environment, vars, disk, policy, work, report, history
<1>24. ASSUME NEW k \in Grantable, GrantApproval(k) \/ ApprovalEnds(k) PROVE LateInv'
  BY <1>24 DEF GrantApproval, ApprovalEnds, Environment, vars, disk, policy, work, report, history
<1>25. ASSUME NEW h \in OtherHops, OtherRequest(h) PROVE LateInv'
  BY <1>25 DEF OtherRequest, Environment, vars, disk, policy, work, report, history
<1>26. ASSUME NEW r \in RequestIds, OtherAnswer(r) PROVE LateInv'
  BY <1>26 DEF OtherAnswer, Environment, vars, disk, policy, work, report, history
<1>27. QED
  BY <1>1, <1>2, <1>3, <1>4, <1>5, <1>6, <1>7, <1>8, <1>9, <1>10, <1>11, <1>12, <1>13, <1>14, <1>15, <1>16, <1>17, <1>18, <1>19, <1>20, <1>21, <1>22, <1>23, <1>24, <1>25, <1>26 DEF Next, Step, Operator

(* Once the workflow state has moved under a session, no more than the one *)
(* hop already past the check is dispatched, however many are queued.      *)
THEOREM StateChangeHalts == Spec => []HaltsAfterStateChange
<1>1. Init => LateInv
  BY DEF Init, LateInv
<1>2. LateInv => HaltsAfterStateChange
  BY DEF LateInv, HaltsAfterStateChange
<1>3. QED
  BY <1>1, <1>2, LateStep, PTL DEF Spec

-----------------------------------------------------------------------------
LEMMA DerivedIsHop ==
  ASSUME TypeInv, recs # << >>
  PROVE  Derived(Head(recs)) \in Hops
<1>1. Head(recs) \in Advice
  BY DEF TypeInv, TypeOK
<1>2. QED
  BY <1>1 DEF Derived, Hops, Advice

LEMMA FallbackIsHop ==
  ASSUME TypeInv, pc = "replan"
  PROVE  Fallback \in Hops
<1>1. request[current] \in Hops \cup {NoHop}
  BY DEF TypeInv, TypeOK, AtHop
<1>2. QED
  BY <1>1 DEF Fallback, Hops, NoHop, Targets, ActionTypes, PassiveActions

(* Hops are never the mark of an absent request: skills have other names. *)
LEMMA HopExists == \A h \in Hops : h # NoHop
BY DEF Hops, NoHop

(* What _create_hop does: nothing, or one request under an unused name.    *)
LEMMA CreateHopEffect ==
  ASSUME NEW h \in Hops, NEW derived \in BOOLEAN, CreateHop(h, derived)
  PROVE  \/ UNCHANGED <<request, queue, keys, created, createdBy, seededBy>>
         \/ \E r \in RequestIds :
              /\ ~Exists(r)
              /\ request' = [request EXCEPT ![r] = h]
              /\ queue' = Append(queue, r)
              /\ keys' = keys \cup {h}
              /\ created' = created + 1
              /\ createdBy' = [createdBy EXCEPT ![h.action] = @ + 1]
              /\ seededBy' = IF derived THEN seededBy
                             ELSE [seededBy EXCEPT ![h.action] = @ + 1]
              /\ Creatable(h, derived)
BY DEF CreateHop, NewRequest, FreeIds

(* Every request of the loop's own is among the keys of a running session. *)
DupInv ==
  /\ NoDuplicateHops
  /\ pc # "down" => \A r \in RequestIds \ foreign : Exists(r) => request[r] \in keys

LEMMA DupCreate ==
  ASSUME TypeInv, DupInv, pc # "down", UNCHANGED foreign,
         NEW h \in Hops, NEW derived \in BOOLEAN, CreateHop(h, derived)
  PROVE  DupInv'
<1>1. CASE UNCHANGED <<request, queue, keys, created, createdBy, seededBy>>
  BY <1>1 DEF DupInv, NoDuplicateHops, Exists
<1>2. ASSUME NEW r \in RequestIds, ~Exists(r), h \notin keys,
             request' = [request EXCEPT ![r] = h], keys' = keys \cup {h}
      PROVE  DupInv'
  <2>1. \A q \in RequestIds : request'[q] = IF q = r THEN h ELSE request[q]
    BY <1>2 DEF TypeInv, TypeOK
  <2>2. \A q \in RequestIds \ foreign : Exists(q) => request[q] # h
    BY <1>2 DEF DupInv
  <2>3. NoDuplicateHops'
    BY <2>1, <2>2, HopExists DEF DupInv, NoDuplicateHops, Exists
  <2>4. \A q \in RequestIds \ foreign : Exists(q)' => request'[q] \in keys'
    BY <1>2, <2>1 DEF DupInv, Exists
  <2>5. QED
    BY <2>3, <2>4 DEF DupInv
<1>3. QED
  BY <1>1, <1>2, CreateHopEffect DEF Creatable

LEMMA DupStep == TypeInv /\ DupInv /\ [Next]_vars => DupInv'
<1> SUFFICES ASSUME TypeInv, DupInv, [Next]_vars PROVE DupInv'
  OBVIOUS
<1>1. CASE UNCHANGED vars
  BY <1>1 DEF vars, disk, policy, work, report, history, DupInv, NoDuplicateHops, Exists
<1>2. CASE Start
  <2>1. \A r \in RequestIds : Exists(r) => request[r] \in keys'
    BY <1>2 DEF Start
  <2>2. request' = request /\ foreign' = foreign
    BY <1>2 DEF Start, disk, history
  <2>3. QED
    BY <2>1, <2>2 DEF DupInv, NoDuplicateHops, Exists
<1>3. ASSUME NEW r \in RequestIds, Resume(r) PROVE DupInv'
  BY <1>3 DEF Resume, vars, disk, policy, work, report, history, DupInv, NoDuplicateHops, Exists
<1>4. CASE ResumeDone
  BY <1>4 DEF ResumeDone, vars, disk, policy, work, report, history, DupInv, NoDuplicateHops, Exists
<1>5. CASE Seed
  <2>1. Head(seeds) \in Hops
    BY <1>5 DEF Seed, TypeInv, TypeOK
  <2>2. CreateHop(Head(seeds), FALSE)
    BY <1>5 DEF Seed
  <2>3. QED
    BY <1>5, <2>1, <2>2, DupCreate DEF Seed
<1>6. CASE SeedsDone
  BY <1>6 DEF SeedsDone, vars, disk, policy, work, report, history, DupInv, NoDuplicateHops, Exists
<1>7. CASE LoopEnds
  BY <1>7 DEF LoopEnds, Stop, Blank, vars, disk, policy, work, report, history, DupInv, NoDuplicateHops, Exists
<1>8. CASE LoopHalts
  BY <1>8 DEF LoopHalts, Stop, Blank, vars, disk, policy, work, report, history, DupInv, NoDuplicateHops, Exists
<1>9. CASE WallClockExceeded
  BY <1>9 DEF WallClockExceeded, Stop, Blank, vars, disk, policy, work, report, history, DupInv, NoDuplicateHops, Exists
<1>10. CASE PopHop
  BY <1>10 DEF PopHop, vars, disk, policy, work, report, history, DupInv, NoDuplicateHops, Exists
<1>11. CASE Dispatch
  BY <1>11 DEF Dispatch, vars, disk, policy, work, report, history, DupInv, NoDuplicateHops, Exists
<1>12. CASE AgentWrites
  BY <1>12 DEF AgentWrites, vars, disk, policy, work, report, history, DupInv, NoDuplicateHops, Exists
<1>13. CASE TimesOut
  BY <1>13 DEF TimesOut, vars, disk, policy, work, report, history, DupInv, NoDuplicateHops, Exists
<1>14. CASE ExecutorFails
  BY <1>14 DEF ExecutorFails, Conclude, vars, disk, policy, work, report, history, DupInv, NoDuplicateHops, Exists
<1>15. CASE ExecutorReturns
  BY <1>15 DEF ExecutorReturns, Conclude, vars, disk, policy, work, report, history, DupInv, NoDuplicateHops, Exists
<1>16. CASE ResultValid
  BY <1>16 DEF ResultValid, vars, disk, policy, work, report, history, DupInv, NoDuplicateHops, Exists
<1>17. CASE ResultInvalid
  BY <1>17 DEF ResultInvalid, vars, disk, policy, work, report, history, DupInv, NoDuplicateHops, Exists
<1>18. CASE Replan
  <2>1. CASE MayReplan /\ CreateHop(Fallback, TRUE)
    BY <1>18, <2>1, FallbackIsHop, DupCreate DEF Replan
  <2>2. CASE UNCHANGED <<request, queue, keys, created, createdBy, seededBy>>
    BY <1>18, <2>2 DEF Replan, DupInv, NoDuplicateHops, Exists
  <2>3. QED
    BY <1>18, <2>1, <2>2 DEF Replan
<1>19. CASE Recommend
  <2>1. Derived(Head(recs)) \in Hops
    BY <1>19, DerivedIsHop DEF Recommend
  <2>2. CreateHop(Derived(Head(recs)), TRUE)
    BY <1>19 DEF Recommend
  <2>3. QED
    BY <1>19, <2>1, <2>2, DupCreate DEF Recommend
<1>20. CASE RequestBound
  BY <1>20 DEF RequestBound, vars, disk, policy, work, report, history, DupInv, NoDuplicateHops, Exists
<1>21. CASE RecommendationsDone
  BY <1>21 DEF RecommendationsDone, vars, disk, policy, work, report, history, DupInv, NoDuplicateHops, Exists
<1>22. CASE Crash
  BY <1>22 DEF Crash, Blank, vars, disk, policy, work, report, history, DupInv, NoDuplicateHops, Exists
<1>23. CASE TransitionState
  BY <1>23 DEF TransitionState, Environment, vars, disk, policy, work, report, history, DupInv, NoDuplicateHops, Exists
<1>24. ASSUME NEW k \in Grantable, GrantApproval(k) \/ ApprovalEnds(k) PROVE DupInv'
  BY <1>24 DEF GrantApproval, ApprovalEnds, Environment, vars, disk, policy, work, report, history, DupInv, NoDuplicateHops, Exists
<1>25. ASSUME NEW h \in OtherHops, OtherRequest(h) PROVE DupInv'
  <2>1. PICK r \in FreeIds : NewRequest(r, h) /\ foreign' = foreign \cup {r}
    BY <1>25 DEF OtherRequest
  <2>2. /\ request' = [request EXCEPT ![r] = h]
        /\ pc' = pc /\ keys' = keys
    BY <1>25, <2>1 DEF OtherRequest, NewRequest, Environment, work
  <2>3. \A q \in RequestIds \ foreign' : request'[q] = request[q]
    BY <2>1, <2>2 DEF TypeInv, TypeOK
  <2>4. foreign \subseteq foreign'
    BY <2>1
  <2>5. QED
    BY <2>2, <2>3, <2>4 DEF DupInv, NoDuplicateHops, Exists
<1>26. ASSUME NEW r \in RequestIds, OtherAnswer(r) PROVE DupInv'
  BY <1>26 DEF OtherAnswer, Environment, vars, disk, policy, work, report, history, DupInv, NoDuplicateHops, Exists
<1>27. QED
  BY <1>1, <1>2, <1>3, <1>4, <1>5, <1>6, <1>7, <1>8, <1>9, <1>10, <1>11, <1>12, <1>13, <1>14, <1>15, <1>16, <1>17, <1>18, <1>19, <1>20, <1>21, <1>22, <1>23, <1>24, <1>25, <1>26 DEF Next, Step, Operator

(* Across any number of sessions, crashes and resumptions the loop creates *)
(* no second request for a skill, action and candidate it has asked for.   *)
THEOREM NeverAsksTwice == Spec => []NoDuplicateHops
<1>1. Init => DupInv
  BY DEF Init, DupInv, NoDuplicateHops, Exists
<1>2. DupInv => NoDuplicateHops
  BY DEF DupInv
<1>3. QED
  BY <1>1, <1>2, TypeInit, TypeStep, DupStep, PTL DEF Spec

-----------------------------------------------------------------------------
LEMMA NoHandoffAction == \A a \in RequestActions : a \notin HandoffOnly
BY DEF RequestActions, HandoffOnly, LocalActions, PassiveActions, ActiveActions,
       IntrusiveActions, ProhibitedActions

LEMMA HandoffCreate ==
  ASSUME TypeInv, HandoffOnlyNeverRequested,
         NEW h \in Hops, NEW derived \in BOOLEAN, CreateHop(h, derived)
  PROVE  HandoffOnlyNeverRequested'
<1>1. CASE UNCHANGED <<request, queue, keys, created, createdBy, seededBy>>
  BY <1>1 DEF HandoffOnlyNeverRequested
<1>2. ASSUME NEW r \in RequestIds, request' = [request EXCEPT ![r] = h],
             h.action \in RequestActions
      PROVE  HandoffOnlyNeverRequested'
  BY <1>2, NoHandoffAction DEF TypeInv, TypeOK, HandoffOnlyNeverRequested
<1>3. QED
  BY <1>1, <1>2, CreateHopEffect DEF Creatable

LEMMA HandoffStep ==
  TypeInv /\ HandoffOnlyNeverRequested /\ [Next]_vars => HandoffOnlyNeverRequested'
<1> SUFFICES ASSUME TypeInv, HandoffOnlyNeverRequested, [Next]_vars
             PROVE  HandoffOnlyNeverRequested'
  OBVIOUS
<1>1. CASE UNCHANGED vars
  BY <1>1 DEF vars, disk, policy, work, report, history, HandoffOnlyNeverRequested
<1>2. CASE Start
  BY <1>2 DEF Start, vars, disk, policy, work, report, history, HandoffOnlyNeverRequested
<1>3. ASSUME NEW r \in RequestIds, Resume(r) PROVE HandoffOnlyNeverRequested'
  BY <1>3 DEF Resume, vars, disk, policy, work, report, history, HandoffOnlyNeverRequested
<1>4. CASE ResumeDone
  BY <1>4 DEF ResumeDone, vars, disk, policy, work, report, history, HandoffOnlyNeverRequested
<1>5. CASE Seed
  <2>1. Head(seeds) \in Hops
    BY <1>5 DEF Seed, TypeInv, TypeOK
  <2>2. CreateHop(Head(seeds), FALSE)
    BY <1>5 DEF Seed
  <2>3. QED
    BY <1>5, <2>1, <2>2, HandoffCreate DEF Seed
<1>6. CASE SeedsDone
  BY <1>6 DEF SeedsDone, vars, disk, policy, work, report, history, HandoffOnlyNeverRequested
<1>7. CASE LoopEnds
  BY <1>7 DEF LoopEnds, Stop, Blank, vars, disk, policy, work, report, history, HandoffOnlyNeverRequested
<1>8. CASE LoopHalts
  BY <1>8 DEF LoopHalts, Stop, Blank, vars, disk, policy, work, report, history, HandoffOnlyNeverRequested
<1>9. CASE WallClockExceeded
  BY <1>9 DEF WallClockExceeded, Stop, Blank, vars, disk, policy, work, report, history, HandoffOnlyNeverRequested
<1>10. CASE PopHop
  BY <1>10 DEF PopHop, vars, disk, policy, work, report, history, HandoffOnlyNeverRequested
<1>11. CASE Dispatch
  BY <1>11 DEF Dispatch, vars, disk, policy, work, report, history, HandoffOnlyNeverRequested
<1>12. CASE AgentWrites
  BY <1>12 DEF AgentWrites, vars, disk, policy, work, report, history, HandoffOnlyNeverRequested
<1>13. CASE TimesOut
  BY <1>13 DEF TimesOut, vars, disk, policy, work, report, history, HandoffOnlyNeverRequested
<1>14. CASE ExecutorFails
  BY <1>14 DEF ExecutorFails, Conclude, vars, disk, policy, work, report, history, HandoffOnlyNeverRequested
<1>15. CASE ExecutorReturns
  BY <1>15 DEF ExecutorReturns, Conclude, vars, disk, policy, work, report, history, HandoffOnlyNeverRequested
<1>16. CASE ResultValid
  BY <1>16 DEF ResultValid, vars, disk, policy, work, report, history, HandoffOnlyNeverRequested
<1>17. CASE ResultInvalid
  BY <1>17 DEF ResultInvalid, vars, disk, policy, work, report, history, HandoffOnlyNeverRequested
<1>18. CASE Replan
  <2>1. CASE MayReplan /\ CreateHop(Fallback, TRUE)
    BY <1>18, <2>1, FallbackIsHop, HandoffCreate DEF Replan
  <2>2. CASE UNCHANGED <<request, queue, keys, created, createdBy, seededBy>>
    BY <1>18, <2>2 DEF Replan, HandoffOnlyNeverRequested
  <2>3. QED
    BY <1>18, <2>1, <2>2 DEF Replan
<1>19. CASE Recommend
  <2>1. Derived(Head(recs)) \in Hops
    BY <1>19, DerivedIsHop DEF Recommend
  <2>2. CreateHop(Derived(Head(recs)), TRUE)
    BY <1>19 DEF Recommend
  <2>3. QED
    BY <1>19, <2>1, <2>2, HandoffCreate DEF Recommend
<1>20. CASE RequestBound
  BY <1>20 DEF RequestBound, vars, disk, policy, work, report, history, HandoffOnlyNeverRequested
<1>21. CASE RecommendationsDone
  BY <1>21 DEF RecommendationsDone, vars, disk, policy, work, report, history, HandoffOnlyNeverRequested
<1>22. CASE Crash
  BY <1>22 DEF Crash, Blank, vars, disk, policy, work, report, history, HandoffOnlyNeverRequested
<1>23. CASE TransitionState
  BY <1>23 DEF TransitionState, Environment, vars, disk, policy, work, report, history, HandoffOnlyNeverRequested
<1>24. ASSUME NEW k \in Grantable, GrantApproval(k) \/ ApprovalEnds(k) PROVE HandoffOnlyNeverRequested'
  BY <1>24 DEF GrantApproval, ApprovalEnds, Environment, vars, disk, policy, work, report, history, HandoffOnlyNeverRequested
<1>25. ASSUME NEW h \in OtherHops, OtherRequest(h) PROVE HandoffOnlyNeverRequested'
  <2>1. PICK r \in FreeIds : NewRequest(r, h)
    BY <1>25 DEF OtherRequest
  <2>2. request' = [request EXCEPT ![r] = h] /\ r \in RequestIds
    BY <2>1 DEF NewRequest, FreeIds
  <2>3. h.action \notin HandoffOnly
    BY <1>25, NoHandoffAction DEF OtherRequest
  <2>4. QED
    BY <2>2, <2>3 DEF TypeInv, TypeOK, HandoffOnlyNeverRequested
<1>26. ASSUME NEW r \in RequestIds, OtherAnswer(r) PROVE HandoffOnlyNeverRequested'
  BY <1>26 DEF OtherAnswer, Environment, vars, disk, policy, work, report, history, HandoffOnlyNeverRequested
<1>27. QED
  BY <1>1, <1>2, <1>3, <1>4, <1>5, <1>6, <1>7, <1>8, <1>9, <1>10, <1>11, <1>12, <1>13, <1>14, <1>15, <1>16, <1>17, <1>18, <1>19, <1>20, <1>21, <1>22, <1>23, <1>24, <1>25, <1>26 DEF Next, Step, Operator

(* No request for an intrusive or prohibited action is ever written, in    *)
(* whatever state and under whatever approvals.                            *)
THEOREM HandoffStaysWithPeople == Spec => []HandoffOnlyNeverRequested
<1>1. "none" \notin HandoffOnly
  BY DEF HandoffOnly, IntrusiveActions, ProhibitedActions
<1>2. Init => HandoffOnlyNeverRequested
  BY <1>1 DEF Init, HandoffOnlyNeverRequested, NoHop
<1>3. QED
  BY <1>2, TypeInit, TypeStep, HandoffStep, PTL DEF Spec

-----------------------------------------------------------------------------
(* The bounds are inductive with the loop head's test on hops, and with    *)
(* the order of a session: seeds are created before anything is derived.   *)
BoundsInv ==
  /\ BoundsHold
  /\ pc \in {"dispatch", "running"} => hops < MaxHops
  /\ pc \in {"down", "resume", "seed"} => createdBy = seededBy

LEMMA BoundsCreate ==
  ASSUME TypeInv, BoundsInv, NEW h \in Hops, NEW derived \in BOOLEAN,
         CreateHop(h, derived), UNCHANGED hops,
         derived => created < MaxRequests,
         ~derived => pc = "seed" /\ pc' \in {"seed"},
         derived => pc' \notin {"down", "resume", "seed", "dispatch", "running"}
  PROVE  BoundsInv'
<1>1. CASE UNCHANGED <<request, queue, keys, created, createdBy, seededBy>>
  BY <1>1 DEF BoundsInv, BoundsHold
<1>2. CASE /\ created' = created + 1
           /\ createdBy' = [createdBy EXCEPT ![h.action] = @ + 1]
           /\ seededBy' = IF derived THEN seededBy
                          ELSE [seededBy EXCEPT ![h.action] = @ + 1]
           /\ Creatable(h, derived)
  <2>1. CASE derived
    <3>1. h.action \in RequestActions /\ createdBy[h.action] < PerActionCap[h.action]
      BY <1>2, <2>1 DEF Creatable
    <3>2. \A a \in RequestActions :
            createdBy'[a] = IF a = h.action THEN createdBy[a] + 1 ELSE createdBy[a]
      BY <1>2, <3>1 DEF TypeInv, TypeOK
    <3>3. ~(created' > MaxRequests)
      BY <1>2, <2>1 DEF TypeInv, TypeOK
    <3>4. \A a \in RequestActions :
            createdBy'[a] > PerActionCap[a] => createdBy'[a] = seededBy'[a]
      BY <1>2, <2>1, <3>1, <3>2 DEF BoundsInv, BoundsHold, TypeInv, TypeOK
    <3>5. QED
      BY <2>1, <3>3, <3>4 DEF BoundsInv, BoundsHold
  <2>2. CASE ~derived
    <3>1. createdBy' = seededBy'
      BY <1>2, <2>2 DEF BoundsInv
    <3>2. QED
      BY <2>2, <3>1 DEF BoundsInv, BoundsHold
  <2>3. QED
    BY <2>1, <2>2
<1>3. QED
  BY <1>1, <1>2, CreateHopEffect

LEMMA BoundsStep == TypeInv /\ BoundsInv /\ [Next]_vars => BoundsInv'
<1> SUFFICES ASSUME TypeInv, BoundsInv, [Next]_vars PROVE BoundsInv'
  OBVIOUS
<1>1. CASE UNCHANGED vars
  BY <1>1 DEF vars, disk, policy, work, report, history, BoundsInv, BoundsHold, TypeInv, TypeOK
<1>2. CASE Start
  BY <1>2 DEF Start, vars, disk, policy, work, report, history, BoundsInv, BoundsHold, TypeInv, TypeOK
<1>3. ASSUME NEW r \in RequestIds, Resume(r) PROVE BoundsInv'
  BY <1>3 DEF Resume, vars, disk, policy, work, report, history, BoundsInv, BoundsHold, TypeInv, TypeOK
<1>4. CASE ResumeDone
  BY <1>4 DEF ResumeDone, vars, disk, policy, work, report, history, BoundsInv, BoundsHold, TypeInv, TypeOK
<1>5. CASE Seed
  <2>1. Head(seeds) \in Hops
    BY <1>5 DEF Seed, TypeInv, TypeOK
  <2>2. CreateHop(Head(seeds), FALSE)
    BY <1>5 DEF Seed
  <2>3. QED
    BY <1>5, <2>1, <2>2, BoundsCreate DEF Seed
<1>6. CASE SeedsDone
  BY <1>6 DEF SeedsDone, vars, disk, policy, work, report, history, BoundsInv, BoundsHold, TypeInv, TypeOK
<1>7. CASE LoopEnds
  BY <1>7 DEF LoopEnds, Stop, Blank, vars, disk, policy, work, report, history, BoundsInv, BoundsHold, TypeInv, TypeOK
<1>8. CASE LoopHalts
  BY <1>8 DEF LoopHalts, Stop, Blank, vars, disk, policy, work, report, history, BoundsInv, BoundsHold, TypeInv, TypeOK
<1>9. CASE WallClockExceeded
  BY <1>9 DEF WallClockExceeded, Stop, Blank, vars, disk, policy, work, report, history, BoundsInv, BoundsHold, TypeInv, TypeOK
<1>10. CASE PopHop
  BY <1>10 DEF PopHop, vars, disk, policy, work, report, history, BoundsInv, BoundsHold, TypeInv, TypeOK
<1>11. CASE Dispatch
  BY <1>11 DEF Dispatch, vars, disk, policy, work, report, history, BoundsInv, BoundsHold, TypeInv, TypeOK
<1>12. CASE AgentWrites
  BY <1>12 DEF AgentWrites, vars, disk, policy, work, report, history, BoundsInv, BoundsHold, TypeInv, TypeOK
<1>13. CASE TimesOut
  BY <1>13 DEF TimesOut, vars, disk, policy, work, report, history, BoundsInv, BoundsHold, TypeInv, TypeOK
<1>14. CASE ExecutorFails
  BY <1>14 DEF ExecutorFails, Conclude, vars, disk, policy, work, report, history, BoundsInv, BoundsHold, TypeInv, TypeOK
<1>15. CASE ExecutorReturns
  BY <1>15 DEF ExecutorReturns, Conclude, vars, disk, policy, work, report, history, BoundsInv, BoundsHold, TypeInv, TypeOK
<1>16. CASE ResultValid
  BY <1>16 DEF ResultValid, vars, disk, policy, work, report, history, BoundsInv, BoundsHold, TypeInv, TypeOK
<1>17. CASE ResultInvalid
  BY <1>17 DEF ResultInvalid, vars, disk, policy, work, report, history, BoundsInv, BoundsHold, TypeInv, TypeOK
<1>18. CASE Replan
  <2>1. CASE MayReplan /\ CreateHop(Fallback, TRUE)
    BY <1>18, <2>1, FallbackIsHop, BoundsCreate DEF Replan, MayReplan, RequestsLeft
  <2>2. CASE UNCHANGED <<request, queue, keys, created, createdBy, seededBy>>
    BY <1>18, <2>2 DEF Replan, BoundsInv, BoundsHold
  <2>3. QED
    BY <1>18, <2>1, <2>2 DEF Replan
<1>19. CASE Recommend
  <2>1. Derived(Head(recs)) \in Hops
    BY <1>19, DerivedIsHop DEF Recommend
  <2>2. CreateHop(Derived(Head(recs)), TRUE)
    BY <1>19 DEF Recommend
  <2>3. QED
    BY <1>19, <2>1, <2>2, BoundsCreate DEF Recommend, RequestsLeft
<1>20. CASE RequestBound
  BY <1>20 DEF RequestBound, vars, disk, policy, work, report, history, BoundsInv, BoundsHold, TypeInv, TypeOK
<1>21. CASE RecommendationsDone
  BY <1>21 DEF RecommendationsDone, vars, disk, policy, work, report, history, BoundsInv, BoundsHold, TypeInv, TypeOK
<1>22. CASE Crash
  BY <1>22 DEF Crash, Blank, vars, disk, policy, work, report, history, BoundsInv, BoundsHold, TypeInv, TypeOK
<1>23. CASE TransitionState
  BY <1>23 DEF TransitionState, Environment, vars, disk, policy, work, report, history, BoundsInv, BoundsHold, TypeInv, TypeOK
<1>24. ASSUME NEW k \in Grantable, GrantApproval(k) \/ ApprovalEnds(k) PROVE BoundsInv'
  BY <1>24 DEF GrantApproval, ApprovalEnds, Environment, vars, disk, policy, work, report, history, BoundsInv, BoundsHold, TypeInv, TypeOK
<1>25. ASSUME NEW h \in OtherHops, OtherRequest(h) PROVE BoundsInv'
  BY <1>25 DEF OtherRequest, Environment, vars, disk, policy, work, report, history, BoundsInv, BoundsHold, TypeInv, TypeOK
<1>26. ASSUME NEW r \in RequestIds, OtherAnswer(r) PROVE BoundsInv'
  BY <1>26 DEF OtherAnswer, Environment, vars, disk, policy, work, report, history, BoundsInv, BoundsHold, TypeInv, TypeOK
<1>27. QED
  BY <1>1, <1>2, <1>3, <1>4, <1>5, <1>6, <1>7, <1>8, <1>9, <1>10, <1>11, <1>12, <1>13, <1>14, <1>15, <1>16, <1>17, <1>18, <1>19, <1>20, <1>21, <1>22, <1>23, <1>24, <1>25, <1>26 DEF Next, Step, Operator

(* Whatever results recommend and whatever fails, hops, requests and       *)
(* requests per action stay within the bounds; only seeds may exceed them. *)
THEOREM BoundsRespected == Spec => []BoundsHold
<1>1. Init => BoundsInv
  BY DEF Init, BoundsInv, BoundsHold
<1>2. BoundsInv => BoundsHold
  BY DEF BoundsInv
<1>3. QED
  BY <1>1, <1>2, TypeInit, TypeStep, BoundsStep, PTL DEF Spec

-----------------------------------------------------------------------------
(* The queue as a set. *)
LEMMA QueuedAppend ==
  ASSUME queue \in Seq(RequestIds), NEW r \in RequestIds, queue' = Append(queue, r)
  PROVE  Queued' = Queued \cup {r}
BY DEF Queued

LEMMA QueuedTail ==
  ASSUME queue \in Seq(RequestIds), queue # << >>, queue' = Tail(queue)
  PROVE  /\ Queued' \subseteq Queued
         /\ Head(queue) \in Queued
         /\ Queued \subseteq Queued' \cup {Head(queue)}
<1>1. Queued' \subseteq Queued /\ Head(queue) \in Queued
  BY DEF Queued
<1>2. ASSUME NEW i \in 1..Len(queue)
      PROVE  queue[i] \in Queued' \cup {Head(queue)}
  <2>1. CASE i = 1
    BY <2>1
  <2>2. CASE i > 1
    <3>1. i - 1 \in 1..Len(Tail(queue)) /\ Tail(queue)[i - 1] = queue[i]
      BY <2>2
    <3>2. QED
      BY <3>1 DEF Queued
  <2>3. QED
    BY <2>1, <2>2
<1>3. QED
  BY <1>1, <1>2 DEF Queued

LEMMA QueuedEmpty == queue' = << >> => Queued' = {}
BY DEF Queued

(* The requests a session handles exist, and those set aside are active.   *)
Known ==
  /\ \A r \in Queued \cup todo \cup deferred : r \in RequestIds /\ Exists(r)
  /\ \A r \in abandoned : r \in RequestIds /\ Exists(r) /\ IsActive(r)
  /\ pc \in AtHop => current \in RequestIds /\ Exists(current)

(* A request is classified once: what is still to be classified is neither *)
(* queued nor set aside.                                                   *)
Apart ==
  /\ pc # "resume" => todo = {}
  /\ pc = "down" => Queued = {} /\ deferred = {}
  /\ todo \cap (Queued \cup deferred) = {}

Deferral ==
  ~RetryInterruptedActive =>
    \A r \in deferred \cup (abandoned \cap inflight) :
      r \notin Queued /\ (pc \in {"dispatch", "running"} => r # current)

DeferInv == Known /\ Apart /\ Deferral

LEMMA KnownIds ==
  ASSUME DeferInv
  PROVE  /\ \A r \in Queued \cup todo \cup deferred \cup abandoned : r \in RequestIds /\ Exists(r)
         /\ pc \in AtHop => current \in RequestIds /\ Exists(current)
BY DEF DeferInv, Known

LEMMA DeferCreate ==
  ASSUME TypeInv, DeferInv, NEW h \in Hops, NEW derived \in BOOLEAN, CreateHop(h, derived),
         pc \in {"seed", "recs", "replan"}, pc' \in {"recs", "loop"} \/ pc' = pc,
         pc = "seed" => pc' = "seed",
         UNCHANGED <<answered, inflight, todo, deferred, abandoned, current>>
  PROVE  DeferInv'
<1>1. CASE UNCHANGED <<request, queue, keys, created, createdBy, seededBy>>
  BY <1>1 DEF DeferInv, Known, Apart, Deferral, Queued, Exists, IsActive, AtHop
<1>2. ASSUME NEW r \in RequestIds, ~Exists(r), request' = [request EXCEPT ![r] = h],
             queue' = Append(queue, r)
      PROVE  DeferInv'
  <2>1. Queued' = Queued \cup {r}
    BY <1>2, QueuedAppend DEF TypeInv, TypeOK
  <2>2. /\ \A q \in RequestIds : Exists(q) => request'[q] = request[q]
        /\ Exists(r)'
    BY <1>2, HopExists DEF Exists, TypeInv, TypeOK
  <2>3. Known'
    BY <1>2, <2>1, <2>2 DEF DeferInv, Known, Exists, IsActive, AtHop
  <2>4. Apart' /\ Deferral'
    BY <1>2, <2>1, KnownIds DEF DeferInv, Apart, Deferral
  <2>5. QED
    BY <2>3, <2>4 DEF DeferInv
<1>3. QED
  BY <1>1, <1>2, CreateHopEffect

LEMMA DeferStep == TypeInv /\ DeferInv /\ [Next]_vars => DeferInv'
<1> SUFFICES ASSUME TypeInv, DeferInv, [Next]_vars PROVE DeferInv'
  OBVIOUS
<1>1. CASE UNCHANGED vars
  BY <1>1 DEF vars, disk, policy, work, report, history, DeferInv, Known, Apart, Deferral, Queued, Exists, IsActive, AtHop
<1>2. CASE Start
  <2>1. /\ pc = "down" /\ pc' = "resume" /\ todo' = Pending
        /\ UNCHANGED <<request, inflight, queue, current, deferred, abandoned>>
    BY <1>2 DEF Start, disk, report, history
  <2>2. Queued' = Queued /\ Queued = {} /\ deferred = {}
    BY <2>1 DEF DeferInv, Apart, Queued
  <2>3. Known'
    BY <2>1, <2>2 DEF DeferInv, Known, Pending, Exists, IsActive, AtHop
  <2>4. Apart' /\ Deferral'
    BY <2>1, <2>2 DEF Apart, Deferral
  <2>5. QED
    BY <2>3, <2>4 DEF DeferInv
<1>3. ASSUME NEW r \in RequestIds, Resume(r) PROVE DeferInv'
  <2>1. CASE Interrupted(r) /\ UNCHANGED queue /\ deferred' = deferred \cup {r}
             /\ inflight' = inflight \ {r}
    BY <1>3, <2>1 DEF Resume, Interrupted, policy, history, TypeInv, TypeOK, DeferInv, Known, Apart,
                  Deferral, Queued, Exists, IsActive
  <2>2. CASE ~Interrupted(r) /\ queue' = Append(queue, r) /\ UNCHANGED <<deferred, inflight>>
    <3>1. Queued' = Queued \cup {r}
      BY <2>2, QueuedAppend DEF TypeInv, TypeOK
    <3>2. QED
      BY <1>3, <2>2, <3>1 DEF Resume, Interrupted, policy, history, DeferInv, Known, Apart,
                  Deferral, Exists, IsActive
  <2>3. QED
    BY <1>3, <2>1, <2>2 DEF Resume
<1>4. CASE ResumeDone
  BY <1>4 DEF ResumeDone, vars, disk, policy, work, report, history, DeferInv, Known, Apart, Deferral, Queued, Exists, IsActive, AtHop
<1>5. CASE Seed
  <2>1. Head(seeds) \in Hops
    BY <1>5 DEF Seed, TypeInv, TypeOK
  <2>2. CreateHop(Head(seeds), FALSE)
    BY <1>5 DEF Seed
  <2>3. QED
    BY <1>5, <2>1, <2>2, DeferCreate DEF Seed, policy
<1>6. CASE SeedsDone
  BY <1>6 DEF SeedsDone, vars, disk, policy, work, report, history, DeferInv, Known, Apart, Deferral, Queued, Exists, IsActive, AtHop
<1>7. CASE LoopEnds
  BY <1>7, QueuedEmpty DEF LoopEnds, Stop, Blank, disk, policy, DeferInv, Known, Apart, Deferral, Exists, IsActive, AtHop
<1>8. CASE LoopHalts
  BY <1>8, QueuedEmpty DEF LoopHalts, Stop, Blank, disk, policy, DeferInv, Known, Apart, Deferral, Exists, IsActive, AtHop
<1>9. CASE WallClockExceeded
  BY <1>9, QueuedEmpty DEF WallClockExceeded, Stop, Blank, disk, policy, DeferInv, Known, Apart, Deferral, Exists, IsActive, AtHop
<1>10. CASE PopHop
  <2>1. Queued' \subseteq Queued /\ Head(queue) \in Queued
    BY <1>10, QueuedTail DEF PopHop, TypeInv, TypeOK
  <2>2. QED
    BY <1>10, <2>1 DEF PopHop, policy, report, DeferInv, Known, Apart, Deferral, Exists, IsActive, AtHop
<1>11. CASE Dispatch
  BY <1>11 DEF Dispatch, vars, disk, policy, work, report, history, DeferInv, Known, Apart, Deferral, Queued, Exists, IsActive, AtHop
<1>12. CASE AgentWrites
  BY <1>12 DEF AgentWrites, vars, disk, policy, work, report, history, DeferInv, Known, Apart, Deferral, Queued, Exists, IsActive, AtHop
<1>13. CASE TimesOut
  BY <1>13 DEF TimesOut, vars, disk, policy, work, report, history, DeferInv, Known, Apart, Deferral, Queued, Exists, IsActive, AtHop
<1>14. CASE ExecutorFails
  BY <1>14 DEF ExecutorFails, Conclude, vars, disk, policy, work, report, history, DeferInv, Known, Apart, Deferral, Queued, Exists, IsActive, AtHop
<1>15. CASE ExecutorReturns
  BY <1>15 DEF ExecutorReturns, Conclude, vars, disk, policy, work, report, history, DeferInv, Known, Apart, Deferral, Queued, Exists, IsActive, AtHop
<1>16. CASE ResultValid
  BY <1>16 DEF ResultValid, vars, disk, policy, work, report, history, DeferInv, Known, Apart, Deferral, Queued, Exists, IsActive, AtHop
<1>17. CASE ResultInvalid
  BY <1>17 DEF ResultInvalid, vars, disk, policy, work, report, history, DeferInv, Known, Apart, Deferral, Queued, Exists, IsActive, AtHop
<1>18. CASE Replan
  <2>1. CASE MayReplan /\ CreateHop(Fallback, TRUE)
    BY <1>18, <2>1, FallbackIsHop, DeferCreate DEF Replan
  <2>2. CASE UNCHANGED <<request, queue, keys, created, createdBy, seededBy>>
    BY <1>18, <2>2 DEF Replan, DeferInv, Known, Apart, Deferral, Queued, Exists,
                  IsActive, AtHop, history
  <2>3. QED
    BY <1>18, <2>1, <2>2 DEF Replan
<1>19. CASE Recommend
  <2>1. Derived(Head(recs)) \in Hops
    BY <1>19, DerivedIsHop DEF Recommend
  <2>2. CreateHop(Derived(Head(recs)), TRUE)
    BY <1>19 DEF Recommend
  <2>3. QED
    BY <1>19, <2>1, <2>2, DeferCreate DEF Recommend, policy
<1>20. CASE RequestBound
  BY <1>20, QueuedEmpty DEF RequestBound, disk, policy, history, DeferInv, Known, Apart, Deferral, Exists, IsActive, AtHop
<1>21. CASE RecommendationsDone
  BY <1>21 DEF RecommendationsDone, vars, disk, policy, work, report, history, DeferInv, Known, Apart, Deferral, Queued, Exists, IsActive, AtHop
<1>22. CASE Crash
  BY <1>22, QueuedEmpty DEF Crash, InHand, Blank, disk, policy, DeferInv, Known, Apart, Deferral, Exists, IsActive, AtHop
<1>23. CASE TransitionState
  BY <1>23 DEF TransitionState, Environment, vars, disk, policy, work, report, history, DeferInv, Known, Apart, Deferral, Queued, Exists, IsActive, AtHop
<1>24. ASSUME NEW k \in Grantable, GrantApproval(k) \/ ApprovalEnds(k) PROVE DeferInv'
  BY <1>24 DEF GrantApproval, ApprovalEnds, Environment, vars, disk, policy, work, report, history, DeferInv, Known, Apart, Deferral, Queued, Exists, IsActive, AtHop
<1>25. ASSUME NEW h \in OtherHops, OtherRequest(h) PROVE DeferInv'
  <2>1. PICK r \in FreeIds : NewRequest(r, h)
    BY <1>25 DEF OtherRequest
  <2>2. \A q \in RequestIds : Exists(q) => request'[q] = request[q]
    BY <2>1 DEF NewRequest, FreeIds, TypeInv, TypeOK
  <2>3. UNCHANGED <<inflight, pc, todo, queue, current, deferred, abandoned>>
    BY <1>25 DEF OtherRequest, Environment, work, report
  <2>4. Queued' = Queued
    BY <2>3 DEF Queued
  <2>5. Known'
    BY <2>2, <2>3, <2>4 DEF DeferInv, Known, Exists, IsActive, AtHop
  <2>6. Apart' /\ Deferral'
    BY <2>3, <2>4 DEF DeferInv, Apart, Deferral
  <2>7. QED
    BY <2>5, <2>6 DEF DeferInv
<1>26. ASSUME NEW r \in RequestIds, OtherAnswer(r) PROVE DeferInv'
  BY <1>26 DEF OtherAnswer, Environment, vars, disk, policy, work, report, history, DeferInv, Known, Apart, Deferral, Queued, Exists, IsActive, AtHop
<1>27. QED
  BY <1>1, <1>2, <1>3, <1>4, <1>5, <1>6, <1>7, <1>8, <1>9, <1>10, <1>11, <1>12, <1>13, <1>14, <1>15, <1>16, <1>17, <1>18, <1>19, <1>20, <1>21, <1>22, <1>23, <1>24, <1>25, <1>26 DEF Next, Step, Operator

(* The session after a crash recognises the active hop the crash           *)
(* interrupted and does not fire it.                                       *)
THEOREM InterruptedHopIsDeferred == Spec => []InterruptedIsDeferred
<1>1. Init => DeferInv
  BY DEF Init, DeferInv, Known, Apart, Deferral, Queued, AtHop
<1>2. DeferInv => InterruptedIsDeferred
  BY DEF DeferInv, Deferral, InterruptedIsDeferred
<1>3. QED
  BY <1>1, <1>2, TypeInit, TypeStep, DeferStep, PTL DEF Spec

-----------------------------------------------------------------------------
LEMMA ForgetCreate ==
  ASSUME TypeInv, NothingIsForgotten, pc # "down",
         NEW h \in Hops, NEW derived \in BOOLEAN, CreateHop(h, derived),
         UNCHANGED <<answered, todo, tried, deferred, capped, foreign>>
  PROVE  NothingIsForgotten'
<1>1. CASE UNCHANGED <<request, queue, keys, created, createdBy, seededBy>>
  BY <1>1 DEF NothingIsForgotten, Pending, Queued, Exists
<1>2. ASSUME NEW r \in RequestIds, request' = [request EXCEPT ![r] = h],
             queue' = Append(queue, r)
      PROVE  NothingIsForgotten'
  <2>1. Queued' = Queued \cup {r}
    BY <1>2, QueuedAppend DEF TypeInv, TypeOK
  <2>2. Pending' \subseteq Pending \cup {r}
    BY <1>2 DEF Pending, Exists, TypeInv, TypeOK
  <2>3. QED
    BY <2>1, <2>2 DEF NothingIsForgotten
<1>3. QED
  BY <1>1, <1>2, CreateHopEffect

LEMMA ForgetStep == TypeInv /\ NothingIsForgotten /\ [Next]_vars => NothingIsForgotten'
<1> SUFFICES ASSUME TypeInv, NothingIsForgotten, [Next]_vars PROVE NothingIsForgotten'
  OBVIOUS
<1>1. CASE UNCHANGED vars
  BY <1>1 DEF vars, disk, policy, work, report, history, NothingIsForgotten, Pending, Queued, Exists
<1>2. CASE Start
  BY <1>2 DEF Start, vars, disk, policy, work, report, history, NothingIsForgotten, Pending, Queued, Exists
<1>3. ASSUME NEW r \in RequestIds, Resume(r) PROVE NothingIsForgotten'
  <2>1. Queued \cup todo \cup deferred \subseteq Queued' \cup todo' \cup deferred'
    <3>1. CASE queue' = Append(queue, r) /\ UNCHANGED deferred
      <4>1. Queued' = Queued \cup {r}
        BY <3>1, QueuedAppend DEF TypeInv, TypeOK
      <4>2. QED
        BY <1>3, <3>1, <4>1 DEF Resume
    <3>2. CASE deferred' = deferred \cup {r} /\ UNCHANGED queue
      BY <1>3, <3>2 DEF Resume, Queued
    <3>3. QED
      BY <1>3, <3>1, <3>2 DEF Resume
  <2>2. Pending' = Pending
    BY <1>3 DEF Resume, Pending, Exists
  <2>3. QED
    BY <1>3, <2>1, <2>2 DEF Resume, history, NothingIsForgotten
<1>4. CASE ResumeDone
  BY <1>4 DEF ResumeDone, vars, disk, policy, work, report, history, NothingIsForgotten, Pending, Queued, Exists
<1>5. CASE Seed
  <2>1. Head(seeds) \in Hops
    BY <1>5 DEF Seed, TypeInv, TypeOK
  <2>2. CreateHop(Head(seeds), FALSE)
    BY <1>5 DEF Seed
  <2>3. QED
    BY <1>5, <2>1, <2>2, ForgetCreate DEF Seed
<1>6. CASE SeedsDone
  BY <1>6 DEF SeedsDone, vars, disk, policy, work, report, history, NothingIsForgotten, Pending, Queued, Exists
<1>7. CASE LoopEnds
  BY <1>7 DEF LoopEnds, Stop, Blank, vars, disk, policy, work, report, history, NothingIsForgotten, Pending, Queued, Exists
<1>8. CASE LoopHalts
  BY <1>8 DEF LoopHalts, Stop, Blank, vars, disk, policy, work, report, history, NothingIsForgotten, Pending, Queued, Exists
<1>9. CASE WallClockExceeded
  BY <1>9 DEF WallClockExceeded, Stop, Blank, vars, disk, policy, work, report, history, NothingIsForgotten, Pending, Queued, Exists
<1>10. CASE PopHop
  <2>1. Queued \subseteq Queued' \cup {Head(queue)}
    BY <1>10, QueuedTail DEF PopHop, TypeInv, TypeOK
  <2>2. Pending' = Pending
    BY <1>10 DEF PopHop, Pending, Exists
  <2>3. QED
    BY <1>10, <2>1, <2>2 DEF PopHop, report, NothingIsForgotten
<1>11. CASE Dispatch
  BY <1>11 DEF Dispatch, vars, disk, policy, work, report, history, NothingIsForgotten, Pending, Queued, Exists
<1>12. CASE AgentWrites
  BY <1>12 DEF AgentWrites, vars, disk, policy, work, report, history, NothingIsForgotten, Pending, Queued, Exists
<1>13. CASE TimesOut
  BY <1>13 DEF TimesOut, vars, disk, policy, work, report, history, NothingIsForgotten, Pending, Queued, Exists
<1>14. CASE ExecutorFails
  BY <1>14 DEF ExecutorFails, Conclude, vars, disk, policy, work, report, history, NothingIsForgotten, Pending, Queued, Exists
<1>15. CASE ExecutorReturns
  BY <1>15 DEF ExecutorReturns, Conclude, vars, disk, policy, work, report, history, NothingIsForgotten, Pending, Queued, Exists
<1>16. CASE ResultValid
  BY <1>16 DEF ResultValid, vars, disk, policy, work, report, history, NothingIsForgotten, Pending, Queued, Exists
<1>17. CASE ResultInvalid
  BY <1>17 DEF ResultInvalid, vars, disk, policy, work, report, history, NothingIsForgotten, Pending, Queued, Exists
<1>18. CASE Replan
  <2>1. CASE MayReplan /\ CreateHop(Fallback, TRUE)
    BY <1>18, <2>1, FallbackIsHop, ForgetCreate DEF Replan
  <2>2. CASE UNCHANGED <<request, queue, keys, created, createdBy, seededBy>>
    BY <1>18, <2>2 DEF Replan, NothingIsForgotten, Pending, Queued, Exists
  <2>3. QED
    BY <1>18, <2>1, <2>2 DEF Replan
<1>19. CASE Recommend
  <2>1. Derived(Head(recs)) \in Hops
    BY <1>19, DerivedIsHop DEF Recommend
  <2>2. CreateHop(Derived(Head(recs)), TRUE)
    BY <1>19 DEF Recommend
  <2>3. QED
    BY <1>19, <2>1, <2>2, ForgetCreate DEF Recommend
<1>20. CASE RequestBound
  BY <1>20 DEF RequestBound, vars, disk, policy, work, report, history, NothingIsForgotten, Pending, Queued, Exists
<1>21. CASE RecommendationsDone
  BY <1>21 DEF RecommendationsDone, vars, disk, policy, work, report, history, NothingIsForgotten, Pending, Queued, Exists
<1>22. CASE Crash
  BY <1>22 DEF Crash, Blank, vars, disk, policy, work, report, history, NothingIsForgotten, Pending, Queued, Exists
<1>23. CASE TransitionState
  BY <1>23 DEF TransitionState, Environment, vars, disk, policy, work, report, history, NothingIsForgotten, Pending, Queued, Exists
<1>24. ASSUME NEW k \in Grantable, GrantApproval(k) \/ ApprovalEnds(k) PROVE NothingIsForgotten'
  BY <1>24 DEF GrantApproval, ApprovalEnds, Environment, vars, disk, policy, work, report, history, NothingIsForgotten, Pending, Queued, Exists
<1>25. ASSUME NEW h \in OtherHops, OtherRequest(h) PROVE NothingIsForgotten'
  <2>1. PICK r \in FreeIds : NewRequest(r, h) /\ foreign' = foreign \cup {r}
    BY <1>25 DEF OtherRequest
  <2>2. Pending' \ foreign' \subseteq Pending \ foreign
    BY <1>25, <2>1 DEF OtherRequest, NewRequest, FreeIds, Pending, Exists, TypeInv, TypeOK
  <2>3. UNCHANGED <<pc, todo, queue, deferred, tried, capped>>
    BY <1>25 DEF OtherRequest, Environment, work, report
  <2>4. QED
    BY <2>2, <2>3 DEF NothingIsForgotten, Queued
<1>26. ASSUME NEW r \in RequestIds, OtherAnswer(r) PROVE NothingIsForgotten'
  BY <1>26 DEF OtherAnswer, Environment, vars, disk, policy, work, report, history, NothingIsForgotten, Pending, Queued, Exists
<1>27. QED
  BY <1>1, <1>2, <1>3, <1>4, <1>5, <1>6, <1>7, <1>8, <1>9, <1>10, <1>11, <1>12, <1>13, <1>14, <1>15, <1>16, <1>17, <1>18, <1>19, <1>20, <1>21, <1>22, <1>23, <1>24, <1>25, <1>26 DEF Next, Step, Operator

(* No pending request drops out of a session unseen, whatever it creates,  *)
(* retries, re-plans or sets aside.                                        *)
THEOREM NoRequestIsForgotten == Spec => []NothingIsForgotten
<1>1. Init => NothingIsForgotten
  BY DEF Init, NothingIsForgotten
<1>2. QED
  BY <1>1, TypeInit, TypeStep, ForgetStep, PTL DEF Spec
-----------------------------------------------------------------------------
(* Every door a request may come through: a step leaves a request file as  *)
(* it is, or writes a new one that policy allows now.                      *)
LEMMA CreateAllowed ==
  ASSUME TypeInv, NEW h \in Hops, NEW derived \in BOOLEAN, CreateHop(h, derived),
         NEW r \in RequestIds
  PROVE  request'[r] = request[r] \/ (~Exists(r) /\ AllowedNow(request'[r]))
<1>1. CASE request' = request
  BY <1>1
<1>2. CASE Creatable(h, derived) /\ \E q \in FreeIds : NewRequest(q, h)
  <2>1. PICK q \in FreeIds : request' = [request EXCEPT ![q] = h]
    BY <1>2 DEF NewRequest
  <2>2. request'[r] = request[r] \/ (r = q /\ request'[r] = h)
    BY <2>1 DEF TypeInv, TypeOK
  <2> QED BY <1>2, <2>2 DEF Creatable, FreeIds
<1> QED BY <1>1, <1>2 DEF CreateHop

LEMMA OnlyAllowedIsMade ==
  TypeInv /\ [Next]_vars =>
    \A r \in RequestIds :
      request'[r] = request[r] \/ (~Exists(r) /\ AllowedNow(request'[r]))
<1> SUFFICES ASSUME TypeInv, [Next]_vars, NEW r \in RequestIds
             PROVE  request'[r] = request[r] \/ (~Exists(r) /\ AllowedNow(request'[r]))
  OBVIOUS
<1>1. CASE request' = request
  BY <1>1
<1>2. CASE Seed
  <2>1. Head(seeds) \in Hops
    BY <1>2 DEF Seed, TypeInv, TypeOK
  <2> QED BY <1>2, <2>1, CreateAllowed DEF Seed
<1>3. ASSUME pc = "replan", CreateHop(Fallback, TRUE)
      PROVE  request'[r] = request[r] \/ (~Exists(r) /\ AllowedNow(request'[r]))
  BY <1>3, FallbackIsHop, CreateAllowed
<1>4. CASE Recommend
  <2>1. Derived(Head(recs)) \in Hops
    BY <1>4, DerivedIsHop DEF Recommend
  <2> QED BY <1>4, <2>1, CreateAllowed DEF Recommend
<1>5. ASSUME NEW h \in OtherHops, OtherRequest(h)
      PROVE  request'[r] = request[r] \/ (~Exists(r) /\ AllowedNow(request'[r]))
  <2>1. PICK q \in FreeIds : request' = [request EXCEPT ![q] = h]
    BY <1>5 DEF OtherRequest, NewRequest
  <2>2. request'[r] = request[r] \/ (r = q /\ request'[r] = h)
    BY <2>1 DEF TypeInv, TypeOK
  <2> QED BY <1>5, <2>2 DEF OtherRequest, FreeIds
<1>6. CASE Operator
  BY <1>1, <1>5, <1>6
  DEF Operator, TransitionState, GrantApproval, ApprovalEnds, OtherAnswer, disk
<1>7. CASE Step
  <2>1. CASE Replan
    BY <1>1, <1>3, <2>1 DEF Replan
  <2> QED
    BY <1>1, <1>2, <1>4, <1>7, <2>1
    DEF Step, Resume, ResumeDone, SeedsDone, LoopEnds, LoopHalts, WallClockExceeded, Stop,
        PopHop, Dispatch, AgentWrites, TimesOut, ExecutorFails, ExecutorReturns, Conclude,
        ResultValid, ResultInvalid, RequestBound, RecommendationsDone, disk
<1> QED
  BY <1>1, <1>6, <1>7 DEF Next, Start, Crash, disk, vars

(* What does hold where ActiveDispatchIsAllowed fails: whatever comes to   *)
(* be requested - by a seed, a recommendation, a re-plan or by somebody    *)
(* else - is allowed by policy, approvals included, in the very step that  *)
(* writes the request (orchestrator.py:266-326, skill_contract.py:285-291).*)
THEOREM RequestsAreAllowedWhenMade ==
  Spec => [][\A r \in RequestIds :
               ~Exists(r) /\ Exists(r)' => AllowedNow(request'[r])]_vars
<1>1. TypeInv /\ [Next]_vars =>
        [\A r \in RequestIds : ~Exists(r) /\ Exists(r)' => AllowedNow(request'[r])]_vars
  BY OnlyAllowedIsMade DEF Exists
<1> QED BY <1>1, TypeInit, TypeStep, PTL DEF Spec
=============================================================================
