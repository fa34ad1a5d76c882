-------------------------- MODULE ContractsProofs --------------------------
(***************************************************************************)
(* The orchestrator loop implements Contracts, for every value of the      *)
(* constants.  What carries the proof is the queue: a request is in it     *)
(* once, nothing in it was answered as far as the session knows, and of    *)
(* the marked requests only work that may be repeated is in it.            *)
(***************************************************************************)
EXTENDS OrchestratorProofs

USE SkillsAssumption, CandidatesAssumption, IdsAssumption, SeedsAssumption,
    RecsAssumption, StagesAssumption, BoundsAssumption
    DEF MarkInflight, ClearInflight, Enqueue, MayGoOn, MayRetry, NextAttempt

Once == \A i, j \in 1..Len(queue) : queue[i] = queue[j] => i = j

(* Markers and answers are of requests that exist. *)
OnFile ==
  /\ \A r \in inflight \cup answered : Exists(r)
  /\ unread \subseteq answered

Unanswered == (Queued \cup todo) \cap (answered \ unread) = {}

Handover ==
  /\ TakenUp => current \notin Queued
  /\ \A r \in Queued \cap inflight : request[r] \in Repeatable

QueueInv == Once /\ OnFile /\ Unanswered /\ Handover

(* TypeInv says nothing of what is not a request; DeferInv, that requests  *)
(* the session handles exist and are classified once.                      *)
Inv == TypeInv /\ DeferInv /\ MarkInv /\ QueueInv

-----------------------------------------------------------------------------
LEMMA OnceAppend ==
  ASSUME Once, queue \in Seq(RequestIds), NEW r \in RequestIds, r \notin Queued,
         queue' = Append(queue, r)
  PROVE  Once'
<1>1. /\ Len(queue') = Len(queue) + 1 /\ Len(queue) \in Nat
      /\ queue'[Len(queue) + 1] = r
      /\ \A i \in 1..Len(queue) : queue'[i] = queue[i] /\ queue[i] # r
  BY DEF Queued
<1>2. ASSUME NEW i \in 1..Len(queue'), NEW j \in 1..Len(queue'), queue'[i] = queue'[j]
      PROVE  i = j
  <2>1. CASE i \in 1..Len(queue) /\ j \in 1..Len(queue)
    BY <1>1, <1>2, <2>1 DEF Once
  <2>2. CASE i = Len(queue) + 1 \/ j = Len(queue) + 1
    BY <1>1, <1>2, <2>2
  <2> QED BY <1>1, <2>1, <2>2
<1> QED BY <1>2 DEF Once

LEMMA OnceTail ==
  ASSUME Once, queue \in Seq(RequestIds), queue # << >>, queue' = Tail(queue)
  PROVE  Once' /\ Head(queue) \notin Queued'
<1>1. /\ Len(queue) \in Nat \ {0} /\ Len(queue') = Len(queue) - 1
      /\ Head(queue) = queue[1]
      /\ \A i \in 1..Len(queue') : queue'[i] = queue[i + 1] /\ i + 1 \in 1..Len(queue)
  OBVIOUS
<1>2. Once'
  <2> SUFFICES ASSUME NEW i \in 1..Len(queue'), NEW j \in 1..Len(queue'),
                      queue'[i] = queue'[j]
               PROVE  i = j
    BY DEF Once
  <2>1. i + 1 = j + 1
    BY <1>1 DEF Once
  <2> QED BY <1>1, <2>1
<1>3. ASSUME NEW i \in 1..Len(queue'), queue'[i] = Head(queue)
      PROVE  FALSE
  <2>1. 1 \in 1..Len(queue) /\ queue[i + 1] = queue[1] /\ i + 1 \in 1..Len(queue)
    BY <1>1, <1>3
  <2>2. i + 1 = 1
    BY <2>1 DEF Once
  <2> QED BY <2>2
<1> QED BY <1>2, <1>3 DEF Queued

(* A step that leaves the files and the queue alone. *)
LEMMA QueueFrame ==
  ASSUME QueueInv,
         UNCHANGED <<request, answered, unread, inflight, queue, todo, current>>,
         TakenUp' => TakenUp
  PROVE  QueueInv'
BY DEF QueueInv, Once, OnFile, Unanswered, Handover, Queued, Exists

LEMMA QueueEmptied ==
  ASSUME QueueInv, UNCHANGED <<request, answered, inflight>>, queue' = << >>,
         todo' = {}, unread' \in {unread, {}}
  PROVE  QueueInv'
<1>1. Queued' = {} /\ Len(queue') = 0
  BY DEF Queued
<1> QED BY <1>1 DEF QueueInv, Once, OnFile, Unanswered, Handover, Exists

(* A new request: under a name no file had. *)
LEMMA QueueGrows ==
  ASSUME Inv, NEW r \in RequestIds, ~Exists(r), NEW h \in Hops,
         request' = [request EXCEPT ![r] = h],
         queue' \in {queue, Append(queue, r)},
         UNCHANGED <<answered, unread, inflight, todo, current>>,
         TakenUp' => TakenUp /\ queue' = queue
  PROVE  QueueInv'
<1>1. /\ r \notin Queued /\ r \notin todo /\ r \notin inflight /\ r \notin answered
      /\ \A q \in RequestIds : q # r => request'[q] = request[q]
      /\ request'[r] # NoHop
  BY HopExists DEF Inv, DeferInv, Known, QueueInv, OnFile, TypeInv, TypeOK
<1>2. Queued' \subseteq Queued \cup {r} /\ (queue' = queue => Queued' = Queued)
  <2>1. CASE queue' = queue
    BY <2>1 DEF Queued
  <2>2. CASE queue' = Append(queue, r)
    <3>1. queue \in Seq(RequestIds)
      BY DEF Inv, TypeInv, TypeOK
    <3>2. Len(queue') # Len(queue)
      BY <2>2, <3>1
    <3> QED BY <2>2, <3>1, <3>2, QueuedAppend
  <2> QED BY <2>1, <2>2
<1>3. Once'
  <2>1. CASE queue' = queue
    BY <2>1 DEF Inv, QueueInv, Once
  <2>2. CASE queue' = Append(queue, r)
    BY <1>1, <2>2, OnceAppend DEF Inv, QueueInv, TypeInv, TypeOK
  <2> QED BY <2>1, <2>2
<1>4. OnFile'
  BY <1>1 DEF Inv, QueueInv, OnFile, Exists, TypeInv, TypeOK
<1>5. Unanswered'
  BY <1>1, <1>2 DEF Inv, QueueInv, Unanswered
<1>6. Handover'
  <2>1. TakenUp' => current' \notin Queued'
    BY <1>2 DEF Inv, QueueInv, Handover
  <2>2. \A q \in Queued' \cap inflight' : q \in Queued \cap inflight /\ request'[q] = request[q]
    BY <1>1, <1>2 DEF Inv, TypeInv, TypeOK
  <2> QED BY <2>1, <2>2 DEF Inv, QueueInv, Handover
<1> QED BY <1>3, <1>4, <1>5, <1>6 DEF QueueInv

LEMMA QueueCreate ==
  ASSUME Inv, NEW h \in Hops, NEW derived \in BOOLEAN, CreateHop(h, derived),
         UNCHANGED <<answered, unread, inflight, todo, current>>,
         ~TakenUp'
  PROVE  QueueInv'
<1>1. CASE UNCHANGED <<request, queue, keys, created, createdBy, seededBy>>
  BY <1>1, QueueFrame DEF Inv
<1>2. CASE \E r \in RequestIds :
             /\ ~Exists(r) /\ request' = [request EXCEPT ![r] = h]
             /\ queue' = Append(queue, r)
  BY <1>2, QueueGrows
<1> QED BY <1>1, <1>2, CreateHopEffect

-----------------------------------------------------------------------------
LEMMA QueueInit == Init => QueueInv
<1> SUFFICES ASSUME Init PROVE QueueInv
  OBVIOUS
<1>1. Queued = {} /\ Len(queue) = 0
  BY DEF Init, Queued
<1> QED BY <1>1 DEF Init, QueueInv, Once, OnFile, Unanswered, Handover, TakenUp

LEMMA QueueResume ==
  ASSUME Inv, NEW r \in RequestIds, Resume(r)
  PROVE  QueueInv'
<1>0. /\ pc = "resume" /\ pc' = pc /\ r \in todo /\ todo' = todo \ {r}
      /\ UNCHANGED <<request, answered, unread, current>>
      /\ r \notin Queued /\ queue \in Seq(RequestIds)
  BY DEF Resume, history, Inv, DeferInv, Apart, TypeInv, TypeOK
<1>1. CASE Interrupted(r) /\ inflight' = inflight \ {r} /\ queue' = queue
  BY <1>0, <1>1
  DEF Inv, QueueInv, Once, OnFile, Unanswered, Handover, Queued, Exists, TakenUp
<1>2. CASE ~Interrupted(r) /\ queue' = Append(queue, r) /\ inflight' = inflight
  <2>1. Queued' = Queued \cup {r} /\ Once'
    BY <1>0, <1>2, QueuedAppend, OnceAppend DEF Inv, QueueInv
  <2>2. r \in inflight => request[r] \in Repeatable
    <3>1. request[r] \in Hops
      BY <1>0 DEF Inv, DeferInv, Known, Exists, TypeInv, TypeOK
    <3> QED BY <1>2, <3>1 DEF Interrupted, IsActive, Repeatable
  <2>3. OnFile' /\ Unanswered'
    BY <1>0, <1>2, <2>1 DEF Inv, QueueInv, OnFile, Unanswered, Exists
  <2>4. Handover'
    BY <1>0, <1>2, <2>1, <2>2 DEF Inv, QueueInv, Handover, TakenUp
  <2> QED BY <2>1, <2>3, <2>4 DEF QueueInv
<1> QED BY <1>1, <1>2 DEF Resume

LEMMA QueuePop ==
  ASSUME Inv, PopHop
  PROVE  QueueInv'
<1>0. /\ queue # << >> /\ queue' = Tail(queue) /\ current' = Head(queue)
      /\ inflight' = inflight \cup {current'}
      /\ UNCHANGED <<request, answered, unread, todo>>
      /\ queue \in Seq(RequestIds)
  BY DEF PopHop, Inv, TypeInv, TypeOK
<1>1. /\ Queued' \subseteq Queued /\ current' \in Queued
      /\ current' \notin Queued' /\ Once'
  BY <1>0, QueuedTail, OnceTail DEF Inv, QueueInv
<1>2. OnFile' /\ Unanswered'
  BY <1>0, <1>1 DEF Inv, QueueInv, OnFile, Unanswered, DeferInv, Known, Exists
<1>3. Handover'
  BY <1>0, <1>1 DEF Inv, QueueInv, Handover
<1> QED BY <1>1, <1>2, <1>3 DEF QueueInv

LEMMA QueueAnswers ==
  ASSUME Inv, AgentWrites
  PROVE  QueueInv'
<1>0. /\ pc = "running" /\ pc' = pc
      /\ UNCHANGED <<request, inflight, queue, todo, current>>
      /\ Queued' = Queued
  BY DEF AgentWrites, Queued
<1>1. CASE UNCHANGED <<answered, unread>>
  BY <1>0, <1>1, QueueFrame DEF Inv, TakenUp
<1>2. CASE answered' = answered \cup {current} /\ unread' = unread \ {current}
  <2>1. todo = {} /\ current \notin Queued /\ Exists(current)
    BY <1>0 DEF Inv, DeferInv, Known, Apart, AtHop, QueueInv, Handover, TakenUp
  <2>2. Once' /\ OnFile' /\ Unanswered' /\ Handover'
    BY <1>0, <1>2, <2>1
    DEF Inv, QueueInv, Once, OnFile, Unanswered, Handover, Exists, TakenUp
  <2> QED BY <2>2 DEF QueueInv
<1> QED BY <1>1, <1>2 DEF AgentWrites

LEMMA QueueOtherAnswer ==
  ASSUME Inv, NEW r \in RequestIds, OtherAnswer(r)
  PROVE  QueueInv'
<1>0. /\ UNCHANGED <<request, inflight, queue, todo, current, pc>>
      /\ Queued' = Queued /\ Exists(r) /\ r \notin answered
      /\ answered' = answered \cup {r}
      /\ unread' = IF pc = "down" THEN unread ELSE unread \cup {r}
  BY DEF OtherAnswer, Environment, work, Queued, Pending
<1>1. Once' /\ OnFile' /\ Handover'
  BY <1>0 DEF Inv, QueueInv, Once, OnFile, Handover, Exists, TakenUp
<1>2. Unanswered'
  <2>1. CASE pc = "down"
    BY <1>0, <2>1 DEF Inv, DeferInv, Apart, Unanswered
  <2>2. CASE pc # "down"
    BY <1>0, <2>2 DEF Inv, QueueInv, Unanswered
  <2> QED BY <2>1, <2>2
<1> QED BY <1>1, <1>2 DEF QueueInv

LEMMA QueueStep == Inv /\ [Next]_vars => QueueInv'
<1> SUFFICES ASSUME Inv, [Next]_vars PROVE QueueInv'
  OBVIOUS
<1>0. QueueInv
  BY DEF Inv
<1>1. CASE UNCHANGED vars
  BY <1>0, <1>1, QueueFrame DEF vars, disk, work, history, TakenUp
<1>2. CASE Start
  <2>1. /\ todo' = Pending /\ pc = "down" /\ pc' = "resume" /\ Queued' = {}
        /\ queue' = queue /\ UNCHANGED <<request, answered, unread, inflight, current>>
    BY <1>2 DEF Start, disk, history, Inv, DeferInv, Apart, Queued
  <2> QED
    BY <1>0, <2>1
    DEF QueueInv, Once, OnFile, Unanswered, Handover, Pending, Exists, TakenUp
<1>3. ASSUME NEW r \in RequestIds, Resume(r) PROVE QueueInv'
  BY <1>3, QueueResume
<1>4. CASE ResumeDone \/ SeedsDone \/ ResultValid \/ ResultInvalid \/ RecommendationsDone
  BY <1>0, <1>4, QueueFrame
  DEF ResumeDone, SeedsDone, ResultValid, ResultInvalid, RecommendationsDone,
      disk, work, history, TakenUp
<1>5. CASE Seed
  <2>1. Head(seeds) \in Hops
    BY <1>5 DEF Seed, Inv, TypeInv, TypeOK
  <2> QED BY <1>5, <2>1, QueueCreate DEF Seed, TakenUp
<1>6. CASE LoopEnds \/ LoopHalts \/ WallClockExceeded
  BY <1>0, <1>6, QueueEmptied
  DEF LoopEnds, LoopHalts, WallClockExceeded, Stop, Blank, disk
<1>7. CASE Crash
  BY <1>0, <1>7, QueueEmptied DEF Crash, Blank, disk
<1>8. CASE PopHop
  BY <1>8, QueuePop
<1>9. CASE Dispatch \/ TimesOut
  BY <1>0, <1>9, QueueFrame DEF Dispatch, TimesOut, disk, history, TakenUp
<1>10. CASE AgentWrites
  BY <1>10, QueueAnswers
<1>11. CASE ExecutorFails \/ ExecutorReturns
  <2>1. /\ inflight' = inflight \ {current} /\ pc' \in {"replan", "validate"}
        /\ UNCHANGED <<request, answered, unread, queue, todo, current>>
    BY <1>11 DEF ExecutorFails, ExecutorReturns, Conclude, history
  <2> QED
    BY <1>0, <2>1
    DEF QueueInv, Once, OnFile, Unanswered, Handover, Queued, Exists, TakenUp
<1>12. CASE Replan
  <2>1. Fallback \in Hops
    BY <1>12, FallbackIsHop DEF Replan, Inv
  <2>2. /\ pc' = "loop" /\ UNCHANGED <<answered, unread, inflight, todo, current>>
    BY <1>12 DEF Replan
  <2>3. CASE CreateHop(Fallback, TRUE)
    BY <2>1, <2>2, <2>3, QueueCreate DEF TakenUp
  <2>4. CASE UNCHANGED <<request, queue>>
    BY <1>0, <2>2, <2>4, QueueFrame DEF TakenUp
  <2> QED BY <1>12, <2>3, <2>4 DEF Replan
<1>13. CASE Recommend
  <2>1. Derived(Head(recs)) \in Hops
    BY <1>13, DerivedIsHop DEF Recommend, Inv
  <2> QED BY <1>13, <2>1, QueueCreate DEF Recommend, TakenUp
<1>14. CASE RequestBound
  BY <1>0, <1>14, QueueEmptied DEF RequestBound, disk, history, Inv, DeferInv, Apart
<1>15. CASE TransitionState \/ \E k \in Grantable : GrantApproval(k) \/ ApprovalEnds(k)
  BY <1>0, <1>15, QueueFrame
  DEF TransitionState, GrantApproval, ApprovalEnds, Environment, disk, work, TakenUp
<1>16. ASSUME NEW h \in OtherHops, OtherRequest(h) PROVE QueueInv'
  <2>1. PICK r \in FreeIds : request' = [request EXCEPT ![r] = h]
    BY <1>16 DEF OtherRequest, NewRequest
  <2>2. r \in RequestIds /\ ~Exists(r)
    BY <2>1 DEF FreeIds
  <2>3. UNCHANGED <<answered, unread, inflight, queue, todo, current, pc>>
    BY <1>16 DEF OtherRequest, Environment, work
  <2> QED BY <2>1, <2>2, <2>3, QueueGrows DEF TakenUp
<1>17. ASSUME NEW r \in RequestIds, OtherAnswer(r) PROVE QueueInv'
  BY <1>17, QueueOtherAnswer
<1> QED
  BY <1>1, <1>2, <1>3, <1>4, <1>5, <1>6, <1>7, <1>8, <1>9, <1>10, <1>11, <1>12,
     <1>13, <1>14, <1>15, <1>16, <1>17
  DEF Next, Step, Operator
-----------------------------------------------------------------------------
(* Steps of the loop as steps of Contracts. *)
Session == <<Taken, Tries, Hand>>
Shown   == <<request, answered, unread, inflight, Session>>

LEMMA StutterSeen ==
  ASSUME UNCHANGED Shown
  PROVE  UNCHANGED RequestContracts!vars
BY DEF Shown, Session, RequestContracts!vars

(* A session that has taken nothing up before a step nor after it. *)
LEMMA Idle ==
  ~TakenUp => Taken = 0 /\ Tries = 0 /\ Hand = 0
BY DEF TakenUp, Taken, Tries, Hand

LEMMA StaysIdle ==
  ASSUME ~TakenUp, ~TakenUp'
  PROVE  UNCHANGED Session
<1>1. Taken' = 0 /\ Tries' = 0 /\ Hand' = 0
  BY DEF TakenUp, Taken, Tries, Hand
<1> QED BY <1>1, Idle DEF Session

LEMMA SameSession ==
  ASSUME UNCHANGED <<pc, current, attempt>>
  PROVE  UNCHANGED Session
BY DEF Session, TakenUp, Taken, Tries, Hand

LEMMA NewIsAsked ==
  ASSUME TypeInv, NEW r \in RequestIds, ~Exists(r), NEW h \in Hops,
         request' = [request EXCEPT ![r] = h],
         UNCHANGED <<answered, unread, inflight, Session>>
  PROVE  RequestContracts!Next
<1>1. request[r] = NoHop /\ request'[r] = h
  BY DEF Exists, TypeInv, TypeOK
<1>2. RequestContracts!Ask(r)
  BY <1>1 DEF Session, RequestContracts!Ask
<1> QED BY <1>2 DEF RequestContracts!Next

LEMMA CreatedIsAsked ==
  ASSUME TypeInv, NEW h \in Hops, NEW derived \in BOOLEAN, CreateHop(h, derived),
         UNCHANGED <<answered, unread, inflight, Session>>
  PROVE  RequestContracts!Next \/ UNCHANGED RequestContracts!vars
<1>1. CASE UNCHANGED <<request, queue, keys, created, createdBy, seededBy>>
  BY <1>1, StutterSeen DEF Shown
<1>2. CASE \E r \in RequestIds : ~Exists(r) /\ request' = [request EXCEPT ![r] = h]
  BY <1>2, NewIsAsked
<1> QED BY <1>1, <1>2, CreateHopEffect

LEMMA PopIsTakeUp ==
  ASSUME Inv, PopHop
  PROVE  RequestContracts!Next
<1>0. /\ queue # << >> /\ current' = Head(queue) /\ queue \in Seq(RequestIds)
      /\ inflight' = inflight \cup {Head(queue)}
      /\ pc = "loop" /\ pc' = "dispatch" /\ attempt' = 0
      /\ UNCHANGED <<request, answered, unread>>
  BY DEF PopHop, Inv, TypeInv, TypeOK
<1>1. Head(queue) \in Queued /\ Head(queue) \in RequestIds
  <2>1. Len(queue) # 0 /\ Head(queue) = queue[1] /\ 1 \in 1..Len(queue)
    BY <1>0
  <2> QED BY <1>0, <2>1 DEF Queued
<1> DEFINE r == Head(queue)
<1>2. /\ Taken = 0 /\ Tries = 0 /\ Hand = 0
      /\ Taken' = r /\ Tries' = 0 /\ Hand' = 0
  BY <1>0 DEF Taken, Tries, Hand, TakenUp
<1>3. request[r] # NoHop /\ r \notin answered \ unread
      /\ (r \in inflight => request[r] \in Repeatable)
  BY <1>1 DEF Inv, DeferInv, Known, Exists, QueueInv, Unanswered, Handover
<1>4. r # 0
  BY <1>1
<1>5. (inflight \ {Taken})' = (inflight \ {Taken}) \ {r}
  BY <1>0, <1>1, <1>2, <1>4 DEF Inv, TypeInv, TypeOK
<1> HIDE DEF r
<1>6. RequestContracts!TakeUp(r)
  BY <1>0, <1>2, <1>3, <1>5 DEF RequestContracts!TakeUp
<1>7. r \in RequestIds
  BY <1>1 DEF r
<1> QED BY <1>6, <1>7 DEF RequestContracts!Next

(* At most MaxRetries + 1 of these for a request taken up once. *)
LEMMA DispatchIsHandOut ==
  ASSUME Inv, Dispatch
  PROVE  RequestContracts!Next
<1>1. /\ pc = "dispatch" /\ pc' = "running"
      /\ UNCHANGED <<request, answered, unread, inflight, current, attempt>>
      /\ current # 0 /\ attempt \in 0..MaxRetries
  BY DEF Dispatch, disk, history, Inv, TypeInv, TypeOK, AtHop
<1>2. /\ Taken = current /\ Taken' = current
      /\ Tries = attempt /\ Tries' = attempt + 1
      /\ Hand = 0 /\ Hand' = current
  BY <1>1 DEF TakenUp, Taken, Tries, Hand
<1>3. attempt <= MaxRetries
  BY <1>1
<1>4. RequestContracts!HandOut
  BY <1>1, <1>2, <1>3 DEF RequestContracts!HandOut
<1> QED BY <1>4 DEF RequestContracts!Next

LEMMA TimesOutIsTimeOut ==
  ASSUME Inv, TimesOut
  PROVE  RequestContracts!Next
<1>1. /\ pc = "running" /\ pc' = "dispatch" /\ attempt' = attempt + 1
      /\ UNCHANGED <<request, answered, unread, inflight, current>>
      /\ current # 0
  BY DEF TimesOut, disk, history, Inv, TypeInv, TypeOK, AtHop
<1>2. /\ Taken = current /\ Taken' = current
      /\ Tries' = Tries /\ Hand = current /\ Hand' = 0
  BY <1>1 DEF TakenUp, Taken, Tries, Hand
<1>3. RequestContracts!TimeOut
  BY <1>1, <1>2 DEF RequestContracts!TimeOut
<1> QED BY <1>3 DEF RequestContracts!Next

LEMMA EndIsEnd ==
  ASSUME Inv, pc' = "down", Blank, UNCHANGED disk
  PROVE  RequestContracts!Next
<1>1. /\ Taken' = 0 /\ Tries' = 0 /\ Hand' = 0
      /\ unread' = {} /\ UNCHANGED <<request, answered, inflight>>
  BY DEF Taken, Tries, Hand, TakenUp, Blank, disk
<1>2. 0 \notin inflight
  BY DEF Inv, TypeInv, TypeOK
<1>3. Taken # 0 => Taken \in inflight
  BY DEF Taken, TakenUp, Inv, MarkInv
<1>4. (inflight \ {Taken})' = (inflight \ {Taken}) \cup ({Taken} \ {0})
  BY <1>1, <1>2, <1>3
<1>5. (answered \ unread)' = answered
  BY <1>1
<1>6. RequestContracts!End
  BY <1>1, <1>4, <1>5 DEF RequestContracts!End
<1> QED BY <1>6 DEF RequestContracts!Next

LEMMA AnswerIsAgents ==
  ASSUME Inv, AgentWrites
  PROVE  RequestContracts!Next \/ UNCHANGED RequestContracts!vars
<1>0. /\ Hand = current /\ current # 0
      /\ UNCHANGED <<request, inflight, pc, current, attempt>>
  BY DEF AgentWrites, Hand, Inv, TypeInv, TypeOK, AtHop
<1>1. UNCHANGED <<Taken, Tries, Hand>>
  BY <1>0, SameSession DEF Session
<1>2. CASE UNCHANGED <<answered, unread>>
  BY <1>0, <1>1, <1>2, StutterSeen DEF Shown, Session
<1>3. CASE answered' = answered \cup {current} /\ unread' = unread \ {current}
  <2>1. (answered \ unread)' = (answered \ unread) \cup {current}
    BY <1>3
  <2>2. RequestContracts!AgentAnswers
    BY <1>0, <1>1, <1>3, <2>1 DEF RequestContracts!AgentAnswers
  <2> QED BY <2>2 DEF RequestContracts!Next
<1> QED BY <1>2, <1>3 DEF AgentWrites

LEMMA OtherAnswerSeen ==
  ASSUME Inv, NEW r \in RequestIds, OtherAnswer(r)
  PROVE  RequestContracts!Next
<1>0. /\ UNCHANGED <<request, inflight, pc, current, attempt>>
      /\ request[r] # NoHop /\ r \notin answered
      /\ answered' = answered \cup {r}
      /\ unread' = IF pc = "down" THEN unread ELSE unread \cup {r}
  BY DEF OtherAnswer, Environment, work, Pending, Exists
<1>1. UNCHANGED <<Taken, Tries, Hand>>
  BY <1>0, SameSession DEF Session
<1>2. r \notin unread
  BY <1>0 DEF Inv, QueueInv, OnFile
<1>3. (answered \ unread)' \in {answered \ unread, (answered \ unread) \cup {r}}
  BY <1>0, <1>2
<1>4. RequestContracts!OtherAnswers(r)
  BY <1>0, <1>1, <1>3 DEF RequestContracts!OtherAnswers
<1> QED BY <1>4 DEF RequestContracts!Next

LEMMA ResumeIsPutAside ==
  ASSUME Inv, NEW r \in RequestIds, Resume(r)
  PROVE  RequestContracts!Next \/ UNCHANGED RequestContracts!vars
<1>0. /\ Taken = 0 /\ UNCHANGED <<Taken, Tries, Hand>>
      /\ UNCHANGED <<request, answered, unread>>
  BY Idle, SameSession DEF Resume, TakenUp, history, Session
<1>1. CASE inflight' = inflight
  BY <1>0, <1>1, StutterSeen DEF Shown, Session
<1>2. CASE inflight' = inflight \ {r}
  <2>1. (inflight \ {Taken})' = (inflight \ {Taken}) \ {r}
    BY <1>0, <1>2
  <2>2. RequestContracts!PutAside(r)
    BY <1>0, <2>1 DEF RequestContracts!PutAside
  <2> QED BY <2>2 DEF RequestContracts!Next
<1> QED BY <1>1, <1>2 DEF Resume

LEMMA ConcludeIsPutDown ==
  ASSUME Inv, ExecutorFails \/ ExecutorReturns
  PROVE  RequestContracts!Next
<1>0. /\ pc = "running" /\ pc' \in {"replan", "validate"} /\ current # 0
      /\ inflight' = inflight \ {current}
      /\ UNCHANGED <<request, answered, unread>>
  BY DEF ExecutorFails, ExecutorReturns, Conclude, Inv, TypeInv, TypeOK, AtHop, history
<1>1. /\ Taken = current
      /\ Taken' = 0 /\ Tries' = 0 /\ Hand' = 0
  BY <1>0 DEF Taken, Tries, Hand, TakenUp
<1>2. 0 \notin inflight
  BY DEF Inv, TypeInv, TypeOK
<1>3. (inflight \ {Taken})' = inflight \ {Taken}
  BY <1>0, <1>1, <1>2
<1>4. RequestContracts!PutDown
  BY <1>0, <1>1, <1>3 DEF RequestContracts!PutDown
<1> QED BY <1>4 DEF RequestContracts!Next

LEMMA ContractsStep ==
  Inv /\ [Next]_vars => [RequestContracts!Next]_(RequestContracts!vars)
<1> SUFFICES ASSUME Inv, [Next]_vars
             PROVE  RequestContracts!Next \/ UNCHANGED RequestContracts!vars
  OBVIOUS
<1>0. TypeInv
  BY DEF Inv
<1>1. CASE UNCHANGED vars
  BY <1>1, StutterSeen, SameSession DEF Shown, vars, disk, work, history
<1>2. CASE Start
  <2>1. UNCHANGED Session
    BY <1>2, StaysIdle DEF Start, TakenUp
  <2> QED BY <1>2, <2>1, StutterSeen DEF Start, Shown, disk, history
<1>3. ASSUME NEW r \in RequestIds, Resume(r)
      PROVE  RequestContracts!Next \/ UNCHANGED RequestContracts!vars
  BY <1>3, ResumeIsPutAside
<1>4. CASE ResumeDone \/ SeedsDone \/ ResultValid \/ ResultInvalid
           \/ RecommendationsDone \/ RequestBound
  <2>1. ~TakenUp /\ ~TakenUp' /\ UNCHANGED <<request, answered, unread, inflight>>
    BY <1>4
    DEF ResumeDone, SeedsDone, ResultValid, ResultInvalid, RecommendationsDone,
        RequestBound, disk, history, TakenUp
  <2> QED BY <2>1, StaysIdle, StutterSeen DEF Shown
<1>5. CASE Seed
  <2>1. Head(seeds) \in Hops
    BY <1>0, <1>5 DEF Seed, TypeInv, TypeOK
  <2>2. UNCHANGED <<answered, unread, inflight, Session>>
    BY <1>5, StaysIdle DEF Seed, TakenUp
  <2> QED BY <1>0, <1>5, <2>1, <2>2, CreatedIsAsked DEF Seed
<1>6. CASE LoopEnds \/ LoopHalts \/ WallClockExceeded \/ Crash
  BY <1>6, EndIsEnd DEF LoopEnds, LoopHalts, WallClockExceeded, Stop, Crash
<1>7. CASE PopHop
  BY <1>7, PopIsTakeUp
<1>8. CASE Dispatch \/ TimesOut
  BY <1>8, DispatchIsHandOut, TimesOutIsTimeOut
<1>9. CASE AgentWrites
  BY <1>9, AnswerIsAgents
<1>10. CASE ExecutorFails \/ ExecutorReturns
  BY <1>10, ConcludeIsPutDown
<1>11. CASE Replan
  <2>1. Fallback \in Hops
    BY <1>0, <1>11, FallbackIsHop DEF Replan
  <2>2. UNCHANGED <<answered, unread, inflight, Session>>
    BY <1>11, StaysIdle DEF Replan, TakenUp
  <2>3. CASE CreateHop(Fallback, TRUE)
    BY <1>0, <2>1, <2>2, <2>3, CreatedIsAsked
  <2>4. CASE UNCHANGED request
    BY <2>2, <2>4, StutterSeen DEF Shown
  <2> QED BY <1>11, <2>3, <2>4 DEF Replan
<1>12. CASE Recommend
  <2>1. Derived(Head(recs)) \in Hops
    BY <1>0, <1>12, DerivedIsHop DEF Recommend
  <2>2. UNCHANGED <<answered, unread, inflight, Session>>
    BY <1>12, StaysIdle DEF Recommend, TakenUp
  <2> QED BY <1>0, <1>12, <2>1, <2>2, CreatedIsAsked DEF Recommend
<1>13. CASE TransitionState \/ \E k \in Grantable : GrantApproval(k) \/ ApprovalEnds(k)
  <2>1. UNCHANGED <<request, answered, unread, inflight, pc, current, attempt>>
    BY <1>13 DEF TransitionState, GrantApproval, ApprovalEnds, Environment, disk, work
  <2> QED BY <2>1, SameSession, StutterSeen DEF Shown
<1>14. ASSUME NEW h \in OtherHops, OtherRequest(h)
       PROVE  RequestContracts!Next
  <2>1. PICK r \in FreeIds : request' = [request EXCEPT ![r] = h]
    BY <1>14 DEF OtherRequest, NewRequest
  <2>2. r \in RequestIds /\ ~Exists(r)
    BY <2>1 DEF FreeIds
  <2>3. UNCHANGED <<answered, unread, inflight, Session>>
    BY <1>14, SameSession DEF OtherRequest, Environment, work
  <2> QED BY <1>0, <2>1, <2>2, <2>3, NewIsAsked
<1>15. ASSUME NEW r \in RequestIds, OtherAnswer(r)
       PROVE  RequestContracts!Next
  BY <1>15, OtherAnswerSeen
<1> QED
  BY <1>1, <1>2, <1>3, <1>4, <1>5, <1>6, <1>7, <1>8, <1>9, <1>10, <1>11, <1>12,
     <1>13, <1>14, <1>15
  DEF Next, Step, Operator

(* Whatever sessions, crashes, time-outs and answers of others come, the   *)
(* loop keeps what Contracts promises: a request is never changed; a       *)
(* session takes up one at a time, none that was answered when it began or *)
(* that an agent of its own has answered since; it gives what it took up   *)
(* to at most MaxRetries + 1 agents, one after the other - the next one    *)
(* also when the last had answered before its time ran out; and active     *)
(* work a session left in hand is put aside before it is taken up again    *)
(* (orchestrator.py:96-125, 207-224, 335-346, 374-399).                    *)
THEOREM LoopImplementsContracts == Spec => ImplementsContracts
<1>1. Init => RequestContracts!Init
  BY DEF Init, RequestContracts!Init, Taken, Tries, Hand, TakenUp
<1>2. Init => Inv
  <2>1. Init => DeferInv
    BY DEF Init, DeferInv, Known, Apart, Deferral, Queued, AtHop
  <2>2. Init => MarkInv
    BY DEF Init, MarkInv
  <2> QED BY <2>1, <2>2, TypeInit, QueueInit DEF Inv
<1>3. Inv /\ [Next]_vars => Inv'
  BY TypeStep, DeferStep, MarkStep, QueueStep DEF Inv
<1> QED
  BY <1>1, <1>2, <1>3, ContractsStep, PTL
  DEF Spec, ImplementsContracts, RequestContracts!Spec
=============================================================================
