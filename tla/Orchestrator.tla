---------------------------- MODULE Orchestrator ----------------------------
(***************************************************************************)
(* The governed orchestrator loop over one run folder, and everything that *)
(* happens around it while it runs: the agent it dispatches, which writes  *)
(* a result, fails, or times out after writing or before; crashes of the   *)
(* loop and its resumption from the contract files; and the operator, who  *)
(* moves the workflow state, grants and withdraws approvals and adds       *)
(* requests and results meanwhile.  Policy is read anew at every decision. *)
(*                                                                         *)
(* `request`, `answered` and `inflight` are files under contracts/ and     *)
(* survive a crash; the variables of Session are the memory of one call of *)
(* run_orchestration.  A session starts whenever the operator runs one.    *)
(***************************************************************************)
EXTENDS Policy, Naturals, Sequences, FiniteSets

CONSTANTS
  Skills, RouteSkill,       \* skills a seed may name; the skill of derived hops
  Candidates, InScope,      \* normalised candidates; those scope allows
  RequestIds,               \* names for request files
  Stages,                   \* the workflow states the run visits
  Grantable,                \* the approvals that may come and go
  SeedLists,                \* the seeds a session may be given
  Recommendations,          \* the recommended actions a result may carry
  MaxHops, MaxRequests,     \* OrchestrationBounds
  PerActionCap,             \*   per_action_caps, a number for every action
  MaxRetries,               \*   max_transient_retries
  ReplanPassive,            \*   replan_passive_fallback
  RetryInterruptedActive,   \*   retry_interrupted_active
  OtherHops, MaxOthers      \* the requests somebody else may create; how many
                            \*   requests somebody else may create or answer

RequestActions == LocalActions \cup PassiveActions \cup ActiveActions
HandoffOnly    == IntrusiveActions \cup ProhibitedActions

Targets == Candidates \cup {NoCandidate}
Hops    == [skill : Skills, action : ActionTypes, candidate : Targets]
Advice  == [action : ActionTypes \ ProhibitedActions, candidate : Targets]
NoHop   == [skill |-> "none", action |-> "none", candidate |-> NoCandidate]

ASSUME SkillsAssumption     == RouteSkill \in Skills /\ "none" \notin Skills
ASSUME CandidatesAssumption == InScope \subseteq Candidates /\ NoCandidate \notin Candidates
ASSUME IdsAssumption        == RequestIds \subseteq Nat /\ 0 \notin RequestIds
ASSUME SeedsAssumption      == SeedLists \subseteq Seq(Hops) /\ OtherHops \subseteq Hops
ASSUME RecsAssumption       == Recommendations \subseteq Seq(Advice)
ASSUME StagesAssumption     == Stages \subseteq States
ASSUME BoundsAssumption ==
  /\ MaxHops \in Nat /\ MaxRequests \in Nat /\ MaxRetries \in Nat /\ MaxOthers \in Nat
  /\ PerActionCap \in [RequestActions -> Nat]
  /\ ReplanPassive \in BOOLEAN /\ RetryInterruptedActive \in BOOLEAN

VARIABLES
  request,    \* contracts/requests: the hop each request asks for
  answered,   \* the requests some loadable file of contracts/results answers
  inflight,   \* contracts/inflight: the markers
  state,      \* the workflow state
  live,       \* the live approvals, as <<action, candidate>>
  pc,         \* where the session is; "down" when none runs
  todo,       \* pending requests _resume_queue has still to classify
  seeds,      \* seeds still to create
  queue,      \* requests to dispatch
  keys,       \* requested_keys: the hops known to the session
  current,    \* the request being dispatched
  attempt,    \* its transient retries
  wrote,      \* what this run of the agent has written
  recs,       \* recommended actions of the result, still to create
  hops, created, createdBy,   \* the report's counters
  moved,      \* the state log has changed since the session began
  capped,     \* stop_reason is "max_requests"
  deferred,   \* report.interrupted
  \* History, read by the properties only:
  tried,      \* requests this session has taken from its queue
  seededBy,   \* the part of createdBy that seeds account for
  late,       \* requests dispatched in a session whose state had moved
  abandoned,  \* active requests in the agent's hands when a session died
  foreign,    \* requests somebody else created
  unread      \* requests somebody else answered since the session began

disk    == <<request, answered, inflight>>
policy  == <<state, live>>
work    == <<todo, seeds, queue, keys, current, attempt, wrote, recs>>
report  == <<hops, created, createdBy, capped, deferred>>
history == <<tried, seededBy, late, abandoned, foreign, unread>>
vars    == <<disk, policy, pc, work, report, moved, history>>

Exists(r)  == request[r] # NoHop
Requested  == {r \in RequestIds : Exists(r)}              \* defect: answers not read
Pending    == {r \in RequestIds : Exists(r) /\ r \notin answered}
FreeIds    == {r \in RequestIds : ~Exists(r)}
IsActive(r) == request[r].action \notin LocalActions \cup PassiveActions

AllowedNow(h) == Allowed(h.action, h.candidate, state, InScope, live)

None == [a \in RequestActions |-> 0]

(* The memory of a session that has not begun. *)
Blank ==
  /\ todo' = {} /\ seeds' = << >> /\ queue' = << >> /\ keys' = {}
  /\ current' = 0 /\ attempt' = 0 /\ wrote' = "nothing" /\ recs' = << >>
  /\ hops' = 0 /\ created' = 0 /\ createdBy' = None
  /\ capped' = FALSE /\ deferred' = {} /\ moved' = FALSE
  /\ tried' = {} /\ seededBy' = None /\ late' = {} /\ unread' = {}

Init ==
  /\ request = [r \in RequestIds |-> NoHop]
  /\ answered = {} /\ inflight = {}
  /\ state \in Stages /\ live = {}
  /\ pc = "down"
  /\ todo = {} /\ seeds = << >> /\ queue = << >> /\ keys = {}
  /\ current = 0 /\ attempt = 0 /\ wrote = "nothing" /\ recs = << >>
  /\ hops = 0 /\ created = 0 /\ createdBy = None
  /\ capped = FALSE /\ deferred = {} /\ moved = FALSE
  /\ tried = {} /\ seededBy = None /\ late = {}
  /\ abandoned = {} /\ foreign = {} /\ unread = {}

-----------------------------------------------------------------------------
(* run_orchestration reads the contract files: what is pending, and every  *)
(* hop ever requested.  The inventory it reads them from lists the first   *)
(* 2000 files only; a run is taken to have no more.                        *)
Start ==
  /\ pc = "down"
  /\ pc' = "resume"
  /\ todo' = Pending
  /\ keys' = {request[r] : r \in {q \in RequestIds : Exists(q)}}
  /\ seeds' \in SeedLists
  /\ UNCHANGED <<disk, policy, queue, current, attempt, wrote, recs, report,
                 moved, history>>

(* The markers, and the queue. *)
MarkNothing(r)   == UNCHANGED inflight                \* defect: no marker
MarkInflight(r)  == inflight' = inflight \cup {r}
ClearInflight(r) == inflight' = inflight \ {r}

EnqueueAlone(r) == queue' = << r >>                   \* defect: drops the rest
Enqueue(r)      == queue' = Append(queue, r)

(* _resume_queue, one pending request: an active one that was in flight    *)
(* when a session died is set aside and loses its marker.  The files are   *)
(* read in the order of their random names: any order.                     *)
InterruptedForgotten(r) == FALSE                      \* defect: ignores markers
Interrupted(r) == r \in inflight /\ IsActive(r) /\ ~RetryInterruptedActive

Resume(r) ==
  /\ pc = "resume"
  /\ r \in todo
  /\ todo' = todo \ {r}
  /\ \/ /\ Interrupted(r)
        /\ deferred' = deferred \cup {r}
        /\ ClearInflight(r)
        /\ UNCHANGED queue
     \/ /\ ~Interrupted(r)
        /\ Enqueue(r)
        /\ UNCHANGED <<deferred, inflight>>
  /\ UNCHANGED <<request, answered, policy, pc, seeds, keys, current, attempt,
                 wrote, recs, hops, created, createdBy, capped, moved, history>>

ResumeDone ==
  /\ pc = "resume" /\ todo = {}
  /\ pc' = "seed"
  /\ UNCHANGED <<disk, policy, work, report, moved, history>>

(* _create_hop for a seed or a derived hop: one new request, or nothing    *)
(* when the hop is known or policy, ceiling or cap stand in the way.  A    *)
(* bound of the model: with its names used up, create_skill_request        *)
(* refuses, and the loop defers the hop as any it refuses.                 *)
CreatableAgain(h, derived) ==                         \* defect: no dedup
  h.action \in RequestActions /\ AllowedNow(h)

CreatableAnyClass(h, derived) ==                      \* defect: no ceiling
  h \notin keys /\ h.action \notin ProhibitedActions /\ AllowedNow(h)

Creatable(h, derived) ==
  /\ h \notin keys
  /\ derived => h.action \notin HandoffOnly
  /\ h.action \in RequestActions
  /\ AllowedNow(h)
  /\ derived => createdBy[h.action] < PerActionCap[h.action]

(* create_skill_request under a fresh name; which one does not matter. *)
NewRequest(r, h) ==
  /\ r \in FreeIds
  /\ \A s \in FreeIds : r <= s
  /\ request' = [request EXCEPT ![r] = h]

CreateHop(h, derived) ==
  \/ /\ Creatable(h, derived)
     /\ \E r \in FreeIds :
          /\ NewRequest(r, h)
          /\ Enqueue(r)
     /\ keys' = keys \cup {h}
     /\ created' = created + 1
     /\ createdBy' = [createdBy EXCEPT ![h.action] = @ + 1]
     /\ seededBy' = IF derived THEN seededBy
                    ELSE [seededBy EXCEPT ![h.action] = @ + 1]
  \/ /\ ~Creatable(h, derived) \/ FreeIds = {}
     /\ UNCHANGED <<request, queue, keys, created, createdBy, seededBy>>

Seed ==
  /\ pc = "seed" /\ seeds # << >>
  /\ CreateHop(Head(seeds), FALSE)
  /\ seeds' = Tail(seeds)
  /\ UNCHANGED <<answered, inflight, policy, pc, todo, current, attempt, wrote,
                 recs, hops, capped, deferred, moved, tried, late, abandoned, foreign,
                 unread>>

SeedsDone ==
  /\ pc = "seed" /\ seeds = << >>
  /\ pc' = "loop"
  /\ UNCHANGED <<disk, policy, work, report, moved, history>>

-----------------------------------------------------------------------------
(* The head of the loop.  `moved` stands for the comparison of the state   *)
(* revision with the one read at the start.                                *)
Stop ==
  /\ pc' = "down"
  /\ Blank
  /\ UNCHANGED <<disk, policy, abandoned, foreign>>

LoopEnds == pc = "loop" /\ queue = << >> /\ Stop

GoesOnAnyway == hops < MaxHops                        \* defect: ignores the state
MayGoOn      == hops < MaxHops /\ ~moved

LoopHalts == pc = "loop" /\ queue # << >> /\ ~MayGoOn /\ Stop

WallClockExceeded == pc = "loop" /\ queue # << >> /\ hops < MaxHops /\ Stop

(* queue.pop, load_skill_request, _mark_inflight. *)
PopHop ==
  /\ pc = "loop" /\ queue # << >>
  /\ MayGoOn
  /\ current' = Head(queue)
  /\ queue' = Tail(queue)
  /\ MarkInflight(Head(queue))
  /\ attempt' = 0
  /\ pc' = "dispatch"
  /\ tried' = tried \cup {Head(queue)}
  /\ abandoned' = abandoned \ {Head(queue)}
  /\ UNCHANGED <<request, answered, policy, todo, seeds, keys, wrote, recs, report,
                 moved, seededBy, late, foreign, unread>>

(* executor.run: the hop is in the agent's hands. *)
Dispatch ==
  /\ pc = "dispatch"
  /\ pc' = "running"
  /\ wrote' = "nothing"
  /\ late' = IF moved THEN late \cup {current} ELSE late
  /\ UNCHANGED <<disk, policy, todo, seeds, queue, keys, current, attempt, recs, report,
                 moved, tried, seededBy, abandoned, foreign, unread>>

(* The agent writes its result file, atomically.  A file that does not     *)
(* parse answers nothing.                                                  *)
AgentWrites ==
  /\ pc = "running" /\ wrote = "nothing"
  /\ \/ /\ wrote' = "result"
        /\ answered' = answered \cup {current}
        /\ unread' = unread \ {current}
        /\ recs' \in Recommendations
     \/ /\ wrote' = "unreadable"
        /\ UNCHANGED <<answered, unread, recs>>
  /\ UNCHANGED <<request, inflight, policy, pc, todo, seeds, queue, keys, current,
                 attempt, report, moved, tried, seededBy, late, abandoned, foreign>>

(* A transient failure, before or after the agent has written. *)
MayRetryOnceMore == attempt <= MaxRetries             \* defect: off by one
MayRetry         == attempt < MaxRetries

SameAttempt == attempt                                \* defect: not counted
NextAttempt == attempt + 1

TimesOut ==
  /\ pc = "running" /\ MayRetry
  /\ attempt' = NextAttempt
  /\ pc' = "dispatch"
  /\ UNCHANGED <<disk, policy, todo, seeds, queue, keys, current, wrote, recs, report,
                 moved, history>>

(* The dispatch ends: the hop is counted and its marker removed. *)
Conclude(next) ==
  /\ pc = "running"
  /\ hops' = hops + 1
  /\ ClearInflight(current)
  /\ pc' = next
  /\ UNCHANGED <<request, answered, policy, todo, seeds, queue, keys, current, attempt,
                 wrote, recs, created, createdBy, capped, deferred, moved, history>>

(* A permanent failure, or a transient one too many; a result may exist.   *)
ExecutorFails == Conclude("replan")

ExecutorReturns == wrote # "nothing" /\ Conclude("validate")

(* validate_skill_result: an unreadable result or unverified evidence      *)
(* makes the hop invalid; a valid result's recommendations are followed.   *)
ResultValid ==
  /\ pc = "validate" /\ wrote = "result"
  /\ pc' = "recs"
  /\ UNCHANGED <<disk, policy, work, report, moved, history>>

ResultInvalid ==
  /\ pc = "validate"
  /\ pc' = "replan"
  /\ UNCHANGED <<disk, policy, work, report, moved, history>>

(* The request bound, asked before anything but a seed is created. *)
OneRequestMore == created <= MaxRequests              \* defect: off by one
RequestsLeft   == created < MaxRequests

(* _replan_passive_fallback. *)
Fallback == [skill |-> RouteSkill, action |-> "public_source_lookup",
             candidate |-> request[current].candidate]

MayReplan ==
  /\ ReplanPassive
  /\ RequestsLeft
  /\ request[current].action # "public_source_lookup"
  /\ request[current].candidate # NoCandidate

Replan ==
  /\ pc = "replan"
  /\ \/ MayReplan /\ CreateHop(Fallback, TRUE)
     \/ ~MayReplan /\ UNCHANGED <<request, queue, keys, created, createdBy, seededBy>>
  /\ pc' = "loop"
  /\ UNCHANGED <<answered, inflight, policy, todo, seeds, current, attempt, wrote, recs,
                 hops, capped, deferred, moved, tried, late, abandoned, foreign,
                 unread>>

(* One recommended action; the request bound drops what is left, and the   *)
(* queue with it.                                                          *)
Derived(rec) == [skill |-> RouteSkill, action |-> rec.action, candidate |-> rec.candidate]

Recommend ==
  /\ pc = "recs" /\ recs # << >>
  /\ RequestsLeft
  /\ CreateHop(Derived(Head(recs)), TRUE)
  /\ recs' = Tail(recs)
  /\ UNCHANGED <<answered, inflight, policy, pc, todo, seeds, current, attempt, wrote,
                 hops, capped, deferred, moved, tried, late, abandoned, foreign,
                 unread>>

RequestBound ==
  /\ pc = "recs" /\ recs # << >>
  /\ ~RequestsLeft
  /\ capped' = TRUE
  /\ queue' = << >>
  /\ recs' = << >>
  /\ UNCHANGED <<disk, policy, pc, todo, seeds, keys, current, attempt, wrote, hops,
                 created, createdBy, deferred, moved, history>>

RecommendationsDone ==
  /\ pc = "recs" /\ recs = << >>
  /\ pc' = "loop"
  /\ UNCHANGED <<disk, policy, work, report, moved, history>>

(* The session dies anywhere: its memory is gone, its files stay.  A       *)
(* dispatch that has begun is left in the agent's hands.                   *)
InHand == pc = "running" \/ (pc = "dispatch" /\ attempt > 0)

Crash ==
  /\ pc # "down"
  /\ pc' = "down"
  /\ Blank
  /\ abandoned' = IF InHand /\ IsActive(current) THEN abandoned \cup {current} ELSE abandoned
  /\ UNCHANGED <<disk, policy, foreign>>

-----------------------------------------------------------------------------
(* The operator. *)
Environment == UNCHANGED <<pc, work, report, tried, seededBy, late, abandoned>>

TransitionState ==
  /\ state' \in AllowedTransitions[state] \cap Stages
  /\ moved' = (pc # "down")
  /\ UNCHANGED <<disk, live, foreign, unread>>
  /\ Environment

GrantApproval(k) ==
  /\ state \in {"scoped", "collecting", "analyzing"}
  /\ k \notin live
  /\ live' = live \cup {k}
  /\ UNCHANGED <<disk, state, moved, foreign, unread>>
  /\ Environment

(* An approval is revoked, or expires. *)
ApprovalEnds(k) ==
  /\ k \in live
  /\ live' = live \ {k}
  /\ UNCHANGED <<disk, state, moved, foreign, unread>>
  /\ Environment

(* Somebody else creates a request with create_skill_request, or writes    *)
(* the result of one.                                                      *)
OtherRequest(h) ==
  /\ Cardinality(foreign \cup unread) < MaxOthers
  /\ h.action \in RequestActions
  /\ AllowedNow(h)
  /\ \E r \in FreeIds : NewRequest(r, h) /\ foreign' = foreign \cup {r}
  /\ UNCHANGED <<answered, inflight, policy, moved, unread>>
  /\ Environment

OtherAnswer(r) ==
  /\ Cardinality(foreign \cup unread \cup {r}) <= MaxOthers
  /\ r \in Pending
  /\ answered' = answered \cup {r}
  /\ unread' = IF pc = "down" THEN unread ELSE unread \cup {r}
  /\ UNCHANGED <<request, inflight, policy, moved, foreign>>
  /\ Environment

-----------------------------------------------------------------------------
Step ==
  \/ \E r \in RequestIds : Resume(r)
  \/ ResumeDone \/ Seed \/ SeedsDone
  \/ LoopEnds \/ LoopHalts \/ WallClockExceeded \/ PopHop
  \/ Dispatch \/ AgentWrites \/ TimesOut \/ ExecutorFails \/ ExecutorReturns
  \/ ResultValid \/ ResultInvalid \/ Replan
  \/ Recommend \/ RequestBound \/ RecommendationsDone

Operator ==
  \/ TransitionState
  \/ \E k \in Grantable : GrantApproval(k) \/ ApprovalEnds(k)
  \/ \E h \in OtherHops : OtherRequest(h)
  \/ \E r \in RequestIds : OtherAnswer(r)

Next == Start \/ Step \/ Crash \/ Operator

(* A session that is not killed runs on: the loop never waits, and every   *)
(* run of an agent ends, by its own time limit if not before.  Nothing     *)
(* makes the operator act.                                                 *)
Spec == Init /\ [][Next]_vars /\ WF_vars(Step)

-----------------------------------------------------------------------------
Locations == { "down", "resume", "seed", "loop", "dispatch", "running",
               "validate", "replan", "recs" }

TypeOK ==
  /\ request \in [RequestIds -> Hops \cup {NoHop}]
  /\ answered \in SUBSET RequestIds
  /\ inflight \in SUBSET RequestIds
  /\ state \in Stages
  /\ live \in SUBSET Grantable
  /\ pc \in Locations
  /\ todo \in SUBSET RequestIds
  /\ seeds \in Seq(Hops)
  /\ queue \in Seq(RequestIds)
  /\ keys \in SUBSET Hops
  /\ current \in RequestIds \cup {0}
  /\ attempt \in 0..MaxRetries
  /\ wrote \in {"nothing", "result", "unreadable"}
  /\ recs \in Seq(Advice)
  /\ hops \in Nat /\ created \in Nat
  /\ createdBy \in [RequestActions -> Nat] /\ seededBy \in [RequestActions -> Nat]
  /\ moved \in BOOLEAN /\ capped \in BOOLEAN
  /\ deferred \in SUBSET RequestIds /\ tried \in SUBSET RequestIds
  /\ late \in SUBSET RequestIds /\ abandoned \in SUBSET RequestIds
  /\ foreign \in SUBSET RequestIds /\ unread \in SUBSET RequestIds

Queued == {queue[i] : i \in 1..Len(queue)}

(* Across any number of sessions and crashes, the loop never asks twice    *)
(* for the same skill, action and candidate: what it creates is known to   *)
(* it at once and re-read from the files when it resumes                   *)
(* (orchestrator.py:96-125, 299-302, 324).                                 *)
NoDuplicateHops ==
  \A r, s \in RequestIds \ foreign :
    Exists(r) /\ request[r] = request[s] => r = s

(* What is handoff-only stays with people: no request for an intrusive or  *)
(* prohibited action exists, whatever was recommended, seeded or approved  *)
(* (orchestrator.py:17-18, skill_contract.py:18).                          *)
HandoffOnlyNeverRequested ==
  \A r \in RequestIds : request[r].action \notin HandoffOnly

(* While the agent may be at work, the crash marker is on disk, whatever   *)
(* retries came between (orchestrator.py:214-224).                         *)
MarkedWhileInHand == InHand => current \in inflight

(* The session that finds an interrupted active hop does not fire it: with *)
(* the marker on disk or the hop on the interrupted list it is neither     *)
(* queued nor dispatched (orchestrator.py:374-399, ADR 0022 "never         *)
(* silently re-fired").                                                    *)
InterruptedIsDeferred ==
  ~RetryInterruptedActive =>
    \A r \in deferred \cup (abandoned \cap inflight) :
      /\ r \notin Queued
      /\ pc \in {"dispatch", "running"} => r # current

(* After the workflow state has moved, at most the one hop that was past   *)
(* the check is still dispatched (orchestrator.py:203-205).                *)
HaltsAfterStateChange == \A r, s \in late : r = s

(* No pending request is lost: while a session runs, each is still to be   *)
(* classified, queued, already taken, or on the interrupted list, unless   *)
(* the request bound emptied the queue or somebody else created it.        *)
NothingIsForgotten ==
  pc # "down" /\ ~capped =>
    Pending \ foreign \subseteq todo \cup Queued \cup tried \cup deferred

(* The bounds hold for everything results lead to: hops, created requests  *)
(* and requests per action.  Only the operator's own seeds may exceed the  *)
(* last two (orchestrator.py:197, 247, 309-312, 357).                      *)
BoundsHold ==
  /\ hops <= MaxHops
  /\ created > MaxRequests => createdBy = seededBy
  /\ \A a \in RequestActions :
       createdBy[a] > PerActionCap[a] => createdBy[a] = seededBy[a]

(* Across sessions, crashes and the answers of others, a request is taken  *)
(* from the queue only if it had no answer when the session began and no   *)
(* agent of the session has answered it, and is then given to an agent at  *)
(* most MaxRetries + 1 times, one agent at a time: again after a time-out  *)
(* even if the first agent did answer.  Active work a dying session had    *)
(* taken up is taken up again only after a later one has put it aside.     *)
(* The loop implements Contracts, its markers being the work taken up      *)
(* (orchestrator.py:96-125, 207-224, 335-346, 374-399).                    *)
TakenUp == pc \in {"dispatch", "running"}

Taken == IF TakenUp THEN current ELSE 0
Tries == IF pc = "dispatch" THEN attempt ELSE IF pc = "running" THEN attempt + 1 ELSE 0
Hand  == IF pc = "running" THEN current ELSE 0

Repeatable == {h \in Hops : RetryInterruptedActive \/ h.action \in LocalActions \cup PassiveActions}

RequestContracts == INSTANCE Contracts WITH
  Ids <- RequestIds, Nobody <- 0, Work <- Hops, NoWork <- NoHop, Retries <- MaxRetries,
  asks <- request, known <- answered \ unread,
  taken <- Taken, tries <- Tries, hand <- Hand, left <- inflight \ {Taken}

ImplementsContracts == RequestContracts!Spec

(* A session ends: no failing agent, retry, re-plan or chain of            *)
(* recommendations keeps it going for ever.                                *)
SessionEnds == pc # "down" ~> pc = "down"

-----------------------------------------------------------------------------
(* "ACTIVE are dispatched only when a current approval + allowed state     *)
(* already permit them" (orchestrator.py:14-15; ADR 0017 "checked per      *)
(* hop").                                                                  *)
ActiveDispatchIsAllowed ==
  [][Dispatch => (IsActive(current) => AllowedNow(request[current]))]_vars

(* "An interrupted active hop is recorded as interrupted and deferred for  *)
(* human review - never silently re-fired" (ADR 0022).                     *)
InterruptedNeverRefired ==
  [][PopHop => ~(IsActive(Head(queue)) /\ Head(queue) \in abandoned)]_vars
=============================================================================
