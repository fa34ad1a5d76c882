# Outrider in TLA+

Outrider runs governed reconnaissance over a *run folder*: a manifest, append-only
JSONL ledgers, contract files and artifacts. There is no database and no server
of record. Every operation replays the ledgers it needs, decides, and appends.
What makes the system correct is therefore the order of its file operations and
checks, under crashes, retries, a clock, and a human who works on the same
folder as the loop. That is what these modules describe.

Paths below are relative to the repository's `src/` unless they end in `.tla`.

## 1. Inventory

| Component | State it keeps | Operations | What makes it correct | Model |
|---|---|---|---|---|
| Run state ledger, `outrider/state.py` | `manifest.json`, `run.jsonl` | `initialize_state`, `bootstrap_legacy_run`, `transition_state`, `append_event`, `load_state` | what was acknowledged replays after any crash; the derived state moves by the transition table only; no stage is skipped; going back is explained | `Lifecycle`, `Workflow`, `RunState` |
| Approval registry and policy, `outrider/approval.py` | `approvals.jsonl` | `grant_approval`, `revoke_approval`, `load_approval_registry`, `evaluate_action` | the registry loads, or a repair makes it load, and until then it denies; one active approval a name, so that revoking by id is effective; an approval ends by itself; a scope-wide one never reaches intrusive actions | `Policy`, `Authority`, `Approvals` |
| Governed orchestrator loop, `outrider/orchestrator.py` | `contracts/inflight/`, the memory of one call | `run_orchestration`, `_resume_queue`, `_create_hop`, `_dispatch_with_retry`, `_replan_passive_fallback` | never asks twice; never requests what is handoff-only; the crash marker covers every moment the agent may act; an interrupted active hop is set aside; bounds; halts when the state moves; forgets nothing; ends | `Orchestrator`, `Contracts` |
| Skill contracts, `outrider/skill_contract.py` | `contracts/requests/`, `contracts/results/` | `create_skill_request`, `validate_skill_result` | a request exists only if policy allowed it | in `Orchestrator` and `Review` (partly) |
| Executors, `outrider/executors.py` | a result file | `run` | result written atomically; time-outs are transient | in `Orchestrator` (partly) |
| Scope rules, `outrider/scope.py` | `scope.yaml` | `evaluate_scope`, `normalize_rule_key`, `validate_scope_lists` | the decision is what the rules mean; exclusions win; a URL allowed means its host is | `Scope`, `ScopeMeaning` |
| Scope replacement and run creation, `outrider/run_setup.py`, `scope.py`, `cli.py` | a new folder, `scope.yaml` | `create_web_run_atomic`, `create_run`, `authorize_unattended_active`, `replace_scope_rules_atomic`, `outrider init` | the target stays in scope; no approval before the scope is confirmed; replacement only over the revision read | `Portal` |
| Evidence, `outrider/evidence.py` | `evidence.jsonl`, artifacts | register, verify | a record once acknowledged is kept; nothing Outrider does breaks an artifact that was registered | `Ledger`, `Review` |
| Findings, `outrider/finding.py` | `findings.jsonl` | list candidates, promote, verify | a finding that verifies rests on the claim as it was judged, also when the result changes meanwhile | `Ledger`, `Review` |
| Ledger repair, `outrider/repair.py` | backups | diagnose, apply | what crashes leave can be repaired; what stands on an ended line of its own is spared | `Ledger`, `Review`, `Approvals` (partly) |
| Web application, `outrider/web_app.py` | two in-process locks | creation, scope, transitions, approvals, enrichment, evidence, findings, guide | stale pages are refused; failures roll back; a call in flight stays authorised; the event loop never blocks | `Portal`, `Review` |
| MCP guard, `outrider/mcp_guard.py`, `mcp_enrichment.py` | none | authorise, then await the network | what is invoked was authorised | `Policy`, `Portal` (partly) |
| Bridge, `outrider/bridge.py` | none (reads a legacy folder) | suggest a target and a scope, import files | what is suggested is accepted; an import can be repeated | `Memory`, `Portal`, `Review` (partly) |
| Workflow guide, `outrider/workflow_guide.py` | none | offers the next action | leads to the end; offers completion only when everything was reviewed | `Review` |
| Verifier, `outrider/verifier.py` | advisory verdict files | falsify | supports what a promotion accepts | `Review` (partly) |
| Command line, `outrider/cli.py` | none | every operation above, without the lock | – | `RunState`, `Approvals`, `Portal`, `Review` (partly) |
| Web views, packaging, tools, skills, benchmark | none of their own | projections, release scripts, prompts, a scoring harness | – | not modelled (section 6) |

**How they interact.** `grant_approval` and `evaluate_action` replay the state
ledger and read the scope; `create_skill_request` asks `evaluate_action`; the
loop calls `create_skill_request`, hands the request to an executor and reads
the result the agent left. The web application and the command line call the
same functions beside a running loop. Nothing is shared in memory between
processes: every interaction is through files of the run folder, and every
decision reads them anew. So a decision is right for the moment it is made, and
the hazards are in what happens between it and its use.

**What is hard.** Crashes between and inside appends (all ledgers); the clock
and the one-second resolution of stored times (approvals); agents that time out
before or after writing, crashes at every step of a session and resumption from
files (loop); the operator changing state, approvals and requests while a hop is
in the agent's hands; bounds met in the middle of a result; a handler that waits
for the network with a lock in hand, and pages that are old when their request
is handled (portal); creation that fails half-way; a skill that writes its
result again while it is being promoted, and reads that count a damaged ledger
as an empty one (review); the difference between a URL and the host it is
recorded under (scope). `PROJECT.json` lists the hazards at their lines, with
the properties for each or the reason there is none.

## 2. Modules

| Module | Lines of the code it stands for | What it holds |
|---|---|---|
| `Lifecycle` | `state.py` 18-33, 104-107, 259-271 | states, transition table, the writer's and the reader's test of a reason |
| `Workflow` | – | the abstract promise of a run: begins `initialized`, moves by the table; `RunState`, `Portal` and `Review` implement it |
| `RunState` | `state.py` 61-72, 192-365 | the ledger with crashes; implements `Workflow` |
| `Policy` | `approval.py` 22-58, 632-801 | action classes, allowed states, `Allowed` |
| `Authority` | – | the abstract promise of approvals: one authorization a name, ends by itself, is extended only by a new decision, can be withdrawn; a damaged record authorizes nothing, and mending it takes back the last decision at most |
| `Approvals` | `approval.py` 231-605, `repair.py` 48-69 | the registry with crashes and repairs, the clock and its environment; implements `Authority` |
| `Contracts` | – | the abstract promise of request contracts: never changed, one taken up at a time and only while not known to be answered, given to an agent so many times at most, put aside after a crash |
| `Orchestrator` | `orchestrator.py` 40-427, parts of `executors.py` and `skill_contract.py` | the loop, the agent and the operator; decides with `Policy`, implements `Contracts` |
| `Scope` | `scope.py` | rules, candidates, matching, the decision, valid lists |
| `ScopeMeaning` | `scope.py` 183-271 (the rules there are) | the reference definition: what a scope means by ADR 0020 and `usage.md`, in sets of endpoints |
| `Memory` | `bridge.py` | what a legacy target folder suggests |
| `Portal` | `web_app.py`, `run_setup.py`, `scope.py` 475-518, `mcp_guard.py`, `cli.py` | the web application and the command line on one run; extends `Policy`, `ScopeMeaning`, `Memory` |
| `Ledger` | `evidence.py`, `finding.py`, `repair.py` | lines on disk, torn appends, strict loading, repair |
| `Review` | `evidence.py`, `finding.py`, `workflow_guide.py`, `repair.py`, `bridge.py`, parts of `web_app.py`, `skill_contract.py`, `verifier.py` | from artifacts to a completed engagement; extends `Lifecycle`, `Ledger` |
| `MCRunState`, `MCApprovals`, `MCOrchestrator`, `MCPortal`, `MCReview` | – | values of the constants for TLC |
| `RunStateProofs`, `ApprovalsProofs`, `OrchestratorProofs`, `SessionProofs`, `ContractsProofs`, `ScopeProofs`, `PortalProofs`, `ReviewProofs` | – | theorems and proofs |

`Lifecycle`, `Policy`, `Scope`, `Memory` and `Ledger` hold definitions only and
are shared: `Policy` extends `Lifecycle`; `RunState` extends `Lifecycle`;
`Approvals`, `Orchestrator` and `Portal` extend `Policy`. Some definitions have a
neighbour marked `defect:` — a form that code could plausibly have had. No
specification uses them; they exist to show that each property can fail.

### RunState

`log` is the versioned stream of `run.jsonl`, one record a line; a `"torn"`
record is what a crash inside an append leaves. `transition_state` is two
actions because the process can die between them: `ValidateTransition` replays
the log, checks table, reason and (into `scoped`) the scope, and builds the
event in `pending`; `AppendEvent` writes it. `CrashInAppend` leaves a torn line,
or the whole line without its line end, which still parses until the next append
is glued to it (`noNewline`). `scopedWell` is history: the scope loaded
when the move to `scoped` was last checked. `Parses` is `_parse_event`, `Loads` is
`load_state`. `WriteManifest` comes before the first event, as in
`initialize_state` and `bootstrap_legacy_run`. A folder whose manifest exists
without a first event is stuck: no operation of the code leaves that state, and
none of the model does.

Left out: identifiers and actors (fresh, or checked before anything is written),
timestamps, and the unversioned lines a legacy log may begin with, which the
reader only counts. One writer at a time: the web application serialises its
mutations, and ADR 0001 excludes simultaneous writers.

### Approvals

`registry` is `approvals.jsonl`; a grant is named by its sequence number in
place of a UUID. `ended` says that the last line has its line end. `Recorded` is
`_append`, a single write, and `CutShort` the same write with a crash in it: a
part of the record, which is a `Torn` line, or all of it but the line end, which
loads until the next record is written onto it. A grant is read back before it is
reported and a revocation is not, so a revocation may be reported done
although its line is spoilt; `withdrawn`, history, holds the grants of which that
was said. `Repair` is `outrider repair --apply`: it drops lines at the end that are
not JSON. `Parses`, `RegistryLoads`, `IsActive` are `_parse`,
`load_approval_registry` and `_status`. A requested expiry is `seconds` plus a
`fraction` of one: the writer's check sees both, the file keeps the seconds, as
`iso()` does. `Tick` is the clock, which only moves forward; `TransitionState`
and `EditScope` are the state and scope moving underneath, at any moment.

### Orchestrator

`request`, `answered`, `inflight` are the files under `contracts/` and survive a
crash. `todo`, `seeds`, `queue`, `keys`, `current`, `attempt`, `recs` and the
counters are the locals of one call of `run_orchestration`. `pc` is where the
call is:

    down -> resume -> seed -> loop -> dispatch -> running -> validate -> recs -> loop
                                ^                    |           |
                                +------ replan <-----+-----------+

Each step from one `pc` to the next stands for one branch of the code, in its
order: `Resume` classifies one pending request (`_resume_queue`), `Seed` creates
one seed, `LoopHalts`, `WallClockExceeded` and `LoopEnds` are the exits of the
`while`, `PopHop` pops and marks, `Dispatch` calls the executor, `TimesOut` is a
transient failure with budget left, `ExecutorFails` and `ExecutorReturns` are
the two results of `_dispatch_with_retry`, `ResultValid` and `ResultInvalid` the
validation, `Replan` the passive fallback, `Recommend` one recommended action,
`RequestBound` the bound met within a result. `AgentWrites` is the agent, whose
result may be written before a time-out or a failure is reported. `Crash` is
possible at every step. The operator's actions — `TransitionState`,
`GrantApproval`, `ApprovalEnds` (revoked or expired), `OtherRequest`, `OtherAnswer`
(somebody else writes a result file) — are enabled throughout.

`ImplementsContracts` maps the loop to `Contracts`. *Taken up* is the current
request from `PopHop` until it is concluded; an agent has it *in hand* only while
`pc` is `running`; *tries* counts how often it did. So a time-out takes the request
out of the agent's hands and the next dispatch is a second `HandOut`, as it is a
second `executor.run` in the code — also when the agent had written its answer
before it was timed out (`orchestrator.py:335-346`; nothing looks). `Contracts`
allows this, says so, and bounds it by `Retries + 1`. *Known to be answered* is what
was answered except by others since the session began (`unread`): the loop reads
the results when it starts and never again, so a request others answer while it
is queued *is* dispatched. ADR 0017:15 has the loop "refuse to proceed" when the
contract revision changed; the code records that revision at both ends
(`orchestrator.py:176, 262`) and compares only that of the state. What `Contracts`
promises is what is left of "no request is answered twice": a session never takes
up a request that was answered when it began or that its own agents answered.

The order of pending requests is that of random file names, so `Resume` takes
any. `moved` stands for the comparison of the state revision with the one read
at the start: revisions are digests of an append-only file, so they differ
exactly when something was appended. A result's contents are a sequence of
recommendations out of a small set; evidence verification is a choice between
valid and invalid.

Left out: a queued request file that cannot be read (logged and skipped), the
reports and logs, the back-off sleep. The approvals are the set `live` of names,
without their times: `Approvals` shows what the registry makes of them. `Stages`
has one workflow state of each kind the policy tells apart; the loop reads
nothing else from it. `Pending` has every request file: the
inventory of the code stops at 2000 files (`skill_contract.py:180`), and a folder
with more of them loses requests without a word.

### Scope, ScopeMeaning, Memory

A name is the sequence of its labels and a path that of its segments, so that
"strictly below" and "prefix" are relations on sequences, as `scope.py` computes
them. `Fits` is the asymmetry of the engine: what a candidate does not say never
blocks an inclusion and never triggers an exclusion. `ScopeMeaning` does not look
at `RuleMatches`: a rule is the set of complete endpoints it covers, a candidate
the set of endpoints it may be completed to, and a scope allows it when some of
them is included and no exclusion covers all of them. `CoversPath` is the rule of
the documents: a glob is exactly one segment, and a path covers its directory and
what is below, written with the closing slash or without. The engine follows that
for plain paths (`PlainScope`) and not for two other kinds, see section 4. `Memory` is what
`parse_target_memory` makes of a `memory.md`: the target and the scope the import
form is filled in with.

`ParsedRules` says which rules the parser lets through and what their paths look
like; the theorems are about those.

Left out: the parsing of the text of rules, letter case, repeated slashes, dot
segments, a star that is only part of a path segment, URL rules on addresses,
and assets of a memory given by address.

### Portal

| In the model | In the code |
|---|---|
| `files` | what `outrider init` has written: scope, approval log, manifest, first event, the rest |
| `state` | the state `load_state` derives, `"none"` before the first event |
| `scope`, `scopeRev` | `scope.yaml` and its `scope_control.revision_number` |
| `log` | `approvals.jsonl` |
| `pending[c]`, `answer` | the request a client waits for, with the revisions its page showed; the answer just given |
| `mutationLock`, `enrichmentLock` | the two `threading.Lock`s of `create_app` |
| `blocked` | the request whose handler waits for the lock on the event loop |
| `touched` | the command line acted while a provider was being called |
| `cli` | where `outrider init` is |

The handlers are coroutines that do not await while they work, so each is one
action: it looks at what the client saw, refuses, fails or does it. The one that
awaits is `mcp_invoke_route`, in two actions, `InvokeStart` and `InvokeFinish`,
with both locks held between them. A mutation that arrives meanwhile runs into
`with mutation_lock`: `Block`. After that no handler runs. `Restart` is the end
of the process and a new one.

`CreateUnattended` may fail after any of its steps and leaves what they did.
`InitStart` to `AutoGrant` are `outrider init` file by file, `InitCrash` possible at
each; a second call goes on where files are missing. `CliTransition`, `CliGrant`
and `CliRevoke` are the commands that take no lock. They are atomic here and come
between handlers, not inside one; the documentation excludes simultaneous use.
Routes that only read are not actions, and what they show is `Seen`.

### Ledger and Review

A ledger is a sequence of lines, a line the sequence of pieces written to it:
`<<record>>` is a JSON line, `<<Cut>>` a torn one, two pieces are what an append
onto an unfinished line makes. `Loads` is what the strict loaders accept,
`TailStatus` and `Repaired` are `_jsonl_tail_status` and `repair_run`, which look
only at whether lines are JSON. A copy is named after the second it was made in
(`repair.py:76-77, 173-174`), so in `Review` a repair may overwrite any copy of the same
ledger; `backups` is what is left of them.

In `Review` a promotion is four steps, because the skill may write the result file
between them: `CheckHash` (the result is the one on the page), `Validate`,
`TakeClaim` (the second read), `Record` (the hash that goes into the finding is
taken here). The scope is asked about the asset the *reviewer* names
(`finding.py:246`), `promo.candidate`, and not about the claim's subject, which only
the candidate list and the falsifier look at: a claim about something outside the
scope can be promoted under a name inside it. `promo` holds the locals; `promo.replaced`, and `seen` and `replaced`
in a finding, are history for the properties. `RegisterRoute`, `RegisterCommand`
and `ImportTarget` are the doors to `evidence.jsonl`, `PromoteCommand` is the
promotion from the command line. `Offers` is the guide's `_next`: what cannot be
read counts as nothing there. `Answer`, `Rewrite` and `Overwrite` are the skill and
the tools. `faults` counts crashes, changes behind the operator's back, and
promotions the page does not offer or that name another asset than the claim's.

Left out: result contracts beyond one, supplementary evidence, titles and
severities, verdict files, symbolic links, files that change while they are
hashed, the templates and directories a repair recreates. A missing ledger file
is an empty one. A page old in any respect but the result is refused without
effect and is not an action.

## 3. What the runs check and show

| Run | Configuration | Result |
|---|---|---|
| `ledger` | `MCRunState.cfg`: reasons as the web application passes them | holds: `TypeOK`, `LogReplays`, `StagesInOrder`, `RegressIsExplained`, `ImplementsWorkflow` |
| `ledger_cli` | `MCRunStateCli.cfg`: reasons as the command line passes them | `LogReplays` **violated**: finding 1 |
| `approvals` | `MCApprovals.cfg`: expiries in whole seconds | holds: `TypeOK`, `RegistryRecovers`, `AtMostOneActive`, `IntrusiveIsExact`, `WithdrawalIsEffective`, `ImplementsAuthority` (some 341,000 states) |
| `approvals_expiry` | `MCApprovalsExpiry.cfg`: any ISO time as expiry | `RegistryRecovers` **violated**: finding 2 |
| `approvals_repair` | `MCApprovalsRepair.cfg`: the instance of `approvals` | `RevokedStaysRevoked` **violated**: finding 3 |
| `orchestrator` | `MCOrchestrator.cfg`: results that recommend each other's hops | holds: `TypeOK`, `NoDuplicateHops`, `HandoffOnlyNeverRequested`, `MarkedWhileInHand`, `InterruptedIsDeferred`, `HaltsAfterStateChange`, `NothingIsForgotten`, `BoundsHold`, `ImplementsContracts`, `SessionEnds` (some 1,640,000 states) |
| `orchestrator_dispatch` | `MCOrchestratorDispatch.cfg` | `ActiveDispatchIsAllowed` **violated**: finding 4 |
| `orchestrator_refire` | `MCOrchestratorRefire.cfg` | `InterruptedNeverRefired` **violated**: finding 5 |
| `portal` | `MCPortal.cfg`: two clients and the command line | holds: `TypeOK`, `DecisionMatchesMeaning`, `AllowedUrlHasAllowedHost`, `TargetStaysAllowed`, `SuggestionIsAccepted`, `ApprovedInScope`, `ApprovalsFollowScoping`, `CallStaysAuthorised`, `RefusalLeavesNoTrace`, `AnsweredUnlessCallHoldsLock` (some 455,000 states) |
| `portal_deadlock` | `MCPortalDeadlock.cfg`: the same instance | `EveryRequestAnswered` **violated**: finding 6 |
| `review` | `MCReview.cfg`: two artifacts, five results, two faults | holds: `TypeOK`, `RepairHeals`, `DamageIsRepairable`, `AcknowledgedIsKept`, `VerifiedMeansReviewed`, `OfferedIsPromoted`, `EvidenceStaysIntact`, `GuidedEngagementCompletes` (some 1,014,000 states) |
| `review_guide` | `MCReviewGuide.cfg` | `CompletionIsReviewed` **violated**: finding 7 |

Some of these hold with an exception that is part of the code's behaviour and
is written into the property:

- `RefusalLeavesNoTrace`: a creation whose ValueError comes after the creation
  (approvals refused, or reading the new run back) is answered 422 although the run
  exists and stays (`web_app.py:132-145`).
- `DecisionMatchesMeaning`: for scopes of plain paths. Where a glob comes last, or
  a path with a glob has a closing slash, the engine does *not* decide as the
  documents say; `GlobsPartWithTheDocuments` proves it (section 4).
- `CallStaysAuthorised`: unless the command line acted during the call; nothing
  stops it from revoking an approval under a call in flight.
- `SuggestionIsAccepted`: unless the memory's table has one asset in two
  spellings, which are one rule to `validate_scope_lists`, and so a duplicate.
- `AcknowledgedIsKept`: what stands on an ended line of its own stays there for
  good. A record that is written onto a line a crash left open is acknowledged
  too, and the next repair takes it off the ledger, against ADR 0022:53-55. It
  leaves a copy, and a repair in the same second overwrites that copy. Finding 3
  is this same case in the approval registry.
- `VerifiedMeansReviewed`: when the result was replaced *during* the promotion, the
  finding may rest on a result that was never validated: `promote_finding`
  validates one reading and records another (`finding.py:219-249`). The claim in it is the
  one that was judged all the same. No property says that the result recorded is
  the result validated; it would be false.

### Findings

1. **A blank reason spoils the log for good.** The writer tests `not reason`
   (`state.py:268-271`), which a blank string passes; the reader demands a
   non-empty one (`state.py:104-107`). `outrider state transition` passes
   `--reason` unchanged, so `--reason " "` is written, and every later
   `load_state` fails. The web application strips first and is not affected.
2. **An expiry within the current second makes the registry unreadable.**
   `exp <= now` is tested on exact times, both are then cut to whole seconds
   (`approval.py:526, 567-573`), and the reader rejects `expires_at <=
   occurred_at` (`approval.py:332-333`). From then on every `evaluate_action` is
   an error, and nothing can be granted or revoked. It needs `--expires-at`;
   `duration_minutes` always gives at least a minute. A repair does not help: the
   line is JSON.
3. **A repair can bring back an approval that was revoked.** A crash leaves the
   line of a grant without its line end; the registry still loads. The revocation
   is written onto that line, which is then not JSON, and `revoke_approval`, which
   does not read the registry back (`approval.py:580-605`), reports it done. All is
   denied until `outrider repair --apply` drops the line, and with it the
   revocation. When the line left open was that of another record, the revoked
   grant is active again. ADR 0022:53-55 says that repair can "only undo a
   crash-truncation".
4. **Policy is read when a request is created, not when it is dispatched.** An
   active hop runs after its approval was revoked or expired while it was
   queued, and a resumed one in a state that does not permit it. The docstring of
   `orchestrator.py` (14-15) and ADR 0017 ("checked per hop") say otherwise.
5. **An interrupted active hop is deferred once.** The session that sets it
   aside removes its marker (`orchestrator.py:398`) and leaves the request
   unanswered, so the session after that takes it for any pending request and
   dispatches it. ADR 0022 says "never silently re-fired". What *does* hold is
   `InterruptedIsDeferred`: the session that finds the marker does not fire.
6. **An enrichment call can stop the web application for good.**
   `mcp_invoke_route` awaits its provider inside `with mutation_lock`
   (`web_app.py:830-838`), which is a `threading.Lock` (`web_app.py:40`). The other
   mutations are coroutines on the same event loop and take it with a blocking
   `with`. One that arrives during the call blocks the loop; the call can no
   longer return and release the lock. What *does* hold is
   `AnsweredUnlessCallHoldsLock`: this is the only way a request is left
   unanswered.
7. **A torn findings registry is offered for completion.** `_safe`
   (`workflow_guide.py:25-27, 50-52`) has empty defaults, so a `findings.jsonl` that
   does not load has no unpromoted candidates and no unverified findings, and
   `complete_engagement` is offered (`workflow_guide.py:100-101` ask for both). It
   takes a promotion that died in its append.

Findings 1 and 2 leave the passing runs honest: these assume, in a named
constant, exactly what the failing input lacks (`InputReasons`, `Fractions`). For
the other five the specification is the one of a passing run, and the property
is what differs.

Three more disagreements with the documents have no run of their own; the models
have them as the code does:

- Paths: ADR 0020:13 and `usage.md:253-261` against `scope.py:389-396`. Proved in
  `ScopeProofs`, see section 4.
- ADR 0017:15, by which the loop "refuses to proceed" when the contract revision
  indicates a concurrent change: `Contracts` says what it does instead.
- The reviewer's candidate and the claim's subject: `list_finding_candidates` calls
  a claim about something outside the scope not eligible, and `promote_finding`
  accepts it under a candidate inside (`finding.py:246`). `OfferedIsPromoted` is about
  promotions of the claim's own subject.

### Bounds, and why they are enough

- `MaxLog = 8` lines: the shortest walk to `archived` takes seven events, and to
  `completed` with one step back eight; crashes use up lines as well. Four
  are enough for `ledger_cli`.
- `MaxTime = 3`, `MaxLifetime = 2`, `MaxEvents = 3`: a grant can be given, expire
  or be revoked, and be given again, each with a crash in its append and a repair
  after it, and both ends of the allowed lifetime and
  one beyond each are asked for. One candidate, the whole scope, one
  action that may be approved scope-wide and one that may not: the four kinds of
  name there are.
- `MCOrchestrator`: one candidate in scope and one outside; no seed, or one of an
  active action; a result that recommends an intrusive action, one outside scope,
  the seed once more and one that may run, so that a session that did not count
  would go on for ever; three request files (the seed, a derived hop or fallback,
  one by somebody else), after which a creation is deferred as one that policy
  refuses; one request created or answered by others at a time; two hops, two requests and
  one retry, so that each bound is met and each counter can be tried beyond it; a
  state in which everything may run and one in which only passive and local work
  may. Sessions and crashes are not bounded: the files are. The option
  to retry interrupted active hops is off; the theorems are about both.
- `MCPortal`: two clients, since a deadlock and a stale page take two; one pair of
  action and host to approve and to call; `MaxEvents = 2`, which is a grant and its
  revocation, and the two grants of an unattended run; `MaxRevision = 2`, so that a
  replacement meets a page that shows the scope before it. `outrider init
  --auto-active` is repeated only on runs that have no approvals yet and a client
  asks for a run only while there are no files. For the scope engine: three names
  of which two extend another, three addresses, three ports, eight paths with a
  prefix, closing slashes at two depths and a look-alike, and scopes with every
  kind of rule on both sides — globs at the start and inside, pinned ports, pinned
  schemes, an excluded root.
- `MCReview`: an artifact of each origin, three evidence ids (one more than
  artifacts, for a registration repeated after a repair), results that are
  valid, reworded, failed, with a second candidate, and with a subject outside the
  scope, each asked for under an asset inside and one outside. Two
  faults are a crash and a second one after its repair, or a crash or a change on
  each side of a promotion.

No run uses symmetry or a state constraint. Deadlock is checked in all of them
but `review` and `review_guide`, where an archived engagement has nothing left to
do.

### Fairness

`Orchestrator!Spec` has `WF_vars(Step)`, `Step` being the loop and the agent
without `Crash`. The loop is sequential code that never waits for anybody but
the agent, and the agent is a subprocess with a time limit (or a function that
returns): `Step` is always enabled while a session runs, and a process that
is scheduled takes it. Nothing is assumed of the operator, of `Start` or of crashes.
The time between two steps is not modelled, so the wall-clock bound is a choice
(`WallClockExceeded`): `SessionEnds` does not rely on it.

`Portal!Spec` has `WF` of `Handle(c)` and `InvokeFinish(c)` for each client: the event
loop gets round to every coroutine it can run, and a provider call ends because
its time-outs are fixed (`mcp_enrichment.py`). `Handle` includes `Block`, so this
fairness does not avoid the deadlock. Clients, the command line and `Restart` are
not obliged to do anything.

`Review!FollowGuide` assumes a finished promotion of the event loop and, of the
operator, what the guide asks for: register and import while no evidence
verifies, prepare a request, review the candidates on offer, repair, take the
step offered. The skill answers a request once. These are assumptions about
people; `GuidedEngagementCompletes` says what the guide promises them, and only
when the records stay as they were left (`RecordsIntact` from some time on). Its
content is that the guide never stops offering.

`RunState` and `Approvals` are safety only.

## 4. What is proved

With TLAPS, for every value of the constants that satisfies the named
assumptions — logs, registries, queues and numbers of sessions of any size.

**RunStateProofs** (assuming `NormalisedReasons`: callers pass null or text).
`IInv` says that every line of the log but a torn last one parses, that a
pending event parses after the log it was built from, and that an unterminated
last line parses. The middle part is what makes it inductive: the event is
checked in one step and written in another, and only because nobody else writes
in between does what was checked still hold. From it follow
`AcknowledgedEventsReplay`, `RegressExplained` and `TypeCorrect`.
`CompletedInOrder` adds `Trails`: the log up to a line that enters a stage
contains the earlier stages in order — predecessors in the transition table are
what carries it over each appended line, backward steps included — and `ScopeChecked`:
what enters `scoped` did so with a scope that loaded when it was checked, although the
event is written in a later step and the scope may be edited in between.
`LedgerImplementsWorkflow` is the refinement: a write moves the state derived
from the durable log by one allowed transition or not at all.

**ApprovalsProofs**. `IInv` says that only the last line can be torn and that active
grants have names of their own, in the registry and in `Sure`, the lines a repair
would fall back to. A grant needs that its name is not live; everything else only
shrinks the set of active grants (`ActiveShrinks`, `TimeRemoves`) or goes back to
`Sure`. `WithdrawalEffective` is an action property from the same invariant,
`IntrusiveNeedsExact` follows from what a scope-wide grant may name.
`RegistryAlwaysRecovers` is `RegistryRecovers` under `Fractions = {0}`, with crashes in
every append and repairs: it loads, or does but for a last line that is not JSON.
`RegistryImplementsAuthority` needs no such assumption. What is authorized is what the
registry says, nothing when it does not load; what is *settled* is what `Sure` says;
and a repair moves the first to the second, one decision at most.
`GrantsOpenThemselves` is about single decisions: while state and scope stand
still and nothing is repaired, an action that was denied is authorised by its own
grant and by nothing else. It combines what each step does to the active set with
`AllowedGrows`. `DamageDeniesUntilMended` is the other side of findings 2 and 3: while
a line does not parse no decision is to allow, and nothing changes the registry but
a repair that drops a torn last line. A line that is JSON and does not parse, as in
finding 2, therefore denies for good.

**OrchestratorProofs**. All the invariants of the run `orchestrator`, each with
its own strengthening: `MarkInv` (the marker is there from `PopHop` on),
`LateInv` (once the state has moved only the current hop can still be
dispatched), `DupInv` (a session knows every hop it or an earlier session
created), `BoundsInv` (counters split into the seeds' part and the rest),
`DeferInv` (queue, `todo` and the deferred are apart, and what was abandoned keeps
its marker until it is classified). `CreateHop` is handled once in a lemma and
used by `Seed`, `Replan` and `Recommend`. One more theorem says what *does* hold
where finding 4 fails, `RequestsAreAllowedWhenMade`: policy, approvals included,
allows a request in the step that writes it, whoever writes it.

**SessionProofs**. That a session ends, as far as it can be said without fairness.
`Distance` measures how far a session is from its end by five numbers: the phase
(resuming, seeding, the loop), what the phase has still to do (pending requests,
seeds, hops), where the hop is, the recommendations or retries it has left, and
the run of the agent. `SessionApproachesItsEnd` says that every step of the
session, and a crash, lowers it in the lexicographic order and that nothing an
operator does meanwhile raises it — a request answered or created, an approval
withdrawn. `NoEndlessApproach` says that this order has no endless descent. So a
session that keeps taking steps ends, for any `MaxHops`, `MaxRequests` and
`MaxRetries`; that it keeps taking them is the fairness, and `SessionEnds` puts
the two together on the instance. The proof needs `BoundsInv` (hops never pass
their bound) and that what a session resumes is finite (`FiniteInv`), although
request names are not.

**ContractsProofs**. `LoopImplementsContracts`, the refinement. `QueueInv` carries it:
a request is in the queue once, nothing queued is known to be answered, and of
the marked requests only repeatable work is queued. Together with `DeferInv` and
`MarkInv` it says that whatever `PopHop` takes may be taken up. `BoundsInv` bounds the
hand-outs. The refinement does not claim that an answered request stays out of an
agent's hands after a time-out, nor that the answers of others are seen during a
session; `Contracts` says so in its head.

**ScopeProofs**. Three theorems about the scope engine, with no system around it.
`DecisionIsFaithful`: for any scope of parsed rules with plain paths, over any universe
of names, addresses, ports and paths, the engine's decision is the one `ScopeMeaning`
defines. It goes by rule: a rule matches on the inclusion side exactly when it
covers *some* endpoint the candidate may stand for, and on the exclusion side
exactly when it covers *all* of them. Paths are the harder half, since the engine
strips a closing slash and compares segments, and the reference completes a
pattern by the path and asks for an extension. `NoOpChangesNoDecision`: what the
replacement of a scope refuses as an "effective no-op" — the same rule keys in
another order or spelling — would have changed no decision about a host, an
address or a URL with a path. The qualification is necessary, see below.

A path is plain when it has no glob, or its glob is neither last nor followed by a
closing slash only. `GlobsPartWithTheDocuments` is about the others, of which the
documents speak and the engine does not do as they say:

- A final glob also matches the empty segment: `/a/*` covers `/a/` itself, where
  ADR 0020:13 and `usage.md:256` say that `*` matches exactly one segment.
- A pattern with a glob *and* a closing slash is spared the `rstrip`
  (`scope.py:393-396`) and so covers nothing below its directory: `/a/*/` does not
  cover `/a/x/y`, although ADR 0020:13 and `usage.md:261` say that a path covers its
  directory with or without the slash. As an exclusion it excludes less than it says.

Working out `NoOpChangesNoDecision` showed one more:

- `h:8443` and `h:8443/` have one key (`scope.py:60-61` writes `path or '/'`), and
  exclusions treat them differently: only the second spares a candidate without a
  path. So replacing one by the other is refused as a no-op (`scope.py:488-489`)
  although it would change the decision on `https://h:8443`.

**PortalProofs**. Twelve theorems: `TargetIsNeverScopedOut`, `ScopeBeforeApproval`,
`NoApprovalOutsideScope`, `NoHandlerUndercutsCall`, `SuggestionsAreAccepted`,
`AllowedUrlsHaveAllowedHosts`, `DecisionsMatchTheMeaning`, `RefusalsChangeNothing`,
`OnlyACallStopsTheLoop`, `OnlyARestartHelps`, `PortalImplementsWorkflow`, and the
types. `IInv` is
`Disk /\ Asked /\ Locks`. `Disk`: files appear in order, an approval is only on
record in a run whose scope was confirmed, and names what that scope allows —
which survives a replacement because only an `initialized` run is open to one, and
such a run has no approvals. `Asked`: a pending request is one a client could have
sent; an import carries a suggested scope. `Locks`: who holds the mutation lock
holds the other and is making a call, and the call is allowed now; every handler
that could change that needs the lock. `AllowedUrlsHaveAllowedHosts` is about the
scope engine alone and holds of every scope, not only those of the instance;
`DecisionsMatchTheMeaning` carries `DecisionIsFaithful` over to the scopes of plain paths
a run goes through.

`OnlyACallStopsTheLoop` and `OnlyARestartHelps` settle finding 6 for any number of
clients, from both sides: the event loop stands still only when an enrichment call
of one client has the lock and a mutation of another waits for it, and from then
on nothing is released and nobody who waits is answered until the process is
restarted. `PortalImplementsWorkflow` is the refinement of `Workflow` by everything
that writes a transition in `Portal`: handlers on stale pages, creation that fails
half-way, `outrider init` cut short and begun again, and the command line.

**ReviewProofs**. Nine theorems: `RepairIsEnough`, `CrashesLeaveATail`,
`AcknowledgedLinesStay`, `VerifiedFindingsWereReviewed`, `OffersHold`,
`CommandsLeaveEvidence`, `GuideNeverStrands`, `GuideImplementsWorkflow`, and the
types. `AcknowledgedLinesStay` follows a record that stands on an ended line of its
own over appends, crashes and repairs, and one that shares its line into the copy the
repair makes of it; no further, since the next repair may overwrite that copy. `GuideNeverStrands` says that while the records are intact and the
engagement is not over, there is always something to do: a repair, a step on
offer, a candidate to review, evidence or a request to prepare, or an answer to
wait for. It is what `GuidedEngagementCompletes` comes down to without fairness, and
needs `Guided` (the guide's run is never cancelled, and has a result only after a
request). The centre is `Healthy`: only the last line of
a ledger can be damaged and the others are numbered and unique. It is inductive
because every writer loads the ledger before it appends. For a promotion that
needs more, since it appends several steps after it looked: the invariant's part
`Promotion` says that what it found then is still so — the findings load, the
claim is not in them, the result is the one it read unless it was replaced.

The assumptions are the `ASSUME`s of `Portal`, `ScopeMeaning` and `Review`: special
values (`"nobody"`, `"torn"`, no host, no path) are not values of the instance, and
choices are of the right shape. `ChoicesAssumption` says that scopes are sequences
of rules the parser accepts, whose paths are among the paths considered,
`PathsAssumption` that paths are normalised, and `NamesAssumption` that names are
sequences of labels.

**Model-checked only**: `SessionEnds`, `AnsweredUnlessCallHoldsLock` and
`GuidedEngagementCompletes`, since liveness under fairness is beyond the prover.
What they rest on without fairness is proved: `SessionApproachesItsEnd` and
`NoEndlessApproach`, `OnlyACallStopsTheLoop` and `OnlyARestartHelps`,
`GuideNeverStrands`. And the seven findings, which are counterexamples.

## 5. Plan

What is left, in the order of what it would add:

1. Several result contracts, supplementary evidence and verdict files in `Review`.
2. Appends of two processes to one ledger at the same time, which the
   documentation excludes and nothing prevents.
3. Times in the portal: an approval that expires during a call. `Approvals` has
   the clock and `Portal` does not.

## 6. Not modelled

- **Web views** (`web_view.py` and the browser's code): read-only projections. What
  of them matters to a handler, the revisions a page carries, is `Seen`.
- **Packaging, tools, skills, benchmark**: release scripts, prompts for agents, and
  a scoring harness; they have no state of a run.
- **Providers and the stdio MCP server**: protocols of others, and a server without
  lock or state. An enrichment call ends, well or not.
- **The text of schemas**: a contract is valid or not, for the reasons the
  properties tell apart.
- **Materialisation** (`bridge.py`): it renders a file outside the run. It tests for
  the operator's notes and then writes, so notes written between the two are
  lost; no module has that file.

## 7. Reading and running

`tlc -config MCPortal.cfg MCPortal` checks a run, `tlapm PortalProofs.tla` the
proofs. `PROJECT.json` has the map from definitions to source lines, the runs, the
theorems, the findings and the hazards.
