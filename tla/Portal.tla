------------------------------- MODULE Portal -------------------------------
(***************************************************************************)
(* The web application and the command line on one run directory: creation *)
(* and scope of the run, workflow state, approvals, and the enrichment     *)
(* call the portal makes on the operator's behalf.                         *)
(*                                                                         *)
(* Handlers run on one event loop, so each is one action, with one         *)
(* exception: the enrichment handler awaits its provider, and holds both   *)
(* locks while it does.  A mutation that finds the lock taken waits for it *)
(* on the event loop, which then runs nothing else.  A client sends a      *)
(* request with the revisions its page showed; the page may be old when    *)
(* the request is handled.  The command line takes no lock; its init       *)
(* writes the run directory file by file and may be interrupted anywhere.  *)
(*                                                                         *)
(* Approvals end here by revocation only (Approvals has the clock), the    *)
(* ledgers load (RunState, Review have the torn ones), and scope.yaml is   *)
(* not edited by hand.                                                     *)
(***************************************************************************)
EXTENDS Policy, ScopeMeaning, Memory

CONSTANTS
  Clients,       \* browser pages and scripts
  Hosts,         \* names of hosts, as approvals record them
  Labels,        \* the labels of each host
  Target,        \* the manifest target
  Grants,        \* the <<action, host>> pairs approvals are requested for
  Calls,         \* the <<tool, host>> pairs enrichment is asked for
  Submitted,     \* the scopes submitted to the portal
  Written,       \* the scopes `outrider init` is given
  Memories,      \* the legacy folders a run may be created from
  NewStates,     \* the workflow states transitions are requested to
  MaxEvents,     \* bound on the length of approvals.jsonl
  MaxRevision    \* bound on the scope revision

ASSUME HostsAssumption ==
  /\ Target \in Hosts
  /\ {NoCandidate, ScopeWide} \cap Hosts = {}
  /\ Labels \in [Hosts -> Names]
ASSUME GrantsAssumption    == Grants \subseteq Approvable \X Hosts
ASSUME CallsAssumption     ==
  Calls \subseteq {"crtsh_lookup", "hudsonrock_lookup", "wayback_urls",
                   "dns_records", "epss_score"} \X Hosts
ASSUME NewStatesAssumption == NewStates \subseteq States
ASSUME ScopesAssumption    ==
  /\ Submitted \cup Written \subseteq ScopeChoices
  /\ \A s \in Written : s.in # << >>
  /\ \A m \in Memories : SuggestedScope(m) \in ScopeChoices
ASSUME BoundsAssumption    == MaxEvents \in Nat \ {0, 1} /\ MaxRevision \in Nat \ {0}
ASSUME ClientsAssumption   == "nobody" \notin Clients

VARIABLES
  files,           \* what the run directory holds
  state,           \* the state load_state derives, "none" before the first event
  scope,           \* the rules of scope.yaml
  scopeRev,        \* scope_control.revision_number, 0 without scope_control
  log,             \* the events of approvals.jsonl
  pending,         \* the request each client waits for
  answer,          \* the answer the last step gave, if it gave one
  mutationLock,    \* who holds it across steps
  enrichmentLock,
  blocked,         \* the request whose handler stopped the event loop
  touched,         \* the command line acted while the call was in flight
  cli              \* where `outrider init` is, and whether --auto-active is set

run    == <<files, state, scope, scopeRev, log>>
server == <<mutationLock, enrichmentLock, blocked>>
vars   == <<files, state, scope, scopeRev, log, pending, answer,
            mutationLock, enrichmentLock, blocked, touched, cli>>

Nobody  == "nobody"
NoState == "none"
NoScope == [in |-> << >>, out |-> << >>]
NoPair  == <<"none", NoCandidate>>
AllFiles == {"scope", "log", "manifest", "event", "rest"}

Answers == {"none", "ok", "refused", "failed", "lost"}

-----------------------------------------------------------------------------
(* Approvals. *)
Event(type, pair) == [type |-> type, pair |-> pair]

Live(events) ==
  { events[i].pair : i \in { j \in 1..Len(events) :
      /\ events[j].type = "granted"
      /\ \A k \in j + 1..Len(events) : events[k] # Event("revoked", events[j].pair) } }

ScopedHosts == {h \in Hosts : InScope(scope, HostCandidate(Labels[h]))}

(* grant_approval lets the grant through. *)
AnyTime(pair) ==                                      \* defect: state not asked
  /\ pair[2] = ScopeWide \/ pair[2] \in ScopedHosts
  /\ pair \notin Live(log)

Grantable(pair) ==
  /\ state \in {"scoped", "collecting", "analyzing"}
  /\ pair[1] \in (IF pair[2] = ScopeWide THEN ScopeWideApprovable ELSE Approvable)
  /\ pair[2] # ScopeWide => pair[2] \in ScopedHosts
  /\ pair \notin Live(log)

(* The action type of a tool, and the candidate its call is judged by. *)
ToolAction(tool) ==
  IF tool = "dns_records" THEN "target_enumeration" ELSE "public_source_lookup"

ToolCandidate(tool, host) == IF tool = "epss_score" THEN Target ELSE host

(* authorize_mcp_tool decides "allow". *)
CallAllowed(tool, host) ==
  Allowed(ToolAction(tool), ToolCandidate(tool, host), state, ScopedHosts, Live(log))

(* The events authorize_unattended_active appends, in order. *)
NoCandidateGrants ==                                  \* defect: candidate lost
  << Event("granted", <<"target_read_only_request", NoCandidate>>),
     Event("granted", <<"target_enumeration", NoCandidate>>) >>

UnattendedGrants ==
  << Event("granted", <<"target_read_only_request", ScopeWide>>),
     Event("granted", <<"target_enumeration", ScopeWide>>) >>

-----------------------------------------------------------------------------
(* Requests. *)
Request(op, rules, pair, to, seen) ==
  [op |-> op, rules |-> rules, pair |-> pair, to |-> to, seen |-> seen]

Seen(st, rev, events) == [state |-> st, scopeRev |-> rev, log |-> events]
NothingSeen == Seen(NoState, 0, << >>)

Idle == Request("idle", NoScope, NoPair, NoState, NothingSeen)

(* A run is on the pages when its directory has a manifest that loads. *)
Discovered == "manifest" \in files

(* The scopes the import form is filled in with for this target. *)
Suggested ==
  { SuggestedScope(m) : m \in {k \in Memories : SuggestedTarget(k) = Labels[Target]} }

(* What a client may send, with what its page shows of the run. *)
Sendable ==
  { r \in { Request(op, s, NoPair, NoState, NothingSeen) :
             op \in {"create", "create_unattended"}, s \in Submitted }
         \cup { Request("import", s, NoPair, NoState, NothingSeen) : s \in Suggested } :
    files = {} }
  \cup
  { r \in
    { Request("scope", s, NoPair, NoState, Seen(NoState, scopeRev, << >>)) :
        s \in Submitted }
    \cup
    { Request("grant", NoScope, p, NoState, Seen(state, 0, log)) : p \in Grants }
    \cup
    { Request("revoke", NoScope, p, NoState, Seen(NoState, 0, log)) : p \in Live(log) }
    \cup
    { Request("transition", NoScope, NoPair, s, Seen(state, 0, << >>)) : s \in NewStates }
    \cup
    { Request("invoke", NoScope, p, NoState, Seen(state, scopeRev, log)) : p \in Calls } :
    /\ Discovered
    /\ r.op \in {"grant", "revoke"} => Len(log) < MaxEvents
    /\ r.op = "scope" => scopeRev < MaxRevision }

(* No request is answered in the step. *)
Silent == answer' = "none"

Send(c) ==
  /\ pending[c] = Idle
  /\ \E r \in Sendable : pending' = [pending EXCEPT ![c] = r]
  /\ Silent
  /\ UNCHANGED <<run, server, touched, cli>>

-----------------------------------------------------------------------------
(* Answers.  The handler is done, and so is the client's wait. *)
Done(c, code) ==
  /\ pending' = [pending EXCEPT ![c] = Idle]
  /\ answer' = code

Reply(c, code) == Done(c, code) /\ UNCHANGED <<touched, cli>>

Leave(c, code) == Reply(c, code) /\ UNCHANGED <<run, server>>

(* The handler of c's request runs and finds the mutation lock free. *)
Unserialised(c, op) == pending[c].op = op /\ blocked = Nobody  \* defect: no lock

Serves(c, op) ==
  /\ pending[c].op = op
  /\ blocked = Nobody
  /\ mutationLock = Nobody

(* create_web_run_atomic. *)
NewRun(c, rules) ==
  /\ files' = AllFiles
  /\ scope' = rules
  /\ scopeRev' = 1
  /\ UNCHANGED server

Creatable(rules) == files = {} /\ Acceptable(rules, Labels[Target])

(* A run for the target exists, or its scope does not do. *)
CreateRefused(c) == ~Creatable(pending[c].rules) /\ Leave(c, "refused")

(* create_run, and import_target_run, which goes on to import files (as in *)
(* Review): what fails after the creation leaves the run.  create_run      *)
(* answers a ValueError as it answers a refusal, wherever it comes from.   *)
AfterCreation(op) ==
  {"ok", "failed"} \cup (IF op = "import" THEN {} ELSE {"refused"})

CreateRun(c) ==
  /\ Serves(c, "create") \/ Serves(c, "import")
  /\ \/ CreateRefused(c)
     \/ /\ Creatable(pending[c].rules)
        /\ NewRun(c, pending[c].rules)
        /\ state' = InitialState
        /\ log' = << >>
        /\ \E code \in AfterCreation(pending[c].op) : Reply(c, code)

(* An unattended run goes on to transition and to grant; a failure after   *)
(* `done` of these three steps leaves what they did.                       *)
CreateUnattended(c) ==
  /\ Serves(c, "create_unattended")
  /\ \/ CreateRefused(c)
     \/ /\ Creatable(pending[c].rules)
        /\ NewRun(c, pending[c].rules)
        /\ \E done \in 0..3 :
             /\ state' = IF done = 0 THEN InitialState ELSE "scoped"
             /\ log' = IF done <= 1 THEN << >> ELSE SubSeq(UnattendedGrants, 1, done - 1)
             /\ \E code \in AfterCreation(pending[c].op) :
                  (code = "ok" => done = 3) /\ Reply(c, code)

(* replace_scope: only an initialized run, only the revision the client    *)
(* saw, only rules that keep the target.  The view of the new scope can    *)
(* fail after the replacement.                                             *)
AnyState == TRUE                                      \* defect: not asked
ScopeIsOpen == state = InitialState

Replaceable(request) ==
  /\ request.seen.scopeRev = scopeRev
  /\ Acceptable(request.rules, Labels[Target])
  /\ ~SameRules(request.rules, scope)

ReplaceScope(c) ==
  /\ Serves(c, "scope")
  /\ \/ state = NoState /\ Leave(c, "failed")
     \/ /\ state # NoState
        /\ ~(ScopeIsOpen /\ Replaceable(pending[c]))
        /\ Leave(c, "refused")
     \/ /\ ScopeIsOpen /\ Replaceable(pending[c])
        /\ scope' = pending[c].rules
        /\ scopeRev' = scopeRev + 1
        /\ \E code \in {"ok", "failed"} : Reply(c, code)
        /\ UNCHANGED <<files, state, log, server>>

(* What is left of the registry when a handler fails after it appended:    *)
(* the bytes read before are written back.                                 *)
NotRolledBack(event) == Append(log, event)            \* defect: left there
RolledBack(event)    == log

(* Append to the registry and answer, or fail on the way. *)
RecordApproval(c, event) ==
  /\ \/ log' = Append(log, event) /\ Reply(c, "ok")
     \/ log' = RolledBack(event) /\ Reply(c, "failed")
  /\ UNCHANGED <<files, state, scope, scopeRev, server>>

GrantRoute(c) ==
  LET r == pending[c]
      fresh == r.seen.state = state /\ r.seen.log = log IN
  /\ Serves(c, "grant")
  /\ \/ state = NoState /\ Leave(c, "failed")
     \/ state # NoState /\ ~(fresh /\ Grantable(r.pair)) /\ Leave(c, "refused")
     \/ fresh /\ Grantable(r.pair) /\ RecordApproval(c, Event("granted", r.pair))

(* revoke_approval_route: fresh, so that the grant of that name which is   *)
(* live is the one the client saw.                                         *)
RevokeRoute(c) ==
  LET r == pending[c]
      fresh == r.seen.log = log /\ r.pair \in Live(log) IN
  /\ Serves(c, "revoke")
  /\ \/ ~fresh /\ Leave(c, "refused")
     \/ fresh /\ RecordApproval(c, Event("revoked", r.pair))

(* state_transition: a reason is always given.  The view of the new state  *)
(* can fail after the transition.                                          *)
TransitionRoute(c) ==
  LET r == pending[c]
      valid == r.seen.state = state /\ ValidTransition(state, r.to, "text") IN
  /\ Serves(c, "transition")
  /\ \/ ~valid /\ Leave(c, "refused")
     \/ /\ valid
        /\ state' = r.to
        /\ \E code \in {"ok", "failed"} : Reply(c, code)
        /\ UNCHANGED <<files, scope, scopeRev, log, server>>

(* mcp_invoke_route.  A second call is refused, not queued. *)
InvokeBusy(c) ==
  /\ pending[c].op = "invoke"
  /\ blocked = Nobody
  /\ enrichmentLock \notin {Nobody, c}
  /\ Leave(c, "refused")

CallIsFresh(request) ==
  /\ request.seen = Seen(state, scopeRev, log)
  /\ CallAllowed(request.pair[1], request.pair[2])

InvokeRefused(c) ==
  /\ Serves(c, "invoke")
  /\ enrichmentLock = Nobody
  /\ \/ state = NoState /\ Leave(c, "failed")
     \/ state # NoState /\ ~CallIsFresh(pending[c]) /\ Leave(c, "refused")

(* The provider is called; the handler waits, both locks in hand. *)
InvokeStart(c) ==
  /\ Serves(c, "invoke")
  /\ enrichmentLock = Nobody
  /\ CallIsFresh(pending[c])
  /\ mutationLock' = c
  /\ enrichmentLock' = c
  /\ touched' = FALSE
  /\ Silent
  /\ UNCHANGED <<run, pending, blocked, cli>>

(* The provider has answered or has run out of time. *)
LockKept(c)     == c                                  \* defect: never released
LockReleased(c) == Nobody

InvokeFinish(c) ==
  /\ pending[c].op = "invoke"
  /\ enrichmentLock = c
  /\ blocked = Nobody
  /\ mutationLock' = LockReleased(c)
  /\ enrichmentLock' = Nobody
  /\ \E code \in {"ok", "failed"} : Done(c, code)
  /\ touched' = FALSE
  /\ UNCHANGED <<run, blocked, cli>>

(* A mutation meets the lock an enrichment call holds: the event loop      *)
(* stops in `with mutation_lock`.                                          *)
Block(c) ==
  /\ pending[c].op \notin {"idle", "invoke"}
  /\ blocked = Nobody
  /\ mutationLock # Nobody
  /\ blocked' = c
  /\ Silent
  /\ UNCHANGED <<run, pending, mutationLock, enrichmentLock, touched, cli>>

Handle(c) ==
  \/ CreateRun(c) \/ CreateUnattended(c) \/ ReplaceScope(c)
  \/ GrantRoute(c) \/ RevokeRoute(c) \/ TransitionRoute(c)
  \/ InvokeBusy(c) \/ InvokeRefused(c) \/ InvokeStart(c) \/ Block(c)

(* The process ends and is started again: locks and requests are gone. *)
Restart ==
  /\ \E c \in Clients : pending[c] # Idle
  /\ pending' = [c \in Clients |-> Idle]
  /\ answer' = "lost"
  /\ mutationLock' = Nobody
  /\ enrichmentLock' = Nobody
  /\ blocked' = Nobody
  /\ touched' = FALSE
  /\ UNCHANGED <<run, cli>>

-----------------------------------------------------------------------------
(* The command line. *)
Touch == Silent /\ touched' = (touched \/ mutationLock # Nobody)

CliTransition(new) ==
  /\ state # NoState
  /\ ValidTransition(state, new, "text")
  /\ state' = new
  /\ Touch
  /\ UNCHANGED <<files, scope, scopeRev, log, pending, server, cli>>

CliApproval(event) ==
  /\ Len(log) < MaxEvents
  /\ log' = Append(log, event)
  /\ Touch
  /\ UNCHANGED <<files, state, scope, scopeRev, pending, server, cli>>

CliGrant(pair)  == Grantable(pair) /\ CliApproval(Event("granted", pair))
CliRevoke(pair) == pair \in Live(log) /\ CliApproval(Event("revoked", pair))

(* outrider init, on a directory it may have left half-written before: a   *)
(* file that exists is left as it is.                                      *)
InitStart ==
  /\ cli.at = "off"
  /\ \E auto \in BOOLEAN :
       /\ files # AllFiles \/ (auto /\ log = << >> /\ state \in {InitialState, "scoped"})
       /\ cli' = [at |-> "scope", auto |-> auto]
  /\ Silent
  /\ UNCHANGED <<run, pending, server, touched>>

InitScope ==
  /\ cli.at = "scope"
  /\ \/ "scope" \in files /\ UNCHANGED <<files, scope, scopeRev>>
     \/ /\ "scope" \notin files
        /\ files' = files \cup {"scope"}
        /\ scope' \in Written
        /\ scopeRev' = 0
  /\ cli' = [cli EXCEPT !.at = "log"]
  /\ Touch
  /\ UNCHANGED <<state, log, pending, server>>

InitLog ==
  /\ cli.at = "log"
  /\ files' = files \cup {"log"}
  /\ cli' = [cli EXCEPT !.at = "manifest"]
  /\ Touch
  /\ UNCHANGED <<state, scope, scopeRev, log, pending, server>>

(* initialize_state: the manifest, then the first event.  With a manifest  *)
(* there it is not called, whether or not there is an event.               *)
InitManifest ==
  /\ cli.at = "manifest"
  /\ files' = files \cup {"manifest"}
  /\ cli' = [cli EXCEPT !.at = IF "manifest" \in files THEN "rest" ELSE "event"]
  /\ Touch
  /\ UNCHANGED <<state, scope, scopeRev, log, pending, server>>

InitEvent ==
  /\ cli.at = "event"
  /\ files' = files \cup {"event"}
  /\ state' = InitialState
  /\ cli' = [cli EXCEPT !.at = "rest"]
  /\ Touch
  /\ UNCHANGED <<scope, scopeRev, log, pending, server>>

InitRest ==
  /\ cli.at = "rest"
  /\ files' = files \cup {"rest"}
  /\ cli' = [cli EXCEPT !.at = IF cli.auto THEN "scoped" ELSE "off"]
  /\ Touch
  /\ UNCHANGED <<state, scope, scopeRev, log, pending, server>>

(* authorize_unattended_active, step by step; a refused grant ends it. *)
AutoScoped ==
  /\ cli.at = "scoped"
  /\ state' = IF state = InitialState THEN "scoped" ELSE state
  /\ cli' = [cli EXCEPT !.at = IF state = NoState THEN "off" ELSE "grant"]
  /\ Touch
  /\ UNCHANGED <<files, scope, scopeRev, log, pending, server>>

AutoGrant ==
  /\ cli.at \in {"grant", "second"}
  /\ LET event == UnattendedGrants[IF cli.at = "grant" THEN 1 ELSE 2] IN
     \/ /\ Grantable(event.pair)
        /\ Len(log) < MaxEvents
        /\ log' = Append(log, event)
        /\ cli' = [cli EXCEPT !.at = IF cli.at = "grant" THEN "second" ELSE "off"]
     \/ /\ ~Grantable(event.pair)
        /\ cli' = [cli EXCEPT !.at = "off"]
        /\ UNCHANGED log
  /\ Touch
  /\ UNCHANGED <<files, state, scope, scopeRev, pending, server>>

InitCrash ==
  /\ cli.at # "off"
  /\ cli' = [at |-> "off", auto |-> FALSE]
  /\ Silent
  /\ UNCHANGED <<run, pending, server, touched>>

CliInit ==
  \/ InitStart \/ InitScope \/ InitLog \/ InitManifest \/ InitEvent \/ InitRest
  \/ AutoScoped \/ AutoGrant \/ InitCrash

Cli ==
  \/ CliInit
  \/ \E new \in NewStates : CliTransition(new)
  \/ \E pair \in Grants : CliGrant(pair)
  \/ \E pair \in Live(log) : CliRevoke(pair)

-----------------------------------------------------------------------------
Init ==
  /\ files = {}
  /\ state = NoState
  /\ scope = NoScope
  /\ scopeRev = 0
  /\ log = << >>
  /\ pending = [c \in Clients |-> Idle]
  /\ answer = "none"
  /\ mutationLock = Nobody
  /\ enrichmentLock = Nobody
  /\ blocked = Nobody
  /\ touched = FALSE
  /\ cli = [at |-> "off", auto |-> FALSE]

Next ==
  \/ \E c \in Clients : Send(c) \/ Handle(c) \/ InvokeFinish(c)
  \/ Restart
  \/ Cli

(* The event loop gets round to every request it is able to run, and a     *)
(* provider call ends: its timeouts are fixed.  Nothing obliges clients,   *)
(* the command line or whoever restarts the process.                       *)
Fairness == \A c \in Clients : WF_vars(Handle(c)) /\ WF_vars(InvokeFinish(c))

Spec == Init /\ [][Next]_vars /\ Fairness
-----------------------------------------------------------------------------
Pairs == Grants \cup (ActiveActions \X {ScopeWide})

(* Every variable holds a value of its kind, an event is on record exactly *)
(* when there is a state, and the registry stays within its bound.         *)
TypeOK ==
  /\ files \subseteq AllFiles
  /\ state \in States \cup {NoState}
  /\ "event" \in files <=> state # NoState
  /\ scope \in ScopeChoices \cup {NoScope}
  /\ scopeRev \in 0..MaxRevision
  /\ Len(log) <= MaxEvents
  /\ \A i \in 1..Len(log) :
       log[i].type \in {"granted", "revoked"} /\ log[i].pair \in Pairs
  /\ DOMAIN pending = Clients
  /\ answer \in Answers
  /\ {mutationLock, enrichmentLock, blocked} \subseteq Clients \cup {Nobody}
  /\ touched \in BOOLEAN
  /\ cli.auto \in BOOLEAN

(* On every candidate, complete or not, the decision of the scope in force *)
(* is the one its meaning gives: something the candidate stands for is     *)
(* included, and not all of it is excluded (evaluate_scope).  Rule paths   *)
(* that end in a glob, or have one and a closing slash, are not plain: the *)
(* documents and the engine read them differently (scope.py:389-396).      *)
DecisionMatchesMeaning ==
  scope # NoScope /\ PlainScope(scope) => scope \in FaithfulScopes

(* A URL is known to approvals and contracts by its host: no URL is        *)
(* allowed by a scope that denies the host it is recorded under.           *)
AllowedUrlHasAllowedHost == scope # NoScope => scope \in HostKeyedScopes

(* However often the scope of a run is replaced through the portal, and    *)
(* whoever created the run, the manifest target stays allowed.             *)
TargetStaysAllowed == scopeRev > 0 => Target \in ScopedHosts

(* The form an import is filled in with is one the portal accepts: the     *)
(* target is in the suggested scope, whatever the memory's Target line     *)
(* says (parse_target_memory), unless the table has an asset in two        *)
(* spellings.                                                              *)
SuggestionIsAccepted ==
  \A c \in Clients :
    pending[c].op = "import" =>
      LET rules == pending[c].rules IN
      rules.in # << >> /\ NoDuplicates(rules.in) => Acceptable(rules, Labels[Target])

(* What an approval in force names is in the scope in force: grants come   *)
(* after the scope is confirmed, and the confirmed scope is not replaced.  *)
ApprovedInScope ==
  \A pair \in Live(log) : pair[2] = ScopeWide \/ pair[2] \in ScopedHosts

(* There is no approval before the operator confirmed the scope, nor on a  *)
(* run whose first event was never written, however a creation failed.     *)
ApprovalsFollowScoping == Live(log) # {} => state \notin {NoState, InitialState}

(* While a provider is called, the call stays one the policy would allow   *)
(* now, unless the command line interfered: no handler changes the state,  *)
(* the scope or an approval under it.                                      *)
CallStaysAuthorised ==
  mutationLock # Nobody /\ ~touched =>
    CallAllowed(pending[mutationLock].pair[1], pending[mutationLock].pair[2])

(* A request that is refused, and an approval request that fails, leaves   *)
(* nothing behind; except that a creation which is answered like a refusal *)
(* although there was nothing to refuse it for leaves the run              *)
(* (web_app.py:132-145).                                                   *)
CreatedAllTheSame(request) ==
  request.op \in {"create", "create_unattended"} /\ Creatable(request.rules)

RefusalLeavesNoTrace ==
  [][\A c \in Clients :
       /\ pending[c] # Idle /\ pending'[c] = Idle
       /\ \/ answer' = "refused" /\ ~CreatedAllTheSame(pending[c])
          \/ answer' = "failed" /\ pending[c].op \in {"grant", "revoke"}
       => UNCHANGED run]_vars

(* Every request is answered, unless the event loop stops while an         *)
(* enrichment call holds the lock.                                         *)
AnsweredUnlessCallHoldsLock ==
  \A c \in Clients : pending[c] # Idle ~>
    \/ pending[c] = Idle
    \/ /\ blocked # Nobody
       /\ mutationLock # Nobody
       /\ pending[mutationLock].op = "invoke"

(* Every request is answered: mutations are serialized by the lock, and a  *)
(* provider call ends.                                                     *)
EveryRequestAnswered == \A c \in Clients : pending[c] # Idle ~> pending[c] = Idle
=============================================================================
