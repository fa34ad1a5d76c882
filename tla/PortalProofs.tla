---------------------------- MODULE PortalProofs ----------------------------
(***************************************************************************)
(* Theorems about the portal and the command line on one run, for any      *)
(* hosts, scopes, requests and bounds.  Three things are kept together:    *)
(* what is on disk (an approval is only on record in a run whose scope was *)
(* confirmed, and names what that scope allows), what clients have asked   *)
(* for, and who holds the locks.                                           *)
(***************************************************************************)
EXTENDS Portal, ScopeProofs, SequenceTheorems, FiniteSetTheorems, TLAPS

Records == [type : {"granted", "revoked"}, pair : Pairs]

Ops == {"idle", "create", "create_unattended", "import", "scope", "grant",
        "revoke", "transition", "invoke"}

(* The files are written in order, and `outrider init` knows where it is.  *)
FilesInOrder ==
  /\ files \subseteq AllFiles
  /\ "event" \in files <=> state # NoState
  /\ "event" \in files => "manifest" \in files
  /\ "manifest" \in files => "scope" \in files
  /\ cli \in [at : {"off", "scope", "log", "manifest", "event", "rest", "scoped",
                    "grant", "second"}, auto : BOOLEAN]
  /\ cli.at \notin {"off", "scope"} => "scope" \in files
  /\ cli.at = "event" => "manifest" \in files /\ "event" \notin files

Named(pair) == pair[2] = ScopeWide \/ pair[2] \in ScopedHosts

LogFollowsScope ==
  /\ log \in Seq(Records)
  /\ Len(log) <= MaxEvents
  /\ log # << >> => state \notin {NoState, InitialState}
  /\ \A i \in 1..Len(log) : Named(log[i].pair)

(* What is on disk. *)
Disk ==
  /\ state \in States \cup {NoState}
  /\ scope \in ScopeChoices \cup {NoScope}
  /\ scopeRev \in 0..MaxRevision
  /\ FilesInOrder
  /\ LogFollowsScope
  /\ TargetStaysAllowed

RequestOK(r) ==
  /\ r.op \in Ops
  /\ r.op \in {"create", "create_unattended", "import", "scope"} => r.rules \in ScopeChoices
  /\ r.op = "import" => r.rules \in Suggested
  /\ r.op = "scope" => r.seen.scopeRev < MaxRevision
  /\ r.op \in {"grant", "revoke"} => r.pair \in Pairs /\ Len(r.seen.log) < MaxEvents
  /\ r.op = "transition" => r.to \in States

(* What clients have asked for. *)
Asked ==
  /\ pending = [c \in Clients |-> pending[c]]
  /\ \A c \in Clients : RequestOK(pending[c])

(* Who holds the locks, and for what. *)
Locks ==
  /\ {mutationLock, enrichmentLock, blocked} \subseteq Clients \cup {Nobody}
  /\ enrichmentLock = mutationLock
  /\ mutationLock # Nobody => pending[mutationLock].op = "invoke"
  /\ touched \in BOOLEAN
  /\ answer \in Answers
  /\ CallStaysAuthorised

IInv == Disk /\ Asked /\ Locks

USE HostsAssumption, ScopesAssumption, BoundsAssumption, ClientsAssumption
  DEF Nobody
-----------------------------------------------------------------------------
LEMMA IdleOK == RequestOK(Idle) /\ Idle.op = "idle"
  BY DEF RequestOK, Idle, Request, NothingSeen, Seen, Ops

(* An answer leaves the requests of the others as they are. *)
LEMMA DoneAsked ==
  ASSUME Asked, NEW c \in Clients, NEW code, Done(c, code)
  PROVE  /\ Asked'
         /\ \A d \in Clients : d # c => pending'[d] = pending[d]
         /\ answer' = code
<1>1. pending' = [pending EXCEPT ![c] = Idle] /\ answer' = code
  BY DEF Done
<1>2. pending = [d \in Clients |-> pending[d]]
  BY DEF Asked
<1>3. \A d \in Clients : pending'[d] = IF d = c THEN Idle ELSE pending[d]
  BY <1>1, <1>2
<1>4. pending' = [d \in Clients |-> pending'[d]]
  BY <1>1, <1>2
<1>5. \A d \in Clients : RequestOK(pending'[d])
  BY <1>3, IdleOK DEF Asked
<1> QED BY <1>1, <1>3, <1>4, <1>5 DEF Asked, RequestOK

(* What a call is judged by is the state, the scope and the log. *)
LEMMA CallFrame ==
  ASSUME UNCHANGED <<state, scope, log>>, NEW tool, NEW host
  PROVE  CallAllowed(tool, host)' = CallAllowed(tool, host)
  BY DEF CallAllowed, ScopedHosts

LEMMA DiskFrame ==
  ASSUME Disk, UNCHANGED <<run, cli>>
  PROVE  Disk'
  BY DEF Disk, run, FilesInOrder, LogFollowsScope, TargetStaysAllowed, Named, ScopedHosts

(* A handler that found the lock free and leaves the locks alone. *)
LEMMA FreeLocks ==
  ASSUME Locks, mutationLock = Nobody, UNCHANGED <<server, touched>>,
         answer' \in Answers
  PROVE  Locks'
  BY DEF Locks, server, CallStaysAuthorised

(* A step that leaves the run, the locks and the request under way alone. *)
LEMMA HeldLocks ==
  ASSUME Locks, UNCHANGED <<run, server, touched>>, answer' \in Answers,
         mutationLock # Nobody => pending'[mutationLock] = pending[mutationLock]
  PROVE  Locks'
<1>1. UNCHANGED <<state, scope, log, mutationLock, enrichmentLock, blocked, touched>>
  BY DEF run, server
<1>2. CallStaysAuthorised'
  BY <1>1, CallFrame DEF CallStaysAuthorised, Locks
<1> QED BY <1>1, <1>2 DEF Locks

-----------------------------------------------------------------------------
(* The parts of what is on disk, one at a time. *)
LEMMA FilesFrame ==
  ASSUME FilesInOrder, UNCHANGED <<files, cli>>, state' = NoState <=> state = NoState
  PROVE  FilesInOrder'
  BY DEF FilesInOrder

LEMMA TargetFrame ==
  ASSUME TargetStaysAllowed, UNCHANGED <<scope, scopeRev>>
  PROVE  TargetStaysAllowed'
  BY DEF TargetStaysAllowed, ScopedHosts

LEMMA LogFrame ==
  ASSUME LogFollowsScope, UNCHANGED <<log, scope>>,
         state' \in {NoState, InitialState} => state \in {NoState, InitialState}
  PROVE  LogFollowsScope'
  BY DEF LogFollowsScope, Named, ScopedHosts

(* Without approvals any scope will do. *)
LEMMA EmptyLog ==
  ASSUME log' = << >>
  PROVE  LogFollowsScope'
<1>1. log' \in Seq(Records) /\ Len(log') = 0
  OBVIOUS
<1> QED BY <1>1 DEF LogFollowsScope

LEMMA LogGrows ==
  ASSUME LogFollowsScope, NEW e \in Records, Named(e.pair), Len(log) < MaxEvents,
         state \notin {NoState, InitialState}, log' = Append(log, e),
         UNCHANGED <<state, scope>>
  PROVE  LogFollowsScope'
<1>1. /\ log \in Seq(Records) /\ Len(log) \in Nat
      /\ \A i \in 1..Len(log) : Named(log[i].pair)
  BY DEF LogFollowsScope
<1>2. /\ log' \in Seq(Records) /\ Len(log') = Len(log) + 1
      /\ log'[Len(log) + 1] = e
      /\ \A i \in 1..Len(log) : log'[i] = log[i]
  BY <1>1
<1>3. \A i \in 1..Len(log') : Named(log'[i].pair)
  <2> TAKE i \in 1..Len(log')
  <2>1. i = Len(log) + 1 \/ i \in 1..Len(log)
    BY <1>1, <1>2
  <2> QED BY <1>1, <1>2, <2>1
<1>4. \A i \in 1..Len(log') : Named(log[i].pair)' <=> Named(log'[i].pair)
  BY DEF Named, ScopedHosts
<1>5. \A i \in 1..Len(log') : (Named(log[i].pair))'
  BY <1>3, <1>4
<1>6. Len(log') <= MaxEvents
  BY <1>1, <1>2
<1> QED BY <1>2, <1>5, <1>6 DEF LogFollowsScope

(* What is live is on record. *)
LEMMA LiveRecorded ==
  ASSUME log \in Seq(Records), NEW pair \in Live(log)
  PROVE  /\ pair \in Pairs
         /\ \E i \in 1..Len(log) : log[i].pair = pair
<1>1. PICK i \in 1..Len(log) : pair = log[i].pair
  BY DEF Live
<1>2. log[i] \in Records
  BY <1>1
<1>3. log[i].pair \in Pairs
  BY <1>2 DEF Records
<1> QED BY <1>1, <1>3

LEMMA PairsTyped ==
  /\ \A type \in {"granted", "revoked"}, pair \in Pairs : Event(type, pair) \in Records
  /\ \A type, pair : Event(type, pair).pair = pair
  BY DEF Event, Records

-----------------------------------------------------------------------------
(* Handlers.  One that refuses leaves everything as it is. *)
LEMMA LeaveKeeps ==
  ASSUME IInv, NEW c \in Clients, NEW code \in Answers, Leave(c, code),
         mutationLock = Nobody \/ c # mutationLock
  PROVE  IInv'
<1>1. Done(c, code) /\ UNCHANGED <<run, server, touched, cli>>
  BY DEF Leave, Reply
<1>2. Asked' /\ answer' = code /\ \A d \in Clients : d # c => pending'[d] = pending[d]
  BY <1>1, DoneAsked DEF IInv
<1>3. Disk'
  BY <1>1, DiskFrame DEF IInv
<1>4. mutationLock \in Clients \cup {Nobody}
  BY DEF IInv, Locks
<1>5. Locks'
  BY <1>1, <1>2, <1>4, HeldLocks DEF IInv
<1> QED BY <1>2, <1>3, <1>5 DEF IInv

(* One that found the lock free and answers. *)
LEMMA ReplyKeeps ==
  ASSUME IInv, NEW c \in Clients, NEW code \in Answers, Reply(c, code),
         mutationLock = Nobody, UNCHANGED server, Disk'
  PROVE  IInv'
<1>1. Done(c, code) /\ UNCHANGED <<touched, cli>>
  BY DEF Reply
<1>2. Asked' /\ answer' = code
  BY <1>1, DoneAsked DEF IInv
<1>3. Locks'
  BY <1>1, <1>2, FreeLocks DEF IInv
<1> QED BY <1>2, <1>3 DEF IInv

LEMMA StatesFacts ==
  /\ NoState \notin States
  /\ {InitialState, "scoped"} \subseteq States
  /\ InitialState # "scoped" /\ NoState # InitialState
  /\ \A from, to : ValidTransition(from, to, "text") =>
       /\ from \in States /\ to \in States /\ to # InitialState
  BY DEF NoState, States, InitialState, ValidTransition, AllowedTransitions

LEMMA UnattendedLog ==
  \A done \in 2..3 :
    LET q == SubSeq(UnattendedGrants, 1, done - 1) IN
    /\ q \in Seq(Records)
    /\ Len(q) = done - 1
    /\ \A i \in 1..Len(q) : q[i].pair[2] = ScopeWide
<1> DEFINE e1 == Event("granted", <<"target_read_only_request", ScopeWide>>)
           e2 == Event("granted", <<"target_enumeration", ScopeWide>>)
<1>1. e1 \in Records /\ e2 \in Records /\ e1.pair[2] = ScopeWide /\ e2.pair[2] = ScopeWide
  BY DEF Event, Records, Pairs, ActiveActions
<1> HIDE DEF e1, e2
<1>2. UnattendedGrants = <<e1, e2>>
  BY DEF UnattendedGrants, e1, e2
<1> QED
  <2> SUFFICES ASSUME NEW done \in 2..3
               PROVE  LET q == SubSeq(<<e1, e2>>, 1, done - 1) IN
                        /\ q \in Seq(Records)
                        /\ Len(q) = done - 1
                        /\ \A i \in 1..Len(q) : q[i].pair[2] = ScopeWide
    BY <1>2
  <2>1. <<e1, e2>> \in Seq(Records) /\ Len(<<e1, e2>>) = 2
    BY <1>1
  <2>2. \A i \in 1..2 : <<e1, e2>>[i].pair[2] = ScopeWide
    <3> TAKE i \in 1..2
    <3>1. i = 1 \/ i = 2
      OBVIOUS
    <3> QED BY <1>1, <3>1
  <2> DEFINE s == <<e1, e2>>
  <2> HIDE DEF s
  <2>3. s \in Seq(Records) /\ Len(s) = 2 /\ \A i \in 1..2 : s[i].pair[2] = ScopeWide
    BY <2>1, <2>2 DEF s
  <2>4. /\ SubSeq(s, 1, done - 1) \in Seq(Records)
        /\ Len(SubSeq(s, 1, done - 1)) = done - 1
        /\ \A i \in 1..done - 1 : SubSeq(s, 1, done - 1)[i] = s[i]
    BY <2>3, SubSeqProperties
  <2>5. \A i \in 1..done - 1 : i \in 1..2
    OBVIOUS
  <2> QED BY <2>3, <2>4, <2>5 DEF s

(* A new run: only scope-wide approvals, and only once it is scoped. *)
LEMMA NewRunDisk ==
  ASSUME Disk, NEW c, NEW rules \in ScopeChoices, Creatable(rules), NewRun(c, rules),
         UNCHANGED cli, state' \in {InitialState, "scoped"},
         \/ log' = << >>
         \/ /\ state' = "scoped"
            /\ log' \in Seq(Records)
            /\ Len(log') <= MaxEvents
            /\ \A i \in 1..Len(log') : log'[i].pair[2] = ScopeWide
  PROVE  Disk'
<1>1. files = {} /\ files' = AllFiles /\ scope' = rules /\ scopeRev' = 1
  BY DEF Creatable, NewRun
<1>2. FilesInOrder'
  BY <1>1, StatesFacts DEF FilesInOrder, Disk, AllFiles
<1>3. TargetStaysAllowed'
  BY <1>1 DEF TargetStaysAllowed, ScopedHosts, Creatable, Acceptable
<1>4. LogFollowsScope'
  <2>1. CASE log' = << >>
    BY <2>1, EmptyLog
  <2>2. CASE /\ state' = "scoped"
             /\ log' \in Seq(Records)
             /\ Len(log') <= MaxEvents
             /\ \A i \in 1..Len(log') : log'[i].pair[2] = ScopeWide
    BY <2>2, StatesFacts DEF LogFollowsScope, Named
  <2> QED BY <2>1, <2>2
<1>5. state' \in States
  BY StatesFacts
<1> QED BY <1>1, <1>2, <1>3, <1>4, <1>5 DEF Disk

LEMMA CreateRunKeeps ==
  ASSUME IInv, NEW c \in Clients, CreateRun(c)
  PROVE  IInv'
<1>1. mutationLock = Nobody /\ pending[c].op \in {"create", "import"}
  BY DEF CreateRun, Serves
<1>2. CASE CreateRefused(c)
  BY <1>1, <1>2, LeaveKeeps DEF CreateRefused, Answers
<1>3. CASE ~CreateRefused(c)
  <2>1. /\ Creatable(pending[c].rules) /\ NewRun(c, pending[c].rules)
        /\ state' = InitialState /\ log' = << >>
    BY <1>3 DEF CreateRun
  <2>2. PICK code \in {"ok", "failed", "refused"} : Reply(c, code)
    BY <1>3 DEF CreateRun, AfterCreation
  <2>3. pending[c].rules \in ScopeChoices
    BY <1>1 DEF IInv, Asked, RequestOK
  <2>4. Disk'
    BY <2>1, <2>2, <2>3, NewRunDisk DEF IInv, Reply
  <2> QED BY <1>1, <2>1, <2>2, <2>4, ReplyKeeps DEF Answers, NewRun
<1> QED BY <1>2, <1>3

LEMMA CreateUnattendedKeeps ==
  ASSUME IInv, NEW c \in Clients, CreateUnattended(c)
  PROVE  IInv'
<1>1. mutationLock = Nobody /\ pending[c].op = "create_unattended"
  BY DEF CreateUnattended, Serves
<1>2. CASE CreateRefused(c)
  BY <1>1, <1>2, LeaveKeeps DEF CreateRefused, Answers
<1>3. CASE ~CreateRefused(c)
  <2>1. Creatable(pending[c].rules) /\ NewRun(c, pending[c].rules)
    BY <1>3 DEF CreateUnattended
  <2>2. PICK done \in 0..3 :
          /\ state' = IF done = 0 THEN InitialState ELSE "scoped"
          /\ log' = IF done <= 1 THEN << >> ELSE SubSeq(UnattendedGrants, 1, done - 1)
          /\ \E code \in AfterCreation(pending[c].op) : Reply(c, code)
    BY <1>3 DEF CreateUnattended
  <2>3. PICK code \in Answers : Reply(c, code)
    BY <2>2 DEF Answers, AfterCreation
  <2>4. pending[c].rules \in ScopeChoices
    BY <1>1 DEF IInv, Asked, RequestOK
  <2>5. \/ log' = << >>
        \/ /\ state' = "scoped"
           /\ log' \in Seq(Records)
           /\ Len(log') <= MaxEvents
           /\ \A i \in 1..Len(log') : log'[i].pair[2] = ScopeWide
    <3>1. CASE done \in 0..1
      BY <2>2, <3>1
    <3>2. CASE done \in 2..3
      <4>1. /\ log' \in Seq(Records) /\ Len(log') = done - 1
            /\ \A i \in 1..Len(log') : log'[i].pair[2] = ScopeWide
        BY <2>2, <3>2, UnattendedLog
      <4>2. Len(log') <= MaxEvents
        BY <3>2, <4>1
      <4> QED BY <2>2, <3>2, <4>1, <4>2
    <3> QED BY <3>1, <3>2
  <2>6. Disk'
    BY <2>1, <2>2, <2>3, <2>4, <2>5, NewRunDisk DEF IInv, Reply
  <2> QED BY <1>1, <2>1, <2>3, <2>6, ReplyKeeps DEF NewRun
<1> QED BY <1>2, <1>3

(* The scope is only replaced while there is nothing on record to go stale. *)
LEMMA ReplaceScopeKeeps ==
  ASSUME IInv, NEW c \in Clients, ReplaceScope(c)
  PROVE  IInv'
<1>1. mutationLock = Nobody /\ pending[c].op = "scope"
  BY DEF ReplaceScope, Serves
<1>2. CASE Leave(c, "failed") \/ Leave(c, "refused")
  BY <1>1, <1>2, LeaveKeeps DEF Answers
<1>3. CASE ~(Leave(c, "failed") \/ Leave(c, "refused"))
  <2>1. /\ ScopeIsOpen /\ Replaceable(pending[c])
        /\ scope' = pending[c].rules /\ scopeRev' = scopeRev + 1
        /\ UNCHANGED <<files, state, log, server>>
    BY <1>3 DEF ReplaceScope
  <2>2. PICK code \in {"ok", "failed"} : Reply(c, code)
    BY <1>3 DEF ReplaceScope
  <2>3. pending[c].rules \in ScopeChoices /\ pending[c].seen.scopeRev < MaxRevision
    BY <1>1 DEF IInv, Asked, RequestOK
  <2>4. scope' \in ScopeChoices /\ scopeRev' \in 0..MaxRevision
    BY <2>1, <2>3 DEF IInv, Disk, Replaceable
  <2>5. FilesInOrder'
    BY <2>1, <2>2, FilesFrame DEF IInv, Disk, Reply
  <2>6. TargetStaysAllowed'
    BY <2>1 DEF TargetStaysAllowed, ScopedHosts, Replaceable, Acceptable
  <2>7. LogFollowsScope'
    BY <2>1, EmptyLog DEF IInv, Disk, LogFollowsScope, ScopeIsOpen
  <2>8. Disk'
    BY <2>1, <2>4, <2>5, <2>6, <2>7 DEF IInv, Disk
  <2> QED BY <1>1, <2>1, <2>2, <2>8, ReplyKeeps DEF Answers
<1> QED BY <1>2, <1>3

(* What a grant or a revocation by the portal adds to the registry. *)
LEMMA RecordApprovalKeeps ==
  ASSUME IInv, NEW c \in Clients, mutationLock = Nobody, NEW event \in Records,
         Named(event.pair), Len(log) < MaxEvents,
         state \notin {NoState, InitialState}, RecordApproval(c, event)
  PROVE  IInv'
<1>1. UNCHANGED <<files, state, scope, scopeRev, server>>
  BY DEF RecordApproval
<1>2. PICK code \in {"ok", "failed"} : Reply(c, code)
  BY DEF RecordApproval
<1>3. LogFollowsScope'
  <2>1. CASE log' = Append(log, event)
    BY <1>1, <2>1, LogGrows DEF IInv, Disk
  <2>2. CASE log' = log
    BY <1>1, <2>2, LogFrame DEF IInv, Disk
  <2> QED BY <2>1, <2>2 DEF RecordApproval, RolledBack
<1>4. FilesInOrder' /\ TargetStaysAllowed'
  BY <1>1, <1>2, FilesFrame, TargetFrame DEF IInv, Disk, Reply
<1>5. Disk'
  BY <1>1, <1>3, <1>4 DEF IInv, Disk
<1> QED BY <1>1, <1>2, <1>5, ReplyKeeps DEF Answers

(* A grant that policy lets through: in a scoped run, for what is allowed. *)
LEMMA GrantableNamed ==
  ASSUME NEW pair, Grantable(pair)
  PROVE  Named(pair) /\ state \notin {NoState, InitialState}
  BY DEF Grantable, Named, NoState, InitialState

(* A grant that is live is on record, in a scoped run. *)
LEMMA LiveNamed ==
  ASSUME Disk, NEW pair \in Live(log)
  PROVE  pair \in Pairs /\ Named(pair) /\ state \notin {NoState, InitialState}
<1>1. log \in Seq(Records)
  BY DEF Disk, LogFollowsScope
<1>2. pair \in Pairs /\ \E i \in 1..Len(log) : log[i].pair = pair
  BY <1>1, LiveRecorded
<1>3. log # << >>
  BY <1>1, <1>2
<1> QED BY <1>2, <1>3 DEF Disk, LogFollowsScope

LEMMA GrantKeeps ==
  ASSUME IInv, NEW c \in Clients, GrantRoute(c)
  PROVE  IInv'
<1>1. mutationLock = Nobody /\ pending[c].op = "grant"
  BY DEF GrantRoute, Serves
<1>2. CASE Leave(c, "failed") \/ Leave(c, "refused")
  BY <1>1, <1>2, LeaveKeeps DEF Answers
<1>3. CASE ~(Leave(c, "failed") \/ Leave(c, "refused"))
  <2>1. /\ pending[c].seen.log = log /\ Grantable(pending[c].pair)
        /\ RecordApproval(c, Event("granted", pending[c].pair))
    BY <1>3 DEF GrantRoute
  <2>2. pending[c].pair \in Pairs /\ Len(log) < MaxEvents
    BY <1>1, <2>1 DEF IInv, Asked, RequestOK
  <2>3. Event("granted", pending[c].pair) \in Records
    BY <2>2, PairsTyped
  <2>4. Event("granted", pending[c].pair).pair = pending[c].pair
    BY PairsTyped
  <2>5. Named(pending[c].pair) /\ state \notin {NoState, InitialState}
    BY <2>1, GrantableNamed
  <2> QED BY <1>1, <2>1, <2>2, <2>3, <2>4, <2>5, RecordApprovalKeeps
<1> QED BY <1>2, <1>3

LEMMA RevokeKeeps ==
  ASSUME IInv, NEW c \in Clients, RevokeRoute(c)
  PROVE  IInv'
<1>1. mutationLock = Nobody /\ pending[c].op = "revoke"
  BY DEF RevokeRoute, Serves
<1>2. CASE Leave(c, "refused")
  BY <1>1, <1>2, LeaveKeeps DEF Answers
<1>3. CASE ~Leave(c, "refused")
  <2>1. /\ pending[c].seen.log = log /\ pending[c].pair \in Live(log)
        /\ RecordApproval(c, Event("revoked", pending[c].pair))
    BY <1>3 DEF RevokeRoute
  <2>2. Len(log) < MaxEvents
    BY <1>1, <2>1 DEF IInv, Asked, RequestOK
  <2>3. /\ pending[c].pair \in Pairs /\ Named(pending[c].pair)
        /\ state \notin {NoState, InitialState}
    BY <2>1, LiveNamed DEF IInv
  <2>4. /\ Event("revoked", pending[c].pair) \in Records
        /\ Event("revoked", pending[c].pair).pair = pending[c].pair
    BY <2>3, PairsTyped
  <2> QED BY <1>1, <2>1, <2>2, <2>3, <2>4, RecordApprovalKeeps
<1> QED BY <1>2, <1>3

(* No transition leads back to the state before the scope was confirmed. *)
LEMMA TransitionKeeps ==
  ASSUME IInv, NEW c \in Clients, TransitionRoute(c)
  PROVE  IInv'
<1>1. mutationLock = Nobody /\ pending[c].op = "transition"
  BY DEF TransitionRoute, Serves
<1>2. CASE Leave(c, "refused")
  BY <1>1, <1>2, LeaveKeeps DEF Answers
<1>3. CASE ~Leave(c, "refused")
  <2>1. /\ ValidTransition(state, pending[c].to, "text")
        /\ state' = pending[c].to
        /\ UNCHANGED <<files, scope, scopeRev, log, server>>
    BY <1>3 DEF TransitionRoute
  <2>2. PICK code \in {"ok", "failed"} : Reply(c, code)
    BY <1>3 DEF TransitionRoute
  <2>3. state \in States /\ state' \in States /\ state' # InitialState
    BY <2>1, StatesFacts
  <2>4. FilesInOrder' /\ TargetStaysAllowed' /\ LogFollowsScope'
    BY <2>1, <2>2, <2>3, StatesFacts, FilesFrame, TargetFrame, LogFrame
    DEF IInv, Disk, Reply
  <2>5. Disk'
    BY <2>1, <2>3, <2>4 DEF IInv, Disk
  <2> QED BY <1>1, <2>1, <2>2, <2>5, ReplyKeeps DEF Answers
<1> QED BY <1>2, <1>3

(* The enrichment call: refused, or started with both locks taken. *)
LEMMA InvokeRefusals ==
  ASSUME IInv, NEW c \in Clients, InvokeBusy(c) \/ InvokeRefused(c)
  PROVE  IInv'
<1>1. CASE InvokeBusy(c)
  <2>1. c # mutationLock
    BY <1>1 DEF InvokeBusy, IInv, Locks
  <2> QED BY <1>1, <2>1, LeaveKeeps DEF InvokeBusy, Answers
<1>2. CASE InvokeRefused(c)
  <2>1. mutationLock = Nobody
    BY <1>2 DEF InvokeRefused, Serves
  <2> QED BY <1>2, <2>1, LeaveKeeps DEF InvokeRefused, Answers
<1> QED BY <1>1, <1>2

LEMMA InvokeStartKeeps ==
  ASSUME IInv, NEW c \in Clients, InvokeStart(c)
  PROVE  IInv'
<1>1. /\ pending[c].op = "invoke" /\ CallIsFresh(pending[c])
      /\ mutationLock' = c /\ enrichmentLock' = c /\ touched' = FALSE
      /\ answer' = "none"
      /\ UNCHANGED <<run, pending, blocked, cli>>
  BY DEF InvokeStart, Serves, Silent
<1>2. UNCHANGED <<state, scope, log>>
  BY <1>1 DEF run
<1>3. CallStaysAuthorised'
  BY <1>1, <1>2, CallFrame DEF CallStaysAuthorised, CallIsFresh
<1>4. Locks'
  BY <1>1, <1>3 DEF IInv, Locks, Answers
<1>5. Disk'
  BY <1>1, DiskFrame DEF IInv
<1> QED BY <1>1, <1>4, <1>5 DEF IInv, Asked, RequestOK

LEMMA InvokeFinishKeeps ==
  ASSUME IInv, NEW c \in Clients, InvokeFinish(c)
  PROVE  IInv'
<1>1. /\ mutationLock' = "nobody" /\ enrichmentLock' = "nobody" /\ touched' = FALSE
      /\ UNCHANGED <<run, blocked, cli>>
  BY DEF InvokeFinish, LockReleased
<1>2. PICK code \in {"ok", "failed"} : Done(c, code)
  BY DEF InvokeFinish
<1>3. Asked' /\ answer' = code
  BY <1>2, DoneAsked DEF IInv
<1>4. Locks'
  BY <1>1, <1>2, <1>3 DEF IInv, Locks, Answers, CallStaysAuthorised
<1>5. Disk'
  BY <1>1, DiskFrame DEF IInv
<1> QED BY <1>3, <1>4, <1>5 DEF IInv

LEMMA BlockKeeps ==
  ASSUME IInv, NEW c \in Clients, Block(c)
  PROVE  IInv'
<1>1. /\ blocked' = c /\ answer' = "none"
      /\ UNCHANGED <<run, pending, mutationLock, enrichmentLock, touched, cli>>
  BY DEF Block, Silent
<1>2. UNCHANGED <<state, scope, log>>
  BY <1>1 DEF run
<1>3. CallStaysAuthorised'
  BY <1>1, <1>2, CallFrame DEF CallStaysAuthorised, IInv, Locks
<1>4. Locks'
  BY <1>1, <1>3 DEF IInv, Locks, Answers
<1>5. Disk'
  BY <1>1, DiskFrame DEF IInv
<1> QED BY <1>1, <1>4, <1>5 DEF IInv, Asked, RequestOK

-----------------------------------------------------------------------------
(* Clients.  What a page offers is well formed. *)
LEMMA SendableOK ==
  ASSUME IInv, NEW r \in Sendable
  PROVE  RequestOK(r)
<1> USE DEF Request, Seen, NothingSeen, Ops
<1>1. scopeRev \in Nat /\ state \in States \cup {NoState}
  BY DEF IInv, Disk
<1>2. CASE \E op \in {"create", "create_unattended"}, s \in Submitted :
             r = Request(op, s, NoPair, NoState, NothingSeen)
  BY <1>2 DEF RequestOK
<1>3. CASE \E s \in Suggested : r = Request("import", s, NoPair, NoState, NothingSeen)
  <2>1. Suggested \subseteq ScopeChoices
    BY DEF Suggested
  <2> QED BY <1>3, <2>1 DEF RequestOK
<1>4. CASE /\ r.op = "scope" => scopeRev < MaxRevision
           /\ \E s \in Submitted :
                r = Request("scope", s, NoPair, NoState, Seen(NoState, scopeRev, << >>))
  BY <1>4 DEF RequestOK
<1>5. CASE /\ r.op \in {"grant", "revoke"} => Len(log) < MaxEvents
           /\ \E p \in Grants : r = Request("grant", NoScope, p, NoState, Seen(state, 0, log))
  BY <1>5 DEF RequestOK, Pairs
<1>6. CASE /\ r.op \in {"grant", "revoke"} => Len(log) < MaxEvents
           /\ \E p \in Live(log) :
                r = Request("revoke", NoScope, p, NoState, Seen(NoState, 0, log))
  <2>1. \A p \in Live(log) : p \in Pairs
    BY LiveNamed DEF IInv
  <2> QED BY <1>6, <2>1 DEF RequestOK
<1>7. CASE \E s \in NewStates :
             r = Request("transition", NoScope, NoPair, s, Seen(state, 0, << >>))
  BY <1>7, NewStatesAssumption DEF RequestOK
<1>8. CASE \E p \in Calls :
             r = Request("invoke", NoScope, p, NoState, Seen(state, scopeRev, log))
  BY <1>8 DEF RequestOK
<1> QED BY <1>2, <1>3, <1>4, <1>5, <1>6, <1>7, <1>8 DEF Sendable

LEMMA SendKeeps ==
  ASSUME IInv, NEW c \in Clients, Send(c)
  PROVE  IInv'
<1>1. /\ pending[c] = Idle /\ answer' = "none"
      /\ UNCHANGED <<run, server, touched, cli>>
  BY DEF Send, Silent
<1>2. PICK r \in Sendable : pending' = [pending EXCEPT ![c] = r]
  BY DEF Send
<1>3. RequestOK(r)
  BY SendableOK
<1>4. pending = [d \in Clients |-> pending[d]] /\ \A d \in Clients : RequestOK(pending[d])
  BY DEF IInv, Asked
<1>5. \A d \in Clients : pending'[d] = IF d = c THEN r ELSE pending[d]
  BY <1>2, <1>4
<1>6. pending' = [d \in Clients |-> pending'[d]]
  BY <1>2, <1>4
<1>7. \A d \in Clients : RequestOK(pending'[d])
  BY <1>3, <1>4, <1>5
<1>8. Asked'
  BY <1>6, <1>7 DEF Asked, RequestOK
<1>9. mutationLock # Nobody => mutationLock \in Clients /\ mutationLock # c
  BY <1>1, IdleOK DEF IInv, Locks
<1>10. Locks'
  BY <1>1, <1>5, <1>9, HeldLocks DEF IInv, Answers
<1>11. Disk'
  BY <1>1, DiskFrame DEF IInv
<1> QED BY <1>8, <1>10, <1>11 DEF IInv

LEMMA RestartKeeps ==
  ASSUME IInv, Restart
  PROVE  IInv'
<1>1. Asked'
  BY IdleOK DEF Restart, Asked, RequestOK
<1>2. Locks'
  BY DEF Restart, IInv, Locks, Answers, CallStaysAuthorised
<1>3. Disk'
  BY DiskFrame DEF Restart, IInv
<1> QED BY <1>1, <1>2, <1>3 DEF IInv

-----------------------------------------------------------------------------
(* The command line takes no lock: it leaves word that it interfered. *)
LEMMA TouchKeeps ==
  ASSUME IInv, Touch, UNCHANGED <<pending, server>>, Disk'
  PROVE  IInv'
<1>1. /\ touched' = (touched \/ mutationLock # "nobody") /\ answer' = "none"
      /\ UNCHANGED <<pending, mutationLock, enrichmentLock, blocked>>
  BY DEF Touch, Silent, server
<1>2. Asked'
  BY <1>1 DEF IInv, Asked, RequestOK
<1>3. CallStaysAuthorised'
  BY <1>1 DEF CallStaysAuthorised, IInv, Locks
<1>4. Locks'
  BY <1>1, <1>3 DEF IInv, Locks, Answers
<1> QED BY <1>2, <1>4 DEF IInv

LEMMA CliTransitionKeeps ==
  ASSUME IInv, NEW new, CliTransition(new)
  PROVE  IInv'
<1>1. /\ ValidTransition(state, new, "text") /\ state' = new
      /\ UNCHANGED <<files, scope, scopeRev, log, pending, server, cli>>
      /\ Touch
  BY DEF CliTransition
<1>2. state \in States /\ state' \in States /\ state' # InitialState
  BY <1>1, StatesFacts
<1>3. FilesInOrder' /\ TargetStaysAllowed' /\ LogFollowsScope'
  BY <1>1, <1>2, StatesFacts, FilesFrame, TargetFrame, LogFrame DEF IInv, Disk
<1>4. Disk'
  BY <1>1, <1>2, <1>3 DEF IInv, Disk
<1> QED BY <1>1, <1>4, TouchKeeps

LEMMA CliApprovalKeeps ==
  ASSUME IInv, NEW event \in Records, Named(event.pair),
         state \notin {NoState, InitialState}, CliApproval(event)
  PROVE  IInv'
<1>1. /\ Len(log) < MaxEvents /\ log' = Append(log, event) /\ Touch
      /\ UNCHANGED <<files, state, scope, scopeRev, pending, server, cli>>
  BY DEF CliApproval
<1>2. FilesInOrder' /\ TargetStaysAllowed' /\ LogFollowsScope'
  BY <1>1, FilesFrame, TargetFrame, LogGrows DEF IInv, Disk
<1>3. Disk'
  BY <1>1, <1>2 DEF IInv, Disk
<1> QED BY <1>1, <1>3, TouchKeeps

LEMMA CliGrantKeeps ==
  ASSUME IInv, NEW pair \in Grants, CliGrant(pair)
  PROVE  IInv'
<1>1. Grantable(pair) /\ CliApproval(Event("granted", pair))
  BY DEF CliGrant
<1>2. /\ Event("granted", pair) \in Records
      /\ Event("granted", pair).pair = pair
  BY PairsTyped DEF Pairs
<1> QED BY <1>1, <1>2, GrantableNamed, CliApprovalKeeps

LEMMA CliRevokeKeeps ==
  ASSUME IInv, NEW pair \in Live(log), CliRevoke(pair)
  PROVE  IInv'
<1>1. CliApproval(Event("revoked", pair))
  BY DEF CliRevoke
<1>2. pair \in Pairs /\ Named(pair) /\ state \notin {NoState, InitialState}
  BY LiveNamed DEF IInv
<1>3. /\ Event("revoked", pair) \in Records
      /\ Event("revoked", pair).pair = pair
  BY <1>2, PairsTyped
<1> QED BY <1>1, <1>2, <1>3, CliApprovalKeeps

(* A step of `outrider init` that leaves the rules and the registry as     *)
(* they are, and does not go back behind the confirmation of the scope.    *)
LEMMA InitStepDisk ==
  ASSUME Disk, UNCHANGED <<scope, scopeRev, log>>, FilesInOrder',
         state' \in States \cup {NoState},
         state' \in {NoState, InitialState} => state \in {NoState, InitialState}
  PROVE  Disk'
  BY TargetFrame, LogFrame DEF Disk

LEMMA InitStepKeeps ==
  ASSUME IInv, InitScope \/ InitLog \/ InitManifest \/ InitEvent \/ InitRest
  PROVE  IInv'
<1> USE DEF IInv, Disk, FilesInOrder, AllFiles
<1>1. CASE InitScope
  <2>1. CASE "scope" \in files
    BY <1>1, <2>1, InitStepDisk, TouchKeeps DEF InitScope
  <2>2. CASE "scope" \notin files
    <3>1. state = NoState /\ state' = state /\ log' = log
      BY <1>1, <2>2 DEF InitScope
    <3>2. log' = << >>
      BY <3>1 DEF LogFollowsScope
    <3>3. LogFollowsScope'
      BY <3>2, EmptyLog
    <3>4. FilesInOrder'
      BY <1>1, <2>2 DEF InitScope
    <3>5. scope' \in ScopeChoices /\ scopeRev' = 0 /\ TargetStaysAllowed'
      BY <1>1, <2>2 DEF InitScope, TargetStaysAllowed
    <3>6. Disk'
      BY <3>1, <3>3, <3>4, <3>5
    <3> QED BY <1>1, <3>6, TouchKeeps DEF InitScope
  <2> QED BY <2>1, <2>2
<1>2. CASE InitLog
  <2>1. FilesInOrder' /\ UNCHANGED <<state, scope, scopeRev, log>>
    BY <1>2 DEF InitLog
  <2> QED BY <1>2, <2>1, InitStepDisk, TouchKeeps DEF InitLog
<1>3. CASE InitManifest
  <2>1. FilesInOrder' /\ UNCHANGED <<state, scope, scopeRev, log>>
    BY <1>3 DEF InitManifest
  <2> QED BY <1>3, <2>1, InitStepDisk, TouchKeeps DEF InitManifest
<1>4. CASE InitEvent
  <2>1. FilesInOrder' /\ state' \in States /\ state = NoState
    BY <1>4, StatesFacts DEF InitEvent
  <2>2. UNCHANGED <<scope, scopeRev, log>>
    BY <1>4 DEF InitEvent
  <2> QED BY <1>4, <2>1, <2>2, InitStepDisk, TouchKeeps DEF InitEvent
<1>5. CASE InitRest
  <2>1. FilesInOrder' /\ UNCHANGED <<state, scope, scopeRev, log>>
    BY <1>5 DEF InitRest
  <2> QED BY <1>5, <2>1, InitStepDisk, TouchKeeps DEF InitRest
<1> QED BY <1>1, <1>2, <1>3, <1>4, <1>5

(* Unattended authorization by the command line. *)
LEMMA AutoKeeps ==
  ASSUME IInv, AutoScoped \/ AutoGrant
  PROVE  IInv'
<1>1. CASE AutoScoped
  <2>1. /\ state' \in States \cup {NoState}
        /\ state' \in {NoState, InitialState} => state \in {NoState, InitialState}
        /\ state' = NoState <=> state = NoState
    BY <1>1, StatesFacts DEF AutoScoped, IInv, Disk
  <2>2. FilesInOrder'
    BY <1>1, <2>1 DEF AutoScoped, IInv, Disk, FilesInOrder
  <2> QED BY <1>1, <2>1, <2>2, InitStepDisk, TouchKeeps DEF AutoScoped, IInv
<1>2. CASE AutoGrant
  <2> DEFINE event == UnattendedGrants[IF cli.at = "grant" THEN 1 ELSE 2]
  <2>1. event \in Records
    <3>1. CASE cli.at = "grant"
      BY <3>1 DEF UnattendedGrants, Event, Records, Pairs, ActiveActions
    <3>2. CASE cli.at # "grant"
      BY <3>2 DEF UnattendedGrants, Event, Records, Pairs, ActiveActions
    <3> QED BY <3>1, <3>2
  <2> HIDE DEF event
  <2>2. /\ Touch
        /\ UNCHANGED <<files, state, scope, scopeRev, pending, server>>
        /\ \/ /\ Grantable(event.pair) /\ Len(log) < MaxEvents
              /\ log' = Append(log, event)
           \/ log' = log
        /\ \/ cli' = [cli EXCEPT !.at = "second"]
           \/ cli' = [cli EXCEPT !.at = "off"]
        /\ cli.at \in {"grant", "second"}
    BY <1>2 DEF AutoGrant, event
  <2>3. FilesInOrder'
    BY <2>2 DEF IInv, Disk, FilesInOrder
  <2>4. LogFollowsScope'
    <3>1. CASE /\ Grantable(event.pair) /\ Len(log) < MaxEvents
               /\ log' = Append(log, event)
      BY <2>1, <2>2, <3>1, GrantableNamed, LogGrows DEF IInv, Disk
    <3>2. CASE log' = log
      BY <2>2, <3>2, LogFrame DEF IInv, Disk
    <3> QED BY <2>2, <3>1, <3>2
  <2>5. TargetStaysAllowed'
    BY <2>2, TargetFrame DEF IInv, Disk
  <2>6. Disk'
    BY <2>2, <2>3, <2>4, <2>5 DEF IInv, Disk
  <2> QED BY <2>2, <2>6, TouchKeeps
<1> QED BY <1>1, <1>2

(* `outrider init` begins, or is interrupted: the run stays as it is. *)
LEMMA InitEndsKeep ==
  ASSUME IInv, InitStart \/ InitCrash
  PROVE  IInv'
<1>1. UNCHANGED <<run, pending, server, touched>> /\ answer' = "none"
  BY DEF InitStart, InitCrash, Silent
<1>2. UNCHANGED <<files, state, scope, scopeRev, log>>
  BY <1>1 DEF run
<1>3. FilesInOrder'
  <2>1. CASE InitStart
    <3>1. PICK auto \in BOOLEAN : cli' = [at |-> "scope", auto |-> auto]
      BY <2>1 DEF InitStart
    <3> QED BY <1>2, <3>1 DEF IInv, Disk, FilesInOrder
  <2>2. CASE InitCrash
    BY <1>2, <2>2 DEF InitCrash, IInv, Disk, FilesInOrder
  <2> QED BY <2>1, <2>2
<1>4. Disk'
  BY <1>2, <1>3, InitStepDisk DEF IInv, Disk
<1>5. Locks'
  BY <1>1, HeldLocks DEF IInv, Answers
<1> QED BY <1>1, <1>4, <1>5 DEF IInv, Asked, RequestOK

LEMMA CliKeeps ==
  ASSUME IInv, Cli
  PROVE  IInv'
  BY CliTransitionKeeps, CliGrantKeeps, CliRevokeKeeps, InitStepKeeps, AutoKeeps,
     InitEndsKeep
  DEF Cli, CliInit

-----------------------------------------------------------------------------
LEMMA InitIInv == Init => IInv
<1> SUFFICES ASSUME Init PROVE IInv
  OBVIOUS
<1> USE DEF Init
<1>1. FilesInOrder /\ TargetStaysAllowed
  BY DEF FilesInOrder, TargetStaysAllowed, AllFiles
<1>2. log \in Seq(Records) /\ Len(log) = 0 /\ log = << >>
  OBVIOUS
<1>3. Disk
  BY <1>1, <1>2 DEF Disk, LogFollowsScope
<1>4. Asked
  BY IdleOK DEF Asked
<1>5. Locks
  BY DEF Locks, Answers, CallStaysAuthorised
<1> QED BY <1>3, <1>4, <1>5 DEF IInv

LEMMA NextIInv == IInv /\ [Next]_vars => IInv'
<1> SUFFICES ASSUME IInv, [Next]_vars PROVE IInv'
  OBVIOUS
<1>1. ASSUME NEW c \in Clients, Send(c) \/ InvokeFinish(c) PROVE IInv'
  BY <1>1, SendKeeps, InvokeFinishKeeps
<1>2. ASSUME NEW c \in Clients, Handle(c) PROVE IInv'
  BY <1>2, CreateRunKeeps, CreateUnattendedKeeps, ReplaceScopeKeeps, GrantKeeps,
     RevokeKeeps, TransitionKeeps, InvokeRefusals, InvokeStartKeeps, BlockKeeps
  DEF Handle
<1>3. CASE Restart
  BY <1>3, RestartKeeps
<1>4. CASE Cli
  BY <1>4, CliKeeps
<1>5. CASE UNCHANGED vars
  <2>1. UNCHANGED <<run, cli>> /\ Disk'
    BY <1>5, DiskFrame DEF vars, run, IInv
  <2>2. Locks'
    BY <1>5, <2>1, HeldLocks DEF vars, server, IInv, Locks
  <2>3. pending' = pending
    BY <1>5 DEF vars
  <2>4. Asked'
    BY <2>3 DEF IInv, Asked, RequestOK
  <2> QED BY <2>1, <2>2, <2>4 DEF IInv
<1> QED BY <1>1, <1>2, <1>3, <1>4, <1>5 DEF Next

LEMMA Invariance == Spec => []IInv
<1>1. Init => IInv
  BY InitIInv
<1>2. IInv /\ [Next]_vars => IInv'
  BY NextIInv
<1> QED BY <1>1, <1>2, PTL DEF Spec

(* Every variable keeps to the values of its kind, through requests,       *)
(* interrupted creations and restarts.                                     *)
THEOREM PortalTypes == Spec => []TypeOK
<1>1. IInv => TypeOK
  <2> SUFFICES ASSUME IInv PROVE TypeOK
    OBVIOUS
  <2>1. \A i \in 1..Len(log) :
          log[i].type \in {"granted", "revoked"} /\ log[i].pair \in Pairs
    <3> TAKE i \in 1..Len(log)
    <3>1. log \in Seq(Records)
      BY DEF IInv, Disk, LogFollowsScope
    <3>2. log[i] \in Records
      BY <3>1
    <3> QED BY <3>2 DEF Records
  <2>2. DOMAIN pending = Clients
    BY DEF IInv, Asked
  <2> QED BY <2>1, <2>2
    DEF TypeOK, IInv, Disk, FilesInOrder, LogFollowsScope, Locks
<1> QED BY <1>1, Invariance, PTL

(* Whatever creates or replaces the scope through the portal, the target   *)
(* of the run stays allowed.                                               *)
THEOREM TargetIsNeverScopedOut == Spec => []TargetStaysAllowed
<1>1. IInv => TargetStaysAllowed
  BY DEF IInv, Disk
<1> QED BY <1>1, Invariance, PTL

(* No approval is live before the scope was confirmed, however a creation  *)
(* or an unattended authorization was cut short.                           *)
THEOREM ScopeBeforeApproval == Spec => []ApprovalsFollowScoping
<1>1. IInv => ApprovalsFollowScoping
  BY LiveNamed DEF IInv, ApprovalsFollowScoping
<1> QED BY <1>1, Invariance, PTL

(* What a live approval names is allowed by the scope in force: the scope  *)
(* an approval was given under is not replaced.                            *)
THEOREM NoApprovalOutsideScope == Spec => []ApprovedInScope
<1>1. IInv => ApprovedInScope
  BY LiveNamed DEF IInv, ApprovedInScope, Named
<1> QED BY <1>1, Invariance, PTL

(* A call that waits for its provider stays one that policy allows, unless *)
(* the command line changed the run under it.                              *)
THEOREM NoHandlerUndercutsCall == Spec => []CallStaysAuthorised
<1>1. IInv => CallStaysAuthorised
  BY DEF IInv, Locks
<1> QED BY <1>1, Invariance, PTL

-----------------------------------------------------------------------------
(* A rule for an asset's host includes that host, whatever port or path    *)
(* the asset was given with.                                               *)
LEMMA AssetRuleIncludes ==
  ASSUME NEW cell, NEW host, host # NoHost, AssetRule(cell).host = host
  PROVE  RuleMatches(AssetRule(cell), HostCandidate(host), "in_scope")
<1> DEFINE c == HostCandidate(host)
<1>1. /\ c.host = host /\ c.scheme = NoScheme /\ c.port = NoPort /\ c.path = NoPath
      /\ EffectivePort(c) = NoPort
  BY DEF HostCandidate, Candidate, EffectivePort, WebSchemes, NoScheme
<1> HIDE DEF c
<1>2. \/ AssetRule(cell) = DomainRule(cell.host)
      \/ AssetRule(cell).kind = "url"
  BY DEF AssetRule, UrlRule, Rule
<1>3. CASE AssetRule(cell) = DomainRule(cell.host)
  BY <1>1, <1>3 DEF RuleMatches, DomainRule, Rule, c
<1>4. CASE AssetRule(cell).kind = "url"
  <2>1. UrlRuleMatches(AssetRule(cell), c, "in_scope")
    BY <1>1 DEF UrlRuleMatches, Fits
  <2> QED BY <1>4, <2>1 DEF RuleMatches, c
<1> QED BY <1>2, <1>3, <1>4

(* A scope without exclusions, made of asset rules, one of them for the    *)
(* target, is one the portal accepts unless it repeats a rule.             *)
LEMMA SuggestedIsAcceptable ==
  ASSUME NEW m \in Memories, SuggestedTarget(m) # NoHost,
         SuggestedScope(m).in # << >>, NoDuplicates(SuggestedScope(m).in)
  PROVE  Acceptable(SuggestedScope(m), SuggestedTarget(m))
<1> DEFINE config == SuggestedScope(m)
           rules  == config.in
           target == SuggestedTarget(m)
<1>1. rules = Assets(m.cells) /\ config.out = << >>
  BY DEF SuggestedScope
<1>2. Len(rules) \in Nat /\ DOMAIN rules = 1..Len(rules) /\ Len(rules) > 0
  <2>1. config \in ScopeChoices
    OBVIOUS
  <2>2. rules \in Seq(ParsedRules)
    BY <2>1, ChoicesAssumption
  <2>3. rules # << >>
    OBVIOUS
  <2> HIDE DEF rules
  <2> QED BY <2>2, <2>3
<1>3. \A i \in 1..Len(rules) : \E cell : rules[i] = AssetRule(cell)
  <2>1. \A i \in DOMAIN Assets(m.cells) : \E cell : Assets(m.cells)[i] = AssetRule(cell)
    BY DEF Assets
  <2> QED BY <1>1, <1>2, <2>1
<1>4. PICK i \in 1..Len(rules) : rules[i].host = target
  <2>1. rules # << >> /\ 1 \in 1..Len(rules)
    BY <1>2
  <2> QED BY <1>1, <2>1 DEF SuggestedTarget
<1> HIDE DEF config, rules, target
<1>5. config.in = rules /\ rules # << >> /\ NoDuplicates(rules)
  BY DEF config, rules
<1>6. target # NoHost
  BY DEF target
<1>7. PICK cell : rules[i] = AssetRule(cell)
  BY <1>3
<1>8. RuleMatches(rules[i], HostCandidate(target), "in_scope")
  BY <1>4, <1>6, <1>7, AssetRuleIncludes
<1>9. InScope(config, HostCandidate(target))
  BY <1>1, <1>5, <1>8 DEF InScope, SomeMatch
<1>10. ValidLists(config)
  <2>1. KeySet(<< >>) = {} /\ Len(<< >>) = 0
    BY DEF KeySet
  <2>2. NoDuplicates(<< >>)
    BY <2>1, FS_EmptySet DEF NoDuplicates
  <2> QED BY <1>1, <1>5, <2>1, <2>2 DEF ValidLists
<1> QED BY <1>9, <1>10 DEF Acceptable, config, target

(* The import form is filled in with a scope the portal accepts, for every *)
(* memory whose table names no asset twice.                                *)
THEOREM SuggestionsAreAccepted == Spec => []SuggestionIsAccepted
<1>1. IInv => SuggestionIsAccepted
  <2> SUFFICES ASSUME IInv, NEW c \in Clients, pending[c].op = "import",
                      pending[c].rules.in # << >>, NoDuplicates(pending[c].rules.in)
               PROVE  Acceptable(pending[c].rules, Labels[Target])
    BY DEF SuggestionIsAccepted
  <2>1. pending[c].rules \in Suggested
    BY DEF IInv, Asked, RequestOK
  <2>2. PICK m \in Memories : /\ SuggestedTarget(m) = Labels[Target]
                              /\ pending[c].rules = SuggestedScope(m)
    BY <2>1 DEF Suggested
  <2>3. Labels[Target] # NoHost
    BY NamesAssumption
  <2> QED BY <2>2, <2>3, SuggestedIsAcceptable
<1> QED BY <1>1, Invariance, PTL

-----------------------------------------------------------------------------
(* What is recorded under its host alone is never recorded for a host the  *)
(* scope in force denies.                                                  *)
THEOREM AllowedUrlsHaveAllowedHosts == Spec => []AllowedUrlHasAllowedHost
<1>1. IInv => AllowedUrlHasAllowedHost
  <2> SUFFICES ASSUME IInv, scope # NoScope PROVE scope \in HostKeyedScopes
    BY DEF AllowedUrlHasAllowedHost
  <2>1. scope \in ScopeChoices
    BY DEF IInv, Disk
  <2>2. HostKeyed(scope)
    BY IdentityInScope DEF HostKeyed
  <2> QED BY <2>1, <2>2 DEF HostKeyedScopes
<1> QED BY <1>1, Invariance, PTL

(* The decisions of the scope in force are the ones its rules mean, on     *)
(* every candidate and whatever rules operators wrote, but for paths that  *)
(* are not plain (evaluate_scope).                                         *)
THEOREM DecisionsMatchTheMeaning == Spec => []DecisionMatchesMeaning
<1>1. IInv => DecisionMatchesMeaning
  <2> SUFFICES ASSUME IInv, scope # NoScope, PlainScope(scope)
               PROVE  scope \in FaithfulScopes
    BY DEF DecisionMatchesMeaning
  <2>1. scope \in ScopeChoices
    BY DEF IInv, Disk
  <2>2. Faithful(scope)
    BY <2>1, ChoicesAssumption, DecisionIsFaithful
  <2> QED BY <2>1, <2>2 DEF FaithfulScopes
<1> QED BY <1>1, Invariance, PTL

-----------------------------------------------------------------------------
(* What a step owes to the client c. *)
NoTrace(c) ==
  /\ pending[c] # Idle /\ pending'[c] = Idle
  /\ \/ answer' = "refused" /\ ~CreatedAllTheSame(pending[c])
     \/ answer' = "failed" /\ pending[c].op \in {"grant", "revoke"}
  => UNCHANGED run

(* Only the client that is answered stops waiting. *)
LEMMA OthersWait ==
  ASSUME IInv, NEW c \in Clients, NEW d \in Clients, d # c, NEW code, Done(c, code)
  PROVE  NoTrace(d)
  BY DoneAsked DEF NoTrace, IInv

LEMMA LeaveNoTrace ==
  ASSUME NEW c, NEW d, NEW code, Leave(c, code)
  PROVE  NoTrace(d)
  BY DEF Leave, NoTrace

LEMMA HandlersLeaveNoTrace ==
  ASSUME IInv, NEW c \in Clients, NEW d \in Clients, Handle(c)
  PROVE  NoTrace(d)
<1>1. CASE \E code \in Answers : Leave(c, code)
  BY <1>1, LeaveNoTrace
<1>2. CASE InvokeStart(c) \/ Block(c)
  BY <1>2 DEF InvokeStart, Block, Silent, NoTrace
<1>3. CASE d # c /\ \E code \in Answers : Reply(c, code)
  BY <1>3, OthersWait DEF Reply
<1>4. CASE d = c /\ \E code \in {"ok", "failed"} : Reply(c, code)
  <2>1. CASE pending[c].op \notin {"grant", "revoke"}
    BY <1>4, <2>1 DEF Reply, Done, NoTrace
  <2>2. CASE pending[c].op \in {"grant", "revoke"} /\ ~(\E code \in Answers : Leave(c, code))
    <3>1. answer' # "none"
      BY <1>4 DEF Reply, Done
    <3>2. GrantRoute(c) \/ RevokeRoute(c) \/ InvokeBusy(c) \/ InvokeRefused(c)
      BY <2>2, <3>1 DEF Handle, CreateRun, CreateUnattended, ReplaceScope,
        TransitionRoute, InvokeStart, Block, Serves, Silent
    <3>3. \E event : RecordApproval(c, event)
      BY <2>2, <3>2 DEF GrantRoute, RevokeRoute, InvokeBusy, InvokeRefused, Answers
    <3> QED BY <1>4, <3>3 DEF RecordApproval, RolledBack, Reply, Done, NoTrace, run
  <2> QED BY <1>1, <2>1, <2>2
<1>5. CASE (CreateRun(c) \/ CreateUnattended(c)) /\ d = c
  <2>1. CASE CreateRefused(c)
    BY <1>5, <2>1, LeaveNoTrace DEF CreateRefused
  <2>2. CASE ~CreateRefused(c)
    <3>1. pending[c].op \in {"create", "import", "create_unattended"}
      BY <1>5 DEF CreateRun, CreateUnattended, Serves
    <3>2. Creatable(pending[c].rules)
      BY <1>5, <2>2 DEF CreateRun, CreateUnattended
    <3>3. pending[c].op = "import" => answer' # "refused"
      BY <1>5, <2>2 DEF CreateRun, CreateUnattended, Serves, AfterCreation, Reply, Done
    <3> QED BY <1>5, <3>1, <3>2, <3>3 DEF NoTrace, CreatedAllTheSame
  <2> QED BY <2>1, <2>2
<1> QED
  BY <1>1, <1>2, <1>3, <1>4, <1>5
  DEF Handle, CreateRun, CreateUnattended, CreateRefused, AfterCreation, ReplaceScope,
      GrantRoute, RevokeRoute, RecordApproval, TransitionRoute, InvokeBusy,
      InvokeRefused, Answers

(* A refusal, and a failed approval request, leaves the run as it was;     *)
(* unless it is the answer to a creation that went through before it       *)
(* failed (web_app.py:132-145).                                            *)
THEOREM RefusalsChangeNothing == Spec => RefusalLeavesNoTrace
<1>1. IInv /\ [Next]_vars => [\A d \in Clients : NoTrace(d)]_vars
  <2> SUFFICES ASSUME IInv, Next, NEW d \in Clients PROVE NoTrace(d)
    OBVIOUS
  <2>1. ASSUME NEW c \in Clients, Send(c) PROVE NoTrace(d)
    BY <2>1 DEF Send, Silent, NoTrace
  <2>2. ASSUME NEW c \in Clients, InvokeFinish(c) PROVE NoTrace(d)
    BY <2>2 DEF InvokeFinish, NoTrace
  <2>3. ASSUME NEW c \in Clients, Handle(c) PROVE NoTrace(d)
    BY <2>3, HandlersLeaveNoTrace
  <2>4. CASE Restart
    BY <2>4 DEF Restart, NoTrace
  <2>5. CASE Cli
    BY <2>5 DEF Cli, CliInit, InitStart, InitScope, InitLog, InitManifest, InitEvent,
      InitRest, AutoScoped, AutoGrant, InitCrash, CliTransition, CliGrant, CliRevoke,
      CliApproval, Touch, Silent, NoTrace
  <2> QED BY <2>1, <2>2, <2>3, <2>4, <2>5 DEF Next
<1>2. [\A d \in Clients : NoTrace(d)]_vars =>
        [ \A c \in Clients :
            /\ pending[c] # Idle /\ pending'[c] = Idle
            /\ \/ answer' = "refused" /\ ~CreatedAllTheSame(pending[c])
               \/ answer' = "failed" /\ pending[c].op \in {"grant", "revoke"}
            => UNCHANGED run ]_vars
  BY DEF NoTrace
<1> QED BY <1>1, <1>2, Invariance, PTL DEF Spec, RefusalLeavesNoTrace

-----------------------------------------------------------------------------
(* The event loop is stopped by a mutation that waits for the lock of an   *)
(* enrichment call, and by nothing else.                                   *)
StoppedByCall ==
  blocked # Nobody =>
    /\ mutationLock \notin {Nobody, blocked}
    /\ pending[mutationLock].op = "invoke"
    /\ pending[blocked].op \notin {"idle", "invoke"}

(* A step that leaves the locks and the requests under way alone. *)
LEMMA StoppedFrame ==
  ASSUME StoppedByCall, UNCHANGED server,
         blocked # Nobody => UNCHANGED pending
  PROVE  StoppedByCall'
  BY DEF StoppedByCall, server

LEMMA StoppedStep == IInv /\ StoppedByCall /\ [Next]_vars => StoppedByCall'
<1> SUFFICES ASSUME IInv, StoppedByCall, [Next]_vars PROVE StoppedByCall'
  OBVIOUS
<1>1. CASE UNCHANGED vars
  BY <1>1, StoppedFrame DEF vars, server
<1>2. ASSUME NEW c \in Clients, Send(c) PROVE StoppedByCall'
  <2>1. /\ pending[c] = Idle /\ UNCHANGED server
        /\ \A d \in Clients : d # c => pending'[d] = pending[d]
    BY <1>2 DEF Send, IInv, Asked
  <2>2. blocked # Nobody => /\ blocked # c /\ blocked \in Clients
                            /\ mutationLock # c /\ mutationLock \in Clients
    BY <2>1, IdleOK DEF StoppedByCall, IInv, Locks
  <2> QED BY <2>1, <2>2 DEF StoppedByCall, server
<1>3. ASSUME NEW c \in Clients, Handle(c) PROVE StoppedByCall'
  <2>1. blocked = Nobody
    BY <1>3 DEF Handle, CreateRun, CreateUnattended, ReplaceScope, GrantRoute, RevokeRoute,
      TransitionRoute, InvokeBusy, InvokeRefused, InvokeStart, Block, Serves
  <2>2. CASE blocked' = Nobody
    BY <2>2 DEF StoppedByCall
  <2>3. CASE Block(c)
    BY <2>3 DEF Block, StoppedByCall, IInv, Locks
  <2> QED
    BY <1>3, <2>1, <2>2, <2>3
    DEF Handle, CreateRun, CreateUnattended, CreateRefused, NewRun, ReplaceScope, GrantRoute,
        RevokeRoute, RecordApproval, TransitionRoute, InvokeBusy, InvokeRefused, InvokeStart,
        Leave, Reply, server
<1>4. ASSUME NEW c \in Clients, InvokeFinish(c) PROVE StoppedByCall'
  BY <1>4 DEF InvokeFinish, StoppedByCall
<1>5. CASE Restart
  BY <1>5 DEF Restart, StoppedByCall
<1>6. CASE Cli
  BY <1>6, StoppedFrame
  DEF Cli, CliInit, InitStart, InitScope, InitLog, InitManifest, InitEvent, InitRest,
      AutoScoped, AutoGrant, InitCrash, CliTransition, CliGrant, CliRevoke, CliApproval
<1> QED BY <1>1, <1>2, <1>3, <1>4, <1>5, <1>6 DEF Next

(* Whenever the event loop stands still, an enrichment call has the lock   *)
(* and a mutation waits for it: what AnsweredUnlessCallHoldsLock excepts   *)
(* is the only way to get there (web_app.py:40, 830-838).                  *)
THEOREM OnlyACallStopsTheLoop == Spec => []StoppedByCall
<1>1. Init => StoppedByCall
  BY DEF Init, StoppedByCall
<1> QED BY <1>1, Invariance, StoppedStep, PTL DEF Spec

(* Nothing that happens afterwards helps but a restart: the call does not  *)
(* return, the locks stay taken, and whoever waits goes on waiting.        *)
StoppedForGood ==
  blocked # Nobody /\ ~Restart =>
    /\ UNCHANGED server
    /\ \A c \in Clients : pending[c] # Idle => pending'[c] = pending[c]

THEOREM OnlyARestartHelps == Spec => [][StoppedForGood]_vars
<1>1. IInv /\ [Next]_vars => [StoppedForGood]_vars
  <2> SUFFICES ASSUME IInv, Next, blocked # Nobody, ~Restart
               PROVE  /\ UNCHANGED server
                      /\ \A c \in Clients : pending[c] # Idle => pending'[c] = pending[c]
    BY DEF StoppedForGood
  <2>1. ASSUME NEW c \in Clients PROVE ~Handle(c) /\ ~InvokeFinish(c)
    BY DEF Handle, CreateRun, CreateUnattended, ReplaceScope, GrantRoute, RevokeRoute,
      TransitionRoute, InvokeBusy, InvokeRefused, InvokeStart, InvokeFinish, Block, Serves
  <2>2. ASSUME NEW c \in Clients, Send(c)
        PROVE  /\ UNCHANGED server
               /\ \A d \in Clients : pending[d] # Idle => pending'[d] = pending[d]
    BY <2>2 DEF Send, IInv, Asked
  <2>3. CASE Cli
    BY <2>3
    DEF Cli, CliInit, InitStart, InitScope, InitLog, InitManifest, InitEvent, InitRest,
        AutoScoped, AutoGrant, InitCrash, CliTransition, CliGrant, CliRevoke, CliApproval
  <2> QED BY <2>1, <2>2, <2>3 DEF Next
<1> QED BY <1>1, Invariance, PTL DEF Spec

-----------------------------------------------------------------------------
(* The workflow, whoever moves it: a run that is being created counts as   *)
(* initialized.                                                            *)
WorkflowState == IF state = NoState THEN InitialState ELSE state

WF == INSTANCE Workflow WITH state <- WorkflowState

LEMMA TableStates ==
  \A from \in States : \A to : to \in AllowedTransitions[from] => to \in States
  BY DEF States, AllowedTransitions

(* Handlers on stale pages, creations that fail half-way, `outrider init`  *)
(* cut short and begun again, and the command line beside the portal       *)
(* together move the workflow as its table allows (run_setup.py, cli.py,   *)
(* web_app.py on state.py:23-32).                                          *)
THEOREM PortalImplementsWorkflow == Spec => WF!Spec
<1>1. WF!AllowedTransitions = AllowedTransitions /\ WF!InitialState = InitialState
  BY DEF WF!AllowedTransitions, AllowedTransitions, WF!InitialState, InitialState
<1>2. Init => WF!Init
  BY <1>1 DEF Init, WF!Init, WorkflowState
<1>3. IInv /\ [Next]_vars => [WF!Move]_WorkflowState
  <2> SUFFICES ASSUME IInv, [Next]_vars PROVE [WF!Move]_WorkflowState
    OBVIOUS
  <2>1. CASE UNCHANGED state
    BY <2>1 DEF WorkflowState
  <2>2. ASSUME NEW new, NEW reason, ValidTransition(state, new, reason), state' = new
        PROVE  [WF!Move]_WorkflowState
    <3>1. state \in States /\ new \in AllowedTransitions[state] /\ new \in States
      BY <2>2, TableStates DEF ValidTransition
    <3>2. WorkflowState = state /\ WorkflowState' = new
      BY <2>2, <3>1, StatesFacts DEF WorkflowState
    <3> QED BY <1>1, <3>1, <3>2 DEF WF!Move
  <2>3. files = {} \/ cli.at = "event" => state = NoState
    BY DEF IInv, Disk, FilesInOrder
  <2>4. "scoped" \in AllowedTransitions[InitialState] /\ NoState # "scoped"
        /\ InitialState # NoState
    BY DEF AllowedTransitions, InitialState, NoState
  <2>5. ASSUME state \in {NoState, InitialState}, state' \in {InitialState, "scoped"}
        PROVE  [WF!Move]_WorkflowState
    <3>1. WorkflowState = InitialState /\ WorkflowState' \in {InitialState, "scoped"}
      BY <2>4, <2>5 DEF WorkflowState
    <3> QED BY <1>1, <2>4, <3>1 DEF WF!Move
  <2>6. ASSUME NEW c \in Clients, CreateRun(c) PROVE [WF!Move]_WorkflowState
    BY <2>1, <2>3, <2>5, <2>6 DEF CreateRun, CreateRefused, Leave, Creatable, run
  <2>7. ASSUME NEW c \in Clients, CreateUnattended(c) PROVE [WF!Move]_WorkflowState
    BY <2>1, <2>3, <2>5, <2>7 DEF CreateUnattended, CreateRefused, Leave, Creatable, run
  <2>8. ASSUME NEW c \in Clients, TransitionRoute(c) PROVE [WF!Move]_WorkflowState
    BY <2>1, <2>2, <2>8 DEF TransitionRoute, Leave, run
  <2>9. ASSUME NEW new, CliTransition(new) PROVE [WF!Move]_WorkflowState
    BY <2>2, <2>9 DEF CliTransition
  <2>10. CASE InitEvent
    BY <2>3, <2>5, <2>10 DEF InitEvent
  <2>11. CASE AutoScoped
    BY <2>1, <2>5, <2>11 DEF AutoScoped
  <2>12. QED
    <3>1. ASSUME NEW c \in Clients, Handle(c) PROVE [WF!Move]_WorkflowState
      BY <2>1, <2>6, <2>7, <2>8, <3>1
      DEF Handle, ReplaceScope, GrantRoute, RevokeRoute, RecordApproval, InvokeBusy,
          InvokeRefused, InvokeStart, Block, Leave, run
    <3>2. CASE Cli
      BY <2>1, <2>9, <2>10, <2>11, <3>2
      DEF Cli, CliInit, InitStart, InitScope, InitLog, InitManifest, InitRest, AutoGrant,
          InitCrash, CliGrant, CliRevoke, CliApproval, run
    <3>3. ASSUME NEW c \in Clients, Send(c) \/ InvokeFinish(c) PROVE UNCHANGED state
      BY <3>3 DEF Send, InvokeFinish, run
    <3> QED
      BY <2>1, <3>1, <3>2, <3>3 DEF Next, Restart, run, vars
<1> QED BY <1>2, <1>3, Invariance, PTL DEF Spec, WF!Spec
=============================================================================
