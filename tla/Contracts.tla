----------------------------- MODULE Contracts -----------------------------
(***************************************************************************)
(* What the request contracts of a run promise, whatever dispatches them.  *)
(* A request is written once and never changed.  A session takes up one    *)
(* at a time, none that was answered when the session began or that its    *)
(* own agents have answered since, and hands what it has taken up to an    *)
(* agent at most Retries + 1 times, one agent at a time.  Work a session   *)
(* had taken up when it died is not taken up again before somebody has put *)
(* it aside, unless it may be repeated.                                    *)
(*                                                                         *)
(* Not promised: that an answer keeps a request from an agent at once.     *)
(* What others answer while a session runs, the session does not see; and  *)
(* a request taken up is handed out again after a time-out although its    *)
(* agent has answered it by then.                                          *)
(***************************************************************************)
EXTENDS Naturals

CONSTANTS
  Ids,           \* the names of requests
  Nobody,        \* not one of them: no request
  Work, NoWork,  \* what a request may ask for
  Repeatable,    \* the work that may be handed out again by a later session
  Retries        \* how often a session may hand out again what it took up

VARIABLES
  asks,          \* what each request asks for
  answered,      \* the requests somebody has answered
  known,         \* those of them the session takes for answered
  taken,         \* the request the session has taken up
  tries,         \* how often an agent has been given it since
  hand,          \* the request in an agent's hands
  left           \* the requests taken up when a session died

vars == <<asks, answered, known, taken, tries, hand, left>>

Init ==
  /\ asks = [r \in Ids |-> NoWork]
  /\ answered = {} /\ known = {}
  /\ taken = Nobody /\ tries = 0 /\ hand = Nobody
  /\ left = {}

Ask(r) ==
  /\ asks[r] = NoWork
  /\ asks'[r] \in Work
  /\ asks' = [asks EXCEPT ![r] = asks'[r]]
  /\ UNCHANGED <<answered, known, taken, tries, hand, left>>

TakeUp(r) ==
  /\ taken = Nobody
  /\ asks[r] # NoWork
  /\ r \notin known
  /\ r \in left => asks[r] \in Repeatable
  /\ taken' = r
  /\ left' = left \ {r}
  /\ UNCHANGED <<asks, answered, known, tries, hand>>

HandOut ==
  /\ taken # Nobody /\ hand = Nobody
  /\ tries <= Retries
  /\ hand' = taken
  /\ tries' = tries + 1
  /\ UNCHANGED <<asks, answered, known, taken, left>>

AgentAnswers ==
  /\ hand # Nobody
  /\ answered' = answered \cup {hand}
  /\ known' = known \cup {hand}
  /\ UNCHANGED <<asks, taken, tries, hand, left>>

(* Somebody else answers; a session under way need not notice. *)
OtherAnswers(r) ==
  /\ asks[r] # NoWork
  /\ answered' = answered \cup {r}
  /\ known' \in {known, known \cup {r}}
  /\ UNCHANGED <<asks, taken, tries, hand, left>>

(* The agent is given up, whatever it has written; the request is not. *)
TimeOut ==
  /\ hand # Nobody
  /\ hand' = Nobody
  /\ UNCHANGED <<asks, answered, known, taken, tries, left>>

PutDown ==
  /\ taken # Nobody
  /\ taken' = Nobody /\ tries' = 0 /\ hand' = Nobody
  /\ UNCHANGED <<asks, answered, known, left>>

(* The session ends or dies; the next one reads every answer. *)
End ==
  /\ taken' = Nobody /\ tries' = 0 /\ hand' = Nobody
  /\ left' = left \cup ({taken} \ {Nobody})
  /\ known' = answered
  /\ UNCHANGED <<asks, answered>>

PutAside(r) ==
  /\ left' = left \ {r}
  /\ UNCHANGED <<asks, answered, known, taken, tries, hand>>

Next ==
  \/ \E r \in Ids : Ask(r) \/ TakeUp(r) \/ OtherAnswers(r) \/ PutAside(r)
  \/ HandOut \/ AgentAnswers \/ TimeOut \/ PutDown \/ End

Spec == Init /\ [][Next]_vars
=============================================================================
