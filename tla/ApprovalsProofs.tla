-------------------------- MODULE ApprovalsProofs --------------------------
(***************************************************************************)
(* Theorems about the approval registry, for any candidates, lifetimes and *)
(* number of events.  The invariant they rest on: only the last line can   *)
(* be torn, and active grants have names of their own - in the registry,   *)
(* and in the lines a repair would fall back to, which are the registry    *)
(* but for a last line a crash can still spoil.  What keeps it is that     *)
(* grants only ever leave the active set, but for the one a step appends.  *)
(***************************************************************************)
EXTENDS Approvals, SequenceTheorems, TLAPS

USE CandidatesAssumption, ActionsAssumption, FractionsAssumption,
    LifetimeAssumption, BoundsAssumption

Lines == Grants \cup Revocations \cup {Torn}

Unique(r, t) == \A g, h \in ActiveIn(r, t) : KeyIn(r, g) = KeyIn(r, h) => g = h

TornIsLast ==
  /\ \A i \in 1..Len(registry) : registry[i] = Torn => i = Len(registry)
  /\ ~ended => registry # << >>

IInv == TypeOK /\ TornIsLast /\ Unique(registry, now) /\ Unique(Sure, now)

-----------------------------------------------------------------------------
(* Lines, and lists of them. *)
LEMMA GrantedTyped ==
  ASSUME NEW g \in Nat, NEW action \in GrantActions, NEW candidate \in GrantCandidates,
         NEW occurred \in Nat, NEW expires \in Nat
  PROVE  Granted(g, action, candidate, occurred, expires) \in Grants
  BY DEF Granted, Grants

LEMMA RevokedTyped ==
  ASSUME NEW g \in Nat, NEW occurred \in Nat
  PROVE  RevokedEvent(g, occurred) \in Revocations
  BY DEF RevokedEvent, Revocations

LEMMA LineKinds ==
  ASSUME NEW e \in Lines
  PROVE  /\ e.expires \in Nat
         /\ e.type = "approval_granted" <=> e \in Grants
         /\ e.type = "approval_revoked" <=> e \in Revocations
         /\ e \in Grants => e # Torn
         /\ e \in Revocations => e # Torn
  BY DEF Lines, Grants, Revocations, Torn

LEMMA TornTyped ==
  Torn \in Lines /\ Torn.type = "torn" /\ Torn.expires = 0 /\ Torn.occurred = 0
  BY DEF Lines, Torn

LEMMA Appended ==
  ASSUME NEW r \in Seq(Lines), NEW e \in Lines, NEW q, q = Append(r, e)
  PROVE  /\ q \in Seq(Lines)
         /\ Len(q) = Len(r) + 1
         /\ Len(r) \in Nat
         /\ q[Len(r) + 1] = e
         /\ \A i \in 1..Len(r) : q[i] = r[i]
  OBVIOUS

LEMMA LastCut ==
  ASSUME NEW r \in Seq(Lines), NEW n \in Nat, Len(r) = n + 1, NEW q, q = SubSeq(r, 1, n)
  PROVE  q \in Seq(Lines) /\ Len(q) = n /\ \A i \in 1..n : q[i] = r[i]
<1>1. \A i \in 1..n : r[i] \in Lines
  OBVIOUS
<1> QED BY <1>1, SubSeqProperties

(* A line is judged by the lines before it. *)
LEMMA ParsesLocal ==
  ASSUME NEW r, NEW q, NEW i \in Nat, i > 0, \A j \in 1..i : q[j] = r[j], Parses(r, i)
  PROVE  Parses(q, i)
<1>1. i \in 1..i /\ q[i] = r[i] /\ \A j \in 1..i - 1 : j \in 1..i /\ q[j] = r[j]
  OBVIOUS
<1>2. \A g : RevokedBefore(q, g, i) <=> RevokedBefore(r, g, i)
  BY <1>1 DEF RevokedBefore
<1> QED BY <1>1, <1>2 DEF Parses, IsGrant

LEMMA AppendLoads ==
  ASSUME NEW r \in Seq(Lines), NEW e \in Lines, NEW q, q = Append(r, e)
  PROVE  Loads(q) <=> Loads(r) /\ Parses(q, Len(r) + 1)
<1>1. /\ Len(q) = Len(r) + 1 /\ Len(r) \in Nat
      /\ \A i \in 1..Len(r) : q[i] = r[i]
  BY Appended
<1>2. ASSUME NEW i \in 1..Len(r)
      PROVE  Parses(q, i) <=> Parses(r, i)
  <2>1. i \in Nat /\ i > 0 /\ \A j \in 1..i : j \in 1..Len(r)
    BY <1>1
  <2>2. \A j \in 1..i : q[j] = r[j] /\ r[j] = q[j]
    BY <1>1, <2>1
  <2> QED BY ONLY <2>1, <2>2, ParsesLocal
<1> QED BY <1>1, <1>2 DEF Loads

(* Torn lines do not load, and hide nothing else. *)
LEMMA TornAppended ==
  ASSUME NEW r \in Seq(Lines), NEW q, q = Append(r, Torn), NEW t
  PROVE  /\ ~Loads(q)
         /\ ActiveIn(q, t) = ActiveIn(r, t)
         /\ \A g \in ActiveIn(r, t) : KeyIn(q, g) = KeyIn(r, g)
<1>1. /\ Len(q) = Len(r) + 1 /\ Len(r) \in Nat /\ q[Len(r) + 1] = Torn
      /\ \A i \in 1..Len(r) : q[i] = r[i]
  BY Appended, TornTyped
<1>2. ~Loads(q)
  <2>1. Len(r) + 1 \in 1..Len(q)
    BY <1>1
  <2>2. ~Parses(q, Len(r) + 1)
    BY <1>1, TornTyped DEF Parses, IsGrant
  <2> QED BY <2>1, <2>2 DEF Loads
<1>3. ASSUME NEW g \in 1..Len(r)
      PROVE  IsActive(q, g, t) <=> IsActive(r, g, t)
  <2>1. \A j \in 1..(Len(q) + 1) - 1 : j = Len(r) + 1 \/ j \in 1..(Len(r) + 1) - 1
    BY <1>1
  <2>2. \A j \in 1..(Len(r) + 1) - 1 : j \in 1..(Len(q) + 1) - 1 /\ j \in 1..Len(r)
    BY <1>1
  <2>3. RevokedBefore(q, g, Len(q) + 1) <=> RevokedBefore(r, g, Len(r) + 1)
    BY <1>1, <2>1, <2>2, TornTyped DEF RevokedBefore
  <2> QED BY <1>1, <2>3 DEF IsActive, IsGrant
<1>4. ~IsActive(q, Len(r) + 1, t)
  BY <1>1, TornTyped DEF IsActive, IsGrant
<1>5. \A g \in 1..Len(q) : g = Len(r) + 1 \/ g \in 1..Len(r)
  BY <1>1
<1>6. \A g \in 1..Len(r) : g \in 1..Len(q)
  BY <1>1
<1>7. ActiveIn(q, t) = ActiveIn(r, t)
  BY <1>3, <1>4, <1>5, <1>6 DEF ActiveIn
<1> QED BY <1>1, <1>2, <1>7 DEF ActiveIn, KeyIn

(* What was active after a line was appended was active before, or is the  *)
(* appended line.                                                          *)
OpensOnlyLast(r, q, t) ==
  \A g \in ActiveIn(q, t) :
    g = Len(r) + 1 \/ (g \in ActiveIn(r, t) /\ KeyIn(q, g) = KeyIn(r, g))

LEMMA ActiveShrinks ==
  ASSUME NEW r \in Seq(Lines), NEW e \in Lines, NEW q, q = Append(r, e),
         NEW t
  PROVE  OpensOnlyLast(r, q, t)
<1> SUFFICES ASSUME NEW g \in ActiveIn(q, t)
             PROVE  g = Len(r) + 1 \/ (g \in ActiveIn(r, t) /\ KeyIn(q, g) = KeyIn(r, g))
  BY DEF OpensOnlyLast
<1>0. g \in 1..Len(q) /\ IsActive(q, g, t)
  BY DEF ActiveIn
<1>1. CASE g = Len(r) + 1
  BY <1>1
<1>2. CASE g # Len(r) + 1
  <2>1. g \in 1..Len(r) /\ q[g] = r[g] /\ Len(q) + 1 = (Len(r) + 1) + 1
    BY <1>0, <1>2, Appended
  <2>2. \A j \in 1..Len(r) : j \in 1..(Len(q) + 1) - 1 /\ q[j] = r[j]
    BY Appended
  <2>3. \A j \in 1..(Len(r) + 1) - 1 : j \in 1..Len(r)
    BY Appended
  <2>4. ~RevokedBefore(r, g, Len(r) + 1)
    BY <1>0, <2>2, <2>3 DEF IsActive, RevokedBefore
  <2> QED BY <1>0, <2>1, <2>4 DEF ActiveIn, IsActive, IsGrant, KeyIn
<1> QED BY <1>1, <1>2

(* Only its revocation takes a grant out of the active set. *)
StaysActive(r, q, g, t) == g \in ActiveIn(q, t) /\ q[g] = r[g]

LEMMA ActiveStays ==
  ASSUME NEW r \in Seq(Lines), NEW e \in Lines, NEW q, q = Append(r, e),
         NEW t, NEW g \in ActiveIn(r, t), e.type = "approval_revoked" => e.grant # g
  PROVE  StaysActive(r, q, g, t)
<1>0. g \in 1..Len(r) /\ IsActive(r, g, t)
  BY DEF ActiveIn
<1>1. g \in 1..Len(q) /\ q[g] = r[g]
  BY <1>0, Appended
<1>2. ~RevokedBefore(q, g, Len(q) + 1)
  <2>1. ASSUME NEW j \in 1..(Len(q) + 1) - 1,
               q[j].type = "approval_revoked", q[j].grant = g
        PROVE  FALSE
    <3>1. j # Len(r) + 1
      BY <2>1, Appended
    <3>2. j \in 1..Len(r) /\ j \in 1..(Len(r) + 1) - 1
      BY <2>1, <3>1, Appended
    <3>3. r[j].type = "approval_revoked" /\ r[j].grant = g
      BY <2>1, <3>2, Appended
    <3> QED BY <1>0, <3>2, <3>3 DEF IsActive, RevokedBefore
  <2> QED BY <2>1 DEF RevokedBefore
<1> QED BY <1>0, <1>1, <1>2 DEF StaysActive, ActiveIn, IsActive, IsGrant

(* A grant is appended only when its name has no live approval. *)
LEMMA GrantKeepsOne ==
  ASSUME NEW r \in Seq(Lines), NEW e \in Grants, NEW q, q = Append(r, e),
         NEW t, Unique(r, t), <<e.action, e.candidate>> \notin LiveIn(r, t)
  PROVE  /\ Unique(q, t)
         /\ LiveIn(q, t) \subseteq LiveIn(r, t) \cup {<<e.action, e.candidate>>}
<1> DEFINE n == Len(r) + 1
<1>0. e \in Lines
  BY DEF Lines
<1>1. KeyIn(q, n) = <<e.action, e.candidate>>
  <2>1. q[n] = e
    BY <1>0, Appended
  <2> QED BY <2>1 DEF KeyIn
<1>2. OpensOnlyLast(r, q, t)
  BY <1>0, ActiveShrinks
<1>3. \A h \in ActiveIn(r, t) : KeyIn(r, h) # <<e.action, e.candidate>>
  BY DEF LiveIn
<1> QED BY <1>1, <1>2, <1>3 DEF Unique, LiveIn, OpensOnlyLast, n

(* A revocation takes one grant out of the active set and adds none. *)
OnlyRemoves(r, q, g, t) ==
  /\ ActiveIn(q, t) = ActiveIn(r, t) \ {g}
  /\ \A h \in ActiveIn(r, t) : KeyIn(q, h) = KeyIn(r, h) /\ q[h] = r[h]

LEMMA RevokeRemoves ==
  ASSUME NEW r \in Seq(Lines), NEW e \in Revocations, NEW q, q = Append(r, e), NEW t
  PROVE  OnlyRemoves(r, q, e.grant, t)
<1>0. e \in Lines /\ e.type = "approval_revoked"
  BY LineKinds DEF Lines
<1>1. Len(q) = Len(r) + 1 /\ q[Len(r) + 1] = e /\ Len(r) \in Nat
      /\ \A i \in 1..Len(r) : q[i] = r[i]
  BY <1>0, Appended
<1>2. ASSUME NEW h \in ActiveIn(q, t)
      PROVE  h \in ActiveIn(r, t) /\ h # e.grant
  <2>1. h \in 1..Len(q) /\ IsActive(q, h, t)
    BY <1>2 DEF ActiveIn
  <2>2. h # Len(r) + 1
    BY <1>0, <1>1, <2>1 DEF IsActive, IsGrant
  <2>3. Len(r) + 1 \in 1..(Len(q) + 1) - 1
    BY <1>1
  <2>4. h # e.grant
    BY <1>0, <1>1, <2>1, <2>3 DEF IsActive, RevokedBefore
  <2> QED BY <1>0, <1>1, <1>2, <2>2, <2>4, ActiveShrinks DEF OpensOnlyLast
<1>3. \A h \in ActiveIn(r, t) : h # e.grant => h \in ActiveIn(q, t)
  BY <1>0, ActiveStays DEF StaysActive
<1>4. \A h \in ActiveIn(r, t) : q[h] = r[h]
  BY <1>1 DEF ActiveIn
<1> QED BY <1>2, <1>3, <1>4 DEF KeyIn, OnlyRemoves

(* Time only takes grants out of the active set. *)
LEMMA TimeRemoves ==
  ASSUME NEW r \in Seq(Lines), NEW t \in Nat, NEW u \in Nat, t <= u
  PROVE  ActiveIn(r, u) = {g \in ActiveIn(r, t) : u < r[g].expires}
<1>1. ASSUME NEW g \in 1..Len(r)
      PROVE  IsActive(r, g, u) <=> IsActive(r, g, t) /\ u < r[g].expires
  <2>1. r[g] \in Lines
    OBVIOUS
  <2>2. r[g].expires \in Nat
    BY <2>1, LineKinds
  <2> QED BY <2>2 DEF IsActive
<1> QED BY <1>1 DEF ActiveIn

-----------------------------------------------------------------------------
(* What the writers do to the file, in terms of the lines they can rely on.*)
LEMMA SureCases ==
  ASSUME TypeOK
  PROVE  /\ registry \in Seq(Lines) /\ Len(registry) \in Nat
         /\ Sure \in Seq(Lines)
         /\ ~EndIsOpen => Sure = registry
         /\ EndIsOpen => /\ Len(Sure) = Len(registry) - 1 /\ Len(registry) > 0
                         /\ \A i \in 1..Len(Sure) : Sure[i] = registry[i]
<1>1. registry \in Seq(Lines) /\ Len(registry) \in Nat
  BY DEF TypeOK, Lines
<1>2. CASE EndIsOpen
  <2>1. Len(registry) > 0 /\ Sure = SubSeq(registry, 1, Len(registry) - 1)
    BY <1>2 DEF Sure, EndIsOpen
  <2>2. PICK n \in Nat : n = Len(registry) - 1 /\ Len(registry) = n + 1
    BY <1>1, <2>1
  <2>3. Sure = SubSeq(registry, 1, n)
    BY <2>1, <2>2
  <2>4. Sure \in Seq(Lines) /\ Len(Sure) = n /\ \A i \in 1..n : Sure[i] = registry[i]
    BY ONLY <1>1, <2>2, <2>3, LastCut
  <2> QED BY <1>1, <1>2, <2>1, <2>2, <2>4
<1>3. CASE ~EndIsOpen
  BY <1>1, <1>3 DEF Sure
<1> QED BY <1>1, <1>2, <1>3

LEMMA WriteCases ==
  ASSUME IInv, RegistryLoads, NEW line \in Lines, line # Torn,
         Recorded(line) \/ CutShort(line)
  PROVE  /\ \/ registry' = Append(Sure, Torn) /\ Sure' = Sure
            \/ /\ Sure = registry
               /\ registry' = Append(registry, line)
               /\ Sure' \in {registry, registry'}
         /\ TornIsLast'
         /\ ended' \in BOOLEAN
<1>0. /\ registry \in Seq(Lines) /\ Len(registry) \in Nat /\ Sure \in Seq(Lines)
      /\ ended \in BOOLEAN
  BY SureCases DEF IInv, TypeOK
<1>1. \A i \in 1..Len(registry) : registry[i] # Torn
  <2>1. ASSUME NEW i \in 1..Len(registry), registry[i] = Torn PROVE FALSE
    <3>1. Parses(registry, i)
      BY DEF RegistryLoads, Loads
    <3> QED BY <2>1, <3>1, TornTyped DEF Parses, IsGrant
  <2> QED BY <2>1
<1>2. registry' \in {Extended(line), Extended(Torn)} /\ ended' \in BOOLEAN
      /\ (ended' => registry' = Extended(line))
  BY DEF Recorded, CutShort
<1>3. CASE ended
  <2>1. ~EndIsOpen /\ Sure = registry
    BY <1>1, <1>3 DEF EndIsOpen, Sure
  <2>2. PICK e \in {line, Torn} : registry' = Append(registry, e) /\ (ended' => e = line)
    BY <1>2, <1>3 DEF Extended
  <2>3. e \in Lines
    BY <2>2, TornTyped
  <2>4. /\ Len(registry') = Len(registry) + 1 /\ registry'[Len(registry) + 1] = e
        /\ \A i \in 1..Len(registry) : registry'[i] = registry[i]
    BY <1>0, <2>2, <2>3, Appended
  <2>5. TornIsLast'
    <3>1. \A i \in 1..Len(registry') : i = Len(registry') \/ i \in 1..Len(registry)
      BY <1>0, <2>4
    <3>2. registry' # << >>
      BY <1>0, <2>4
    <3>3. \A i \in 1..Len(registry') : registry'[i] = Torn => i = Len(registry')
      BY <1>1, <2>4, <3>1
    <3> QED BY <3>2, <3>3 DEF TornIsLast
  <2>6. SubSeq(registry', 1, Len(registry') - 1) = registry
    BY <1>0, <2>2, <2>3
  <2>7. Sure' = IF EndIsOpen' THEN registry ELSE registry'
    BY <2>6 DEF Sure
  <2>8. e = Torn => EndIsOpen'
    BY <1>0, <2>4 DEF EndIsOpen
  <2> QED BY <1>2, <2>1, <2>2, <2>5, <2>7, <2>8
<1>4. CASE ~ended
  <2>1. registry # << >> /\ Len(registry) > 0 /\ EndIsOpen
    BY <1>0, <1>4 DEF IInv, TornIsLast, EndIsOpen
  <2>2. registry' = [registry EXCEPT ![Len(registry)] = Torn]
    BY <1>2, <1>4 DEF Extended
  <2>3. /\ Len(registry') = Len(registry) /\ registry'[Len(registry)] = Torn
        /\ registry' \in Seq(Lines)
        /\ \A i \in 1..Len(registry) : i # Len(registry) => registry'[i] = registry[i]
    BY <1>0, <2>1, <2>2, TornTyped
  <2>4. TornIsLast' /\ EndIsOpen'
    <3>1. registry' # << >>
      BY <1>0, <2>1, <2>3
    <3> QED BY <1>1, <2>1, <2>3, <3>1 DEF TornIsLast, EndIsOpen
  <2>5. Sure = SubSeq(registry, 1, Len(registry) - 1)
        /\ Sure' = SubSeq(registry', 1, Len(registry') - 1)
    BY <2>1, <2>4 DEF Sure
  <2>6. /\ Len(Sure) = Len(registry) - 1 /\ Len(Sure') = Len(registry) - 1
        /\ Sure' \in Seq(Lines)
        /\ \A i \in 1..Len(registry) - 1 : Sure[i] = registry[i] /\ Sure'[i] = registry'[i]
    BY <1>0, <2>1, <2>3, <2>5
  <2>7. Sure' = Sure
    BY <1>0, <2>3, <2>6
  <2>8. registry' = Append(Sure, Torn)
    BY <1>0, <2>1, <2>3, <2>6, TornTyped
  <2> QED BY <1>2, <2>4, <2>7, <2>8
<1> QED BY <1>0, <1>3, <1>4

(* A repair takes the one line off the end that is not JSON. *)
LEMMA RepairCases ==
  ASSUME IInv, Repair
  PROVE  /\ ~RegistryLoads /\ EndIsOpen
         /\ registry' = Sure /\ Sure' = Sure
         /\ ended' = TRUE /\ TornIsLast'
<1>0. registry \in Seq(Lines) /\ Len(registry) \in Nat
  BY SureCases DEF IInv
<1>1. PICK n \in 1..Len(registry) :
        NotJson = n .. Len(registry) /\ registry' = SubSeq(registry, 1, n - 1)
  BY DEF Repair
<1>2. registry[n] = Torn /\ n = Len(registry)
  <2>1. n \in NotJson
    BY <1>0, <1>1
  <2> QED BY <1>1, <2>1 DEF NotJson, IInv, TornIsLast
<1>3. ~RegistryLoads
  <2>1. ~Parses(registry, n)
    BY <1>2, TornTyped DEF Parses, IsGrant
  <2> QED BY <1>1, <2>1 DEF RegistryLoads, Loads
<1>4. EndIsOpen /\ registry' = Sure
  BY <1>0, <1>1, <1>2 DEF EndIsOpen, Sure
<1>5. /\ registry' \in Seq(Lines) /\ Len(registry') = Len(registry) - 1
      /\ \A i \in 1..Len(registry') : i \in 1..Len(registry) /\ i # Len(registry)
                                    /\ registry'[i] = registry[i]
  BY <1>0, <1>1, <1>2
<1>6. \A i \in 1..Len(registry') : registry'[i] # Torn
  BY <1>5 DEF IInv, TornIsLast
<1>7. ended' = TRUE
  BY DEF Repair
<1>8. ~EndIsOpen'
  <2>1. Len(registry') > 0 => Len(registry') \in 1..Len(registry')
    BY <1>5
  <2> QED BY <1>6, <1>7, <2>1 DEF EndIsOpen
<1>9. Sure' = registry'
  BY <1>8 DEF Sure
<1> QED BY <1>3, <1>4, <1>6, <1>7, <1>9 DEF TornIsLast

-----------------------------------------------------------------------------
(* The names of active grants stay apart. *)
LEMMA KeptOne ==
  ASSUME NEW r, NEW q, NEW t, NEW u, Unique(r, t), ActiveIn(q, u) \subseteq ActiveIn(r, t),
         \A g \in ActiveIn(q, u) : KeyIn(q, g) = KeyIn(r, g)
  PROVE  Unique(q, u) /\ LiveIn(q, u) \subseteq LiveIn(r, t)
  BY DEF Unique, LiveIn

LEMMA TornKeepsOne ==
  ASSUME NEW r \in Seq(Lines), NEW q, q = Append(r, Torn), NEW t, Unique(r, t)
  PROVE  Unique(q, t)
<1>1. ActiveIn(q, t) = ActiveIn(r, t) /\ \A g \in ActiveIn(r, t) : KeyIn(q, g) = KeyIn(r, g)
  BY TornAppended
<1> QED BY <1>1, KeptOne

LEMMA RevokeKeepsOne ==
  ASSUME NEW r \in Seq(Lines), NEW e \in Revocations, NEW q, q = Append(r, e),
         NEW t, Unique(r, t)
  PROVE  Unique(q, t) /\ LiveIn(q, t) \subseteq LiveIn(r, t)
<1>1. OnlyRemoves(r, q, e.grant, t)
  BY RevokeRemoves
<1> QED BY <1>1, KeptOne DEF OnlyRemoves

LEMMA TimeKeepsOne ==
  ASSUME NEW r \in Seq(Lines), NEW t \in Nat, NEW u \in Nat, t <= u, Unique(r, t)
  PROVE  Unique(r, u) /\ LiveIn(r, u) \subseteq LiveIn(r, t)
<1>1. ActiveIn(r, u) \subseteq ActiveIn(r, t)
  BY TimeRemoves
<1> QED BY <1>1, KeptOne

-----------------------------------------------------------------------------
(* The invariant, one step at a time. *)
LEMMA InitIInv == Init => IInv
<1> SUFFICES ASSUME Init PROVE IInv
  OBVIOUS
<1>1. registry = << >> /\ Len(registry) = 0 /\ ended = TRUE
  BY DEF Init
<1>2. TypeOK
  BY <1>1 DEF Init, TypeOK, States, InitialState
<1>3. Sure = registry
  BY <1>1 DEF Sure, EndIsOpen
<1>4. ActiveIn(registry, now) = {}
  BY <1>1 DEF ActiveIn
<1> QED BY <1>1, <1>2, <1>3, <1>4 DEF IInv, TornIsLast, Unique

LEMMA WriteTyped ==
  ASSUME IInv, RegistryLoads, Len(registry) < MaxEvents,
         NEW line \in Lines, line # Torn, line.expires <= line.occurred + MaxLifetime,
         Recorded(line) \/ CutShort(line)
  PROVE  /\ registry' \in Seq(Lines) /\ Len(registry') <= MaxEvents
         /\ \A i \in 1..Len(registry') :
              registry'[i].expires <= registry'[i].occurred + MaxLifetime
<1>0. /\ registry \in Seq(Lines) /\ Len(registry) \in Nat /\ Sure \in Seq(Lines)
      /\ Len(registry) <= MaxEvents
      /\ \A i \in 1..Len(registry) : registry[i].expires <= registry[i].occurred + MaxLifetime
  BY SureCases DEF IInv, TypeOK
<1>1. /\ Len(Sure) + 1 <= MaxEvents
      /\ \A i \in 1..Len(Sure) : i \in 1..Len(registry) /\ Sure[i] = registry[i]
  BY <1>0, SureCases DEF IInv
<1>2. ASSUME NEW r \in Seq(Lines), Len(r) + 1 <= MaxEvents, NEW e \in Lines,
             e.expires <= e.occurred + MaxLifetime,
             \A i \in 1..Len(r) : r[i].expires <= r[i].occurred + MaxLifetime,
             registry' = Append(r, e)
      PROVE  /\ registry' \in Seq(Lines) /\ Len(registry') <= MaxEvents
             /\ \A i \in 1..Len(registry') :
                  registry'[i].expires <= registry'[i].occurred + MaxLifetime
  <2>1. /\ registry' \in Seq(Lines) /\ Len(registry') = Len(r) + 1 /\ Len(r) \in Nat
        /\ registry'[Len(r) + 1] = e /\ \A i \in 1..Len(r) : registry'[i] = r[i]
    BY <1>2, Appended
  <2>2. \A i \in 1..Len(registry') : i = Len(r) + 1 \/ i \in 1..Len(r)
    BY <2>1
  <2> QED BY <1>2, <2>1, <2>2
<1>3. CASE registry' = Append(Sure, Torn)
  <2>1. Torn.expires <= Torn.occurred + MaxLifetime /\ Torn \in Lines
    BY TornTyped
  <2> QED BY <1>0, <1>1, <1>2, <1>3, <2>1
<1>4. CASE registry' = Append(registry, line)
  BY <1>0, <1>2, <1>4
<1> QED BY <1>3, <1>4, WriteCases

LEMMA GrantStep ==
  ASSUME IInv, NEW action \in GrantActions, NEW candidate \in GrantCandidates,
         NEW seconds \in now .. now + MaxLifetime + 1, NEW fraction \in Fractions,
         GrantApproval(action, candidate, seconds, fraction)
  PROVE  IInv'
<1> DEFINE line == Granted(Len(registry) + 1, action, candidate, now, seconds)
<1>0. /\ now \in Nat /\ seconds \in Nat /\ registry \in Seq(Lines) /\ Len(registry) \in Nat
      /\ TypeOK /\ Sure \in Seq(Lines)
  BY SureCases DEF IInv, TypeOK
<1>1. /\ RegistryLoads /\ Len(registry) < MaxEvents /\ seconds <= now + MaxLifetime
      /\ <<action, candidate>> \notin Live /\ (Recorded(line) \/ CutShort(line))
      /\ UNCHANGED <<now, state, scope, withdrawn>>
  BY <1>0 DEF GrantApproval, ValidExpiry, Duplicate
<1>2. line \in Grants /\ line.expires = seconds /\ line.occurred = now
      /\ <<line.action, line.candidate>> = <<action, candidate>>
  BY <1>0, GrantedTyped DEF Granted
<1>3. line \in Lines /\ line # Torn
  BY <1>2, LineKinds DEF Lines
<1> HIDE DEF line
<1>4. /\ registry' \in Seq(Lines) /\ Len(registry') <= MaxEvents
      /\ \A i \in 1..Len(registry') :
           registry'[i].expires <= registry'[i].occurred + MaxLifetime
  BY <1>1, <1>2, <1>3, WriteTyped
<1>5. /\ \/ registry' = Append(Sure, Torn) /\ Sure' = Sure
         \/ /\ Sure = registry
            /\ registry' = Append(registry, line)
            /\ Sure' \in {registry, registry'}
      /\ TornIsLast'
      /\ ended' \in BOOLEAN
  BY <1>1, <1>3, WriteCases
<1>6. TypeOK'
  BY <1>0, <1>1, <1>4, <1>5 DEF TypeOK, Lines
<1>7. Unique(registry', now) /\ Unique(Sure', now)
  <2>1. CASE registry' = Append(Sure, Torn) /\ Sure' = Sure
    BY <1>0, <2>1, TornKeepsOne DEF IInv
  <2>2. CASE registry' = Append(registry, line) /\ Sure' \in {registry, registry'}
    <3>1. Unique(registry, now) /\ <<line.action, line.candidate>> \notin LiveIn(registry, now)
      BY <1>1, <1>2 DEF IInv, Live
    <3>2. Unique(registry', now)
      BY <1>0, <1>2, <2>2, <3>1, GrantKeepsOne
    <3> QED BY <2>2, <3>1, <3>2
  <2> QED BY <1>5, <2>1, <2>2
<1> QED BY <1>1, <1>5, <1>6, <1>7 DEF IInv

LEMMA RevokeLine ==
  ASSUME IInv, NEW g \in 1..Len(registry), RevokeApproval(g)
  PROVE  \E line \in Revocations :
           /\ line = RevokedEvent(g, now) /\ line.grant = g /\ line.occurred = now
           /\ line \in Lines /\ line # Torn
           /\ Recorded(line) \/ CutShort(line)
           /\ line.expires <= line.occurred + MaxLifetime
<1>1. g \in Nat /\ now \in Nat
  BY DEF IInv, TypeOK
<1>2. RevokedEvent(g, now) \in Revocations
  BY <1>1, RevokedTyped
<1>3. RevokedEvent(g, now).grant = g /\ RevokedEvent(g, now).occurred = now
      /\ RevokedEvent(g, now).expires = 0
  BY DEF RevokedEvent
<1>4. RevokedEvent(g, now) \in Lines /\ RevokedEvent(g, now) # Torn
  BY <1>2, LineKinds DEF Lines
<1>5. Recorded(RevokedEvent(g, now)) \/ CutShort(RevokedEvent(g, now))
  BY DEF RevokeApproval
<1> QED BY <1>1, <1>2, <1>3, <1>4, <1>5

LEMMA RevokeStep ==
  ASSUME IInv, NEW g \in 1..Len(registry), RevokeApproval(g)
  PROVE  IInv'
<1>0. /\ now \in Nat /\ registry \in Seq(Lines) /\ Len(registry) \in Nat
      /\ TypeOK /\ Sure \in Seq(Lines)
  BY SureCases DEF IInv, TypeOK
<1>1. /\ RegistryLoads /\ Len(registry) < MaxEvents
      /\ UNCHANGED <<now, state, scope>> /\ withdrawn' \in {withdrawn, withdrawn \cup {g}}
  BY DEF RevokeApproval
<1>2. PICK line \in Revocations :
        /\ line \in Lines /\ line # Torn /\ line.expires <= line.occurred + MaxLifetime
        /\ Recorded(line) \/ CutShort(line)
  BY RevokeLine
<1>3. /\ registry' \in Seq(Lines) /\ Len(registry') <= MaxEvents
      /\ \A i \in 1..Len(registry') :
           registry'[i].expires <= registry'[i].occurred + MaxLifetime
  BY <1>1, <1>2, WriteTyped
<1>4. /\ \/ registry' = Append(Sure, Torn) /\ Sure' = Sure
         \/ /\ Sure = registry
            /\ registry' = Append(registry, line)
            /\ Sure' \in {registry, registry'}
      /\ TornIsLast'
      /\ ended' \in BOOLEAN
  BY <1>1, <1>2, WriteCases
<1>5. withdrawn' \in SUBSET (1..MaxEvents)
  <2>1. g \in 1..MaxEvents
    BY <1>0, <1>1
  <2> QED BY <1>0, <1>1, <2>1 DEF TypeOK
<1>6. TypeOK'
  BY <1>0, <1>1, <1>3, <1>4, <1>5 DEF TypeOK, Lines
<1>7. Unique(registry', now) /\ Unique(Sure', now)
  <2>1. CASE registry' = Append(Sure, Torn) /\ Sure' = Sure
    BY <1>0, <2>1, TornKeepsOne DEF IInv
  <2>2. CASE registry' = Append(registry, line) /\ Sure' \in {registry, registry'}
    <3>1. Unique(registry', now)
      BY <1>0, <1>2, <2>2, RevokeKeepsOne DEF IInv
    <3> QED BY <2>2, <3>1 DEF IInv
  <2> QED BY <1>4, <2>1, <2>2
<1> QED BY <1>1, <1>4, <1>6, <1>7 DEF IInv

LEMMA RepairStep ==
  ASSUME IInv, Repair
  PROVE  IInv'
<1>1. /\ registry' = Sure /\ Sure' = Sure /\ ended' = TRUE /\ TornIsLast' /\ EndIsOpen
  BY RepairCases
<1>2. /\ registry \in Seq(Lines) /\ Len(registry) \in Nat /\ Sure \in Seq(Lines)
      /\ Len(Sure) = Len(registry) - 1 /\ \A i \in 1..Len(Sure) : Sure[i] = registry[i]
      /\ TypeOK
  BY <1>1, SureCases DEF IInv
<1>3. UNCHANGED <<now, state, scope>> /\ withdrawn' \subseteq withdrawn
  BY DEF Repair
<1>4. \A i \in 1..Len(registry') :
        registry'[i].expires <= registry'[i].occurred + MaxLifetime
  <2>1. \A i \in 1..Len(Sure) : i \in 1..Len(registry)
    BY <1>2
  <2> QED BY <1>1, <1>2, <2>1 DEF TypeOK
<1>5. Len(registry') <= MaxEvents
  BY <1>1, <1>2 DEF TypeOK
<1>6. TypeOK'
  BY <1>1, <1>2, <1>3, <1>4, <1>5 DEF TypeOK, Lines
<1> QED BY <1>1, <1>3, <1>6 DEF IInv

LEMMA TickStep ==
  ASSUME IInv, Tick
  PROVE  IInv'
<1>1. UNCHANGED <<registry, ended, state, scope, withdrawn>>
      /\ now \in Nat /\ now' \in Nat /\ now <= now' /\ now' \in 0..MaxTime
  BY DEF IInv, TypeOK, Tick
<1>2. Sure' = Sure /\ TornIsLast'
  BY <1>1 DEF Sure, EndIsOpen, IInv, TornIsLast
<1>3. registry \in Seq(Lines) /\ Sure \in Seq(Lines)
  BY SureCases DEF IInv
<1>4. Unique(registry, now') /\ Unique(Sure, now')
  BY <1>1, <1>3, TimeKeepsOne DEF IInv
<1>5. TypeOK'
  BY <1>1 DEF IInv, TypeOK
<1> QED BY <1>1, <1>2, <1>4, <1>5 DEF IInv

LEMMA StepIInv == IInv /\ [Next]_vars => IInv'
<1> SUFFICES ASSUME IInv, [Next]_vars PROVE IInv'
  OBVIOUS
<1>1. ASSUME UNCHANGED <<registry, ended, now, withdrawn>>, state' \in States,
             scope' \in SUBSET Candidates
      PROVE  IInv'
  <2>1. TypeOK'
    BY <1>1 DEF IInv, TypeOK
  <2>2. Sure' = Sure /\ TornIsLast'
    BY <1>1 DEF Sure, EndIsOpen, IInv, TornIsLast
  <2> QED BY <1>1, <2>1, <2>2 DEF IInv
<1>2. TransitionState => state' \in States
  BY DEF IInv, TypeOK, TransitionState, AllowedTransitions, States
<1>3. CASE UNCHANGED vars
  BY <1>1, <1>3 DEF vars, IInv, TypeOK
<1>4. CASE TransitionState
  BY <1>1, <1>2, <1>4 DEF TransitionState, IInv, TypeOK
<1>5. CASE EditScope
  BY <1>1, <1>5 DEF EditScope, IInv, TypeOK
<1> QED BY <1>3, <1>4, <1>5, GrantStep, RevokeStep, RepairStep, TickStep DEF Next

LEMMA InvariantHolds == Spec => []IInv
  BY InitIInv, StepIInv, PTL DEF Spec

-----------------------------------------------------------------------------
(* The registry holds lines of three kinds and no expiry beyond the        *)
(* longest lifetime, through crashes and repairs (approval.py:237-241,     *)
(* 405-605; repair.py:48-69).                                              *)
THEOREM TypeCorrect == Spec => []TypeOK
<1>1. IInv => TypeOK
  BY DEF IInv
<1> QED BY <1>1, InvariantHolds, PTL

(* Two active approvals never have the same name, whatever was granted,    *)
(* revoked, cut off and repaired before (approval.py:550-558).             *)
THEOREM OneActivePerName == Spec => []AtMostOneActive
<1>1. IInv => AtMostOneActive
  BY DEF IInv, Unique, AtMostOneActive, ActiveGrants, Key
<1> QED BY <1>1, InvariantHolds, PTL

(* An intrusive action is authorised by an approval of its own candidate   *)
(* only (approval.py:40-42, 752-768).                                      *)
THEOREM IntrusiveNeedsExact == Spec => []IntrusiveIsExact
<1>1. ASSUME RegistryLoads, NEW g \in ActiveGrants,
             Key(g) = <<"intrusive_validation", ScopeWide>>
      PROVE  FALSE
  <2>1. g \in 1..Len(registry) /\ IsGrant(registry, g)
    BY <1>1 DEF ActiveGrants, ActiveIn, IsActive
  <2>2. registry[g].action = "intrusive_validation" /\ registry[g].candidate = ScopeWide
    BY <1>1 DEF Key, KeyIn
  <2>3. "intrusive_validation" \in ScopeWideApprovable
    BY <1>1, <2>1, <2>2 DEF RegistryLoads, Loads, Parses, IsGrant
  <2> QED BY <2>3 DEF ScopeWideApprovable, ActiveActions
<1>2. ASSUME NEW candidate \in Candidates, Authorised("intrusive_validation", candidate)
      PROVE  \E g \in ActiveGrants : Key(g) = <<"intrusive_validation", candidate>>
  <2>1. RegistryLoads /\ Covered("intrusive_validation", candidate, Live)
    BY <1>2 DEF Authorised, Allowed, Approvable, IntrusiveActions
  <2>2. \A k \in Live : \E g \in ActiveGrants : Key(g) = k
    BY DEF Live, LiveIn, ActiveGrants, Key
  <2>3. <<"intrusive_validation", ScopeWide>> \notin Live
    BY <1>1, <2>1, <2>2
  <2> QED BY <2>1, <2>2, <2>3 DEF Covered
<1>3. IntrusiveIsExact
  BY <1>2 DEF IntrusiveIsExact
<1> QED BY <1>3, PTL

(* Revoking a grant ends the authorization of its name in that very step,  *)
(* however the append goes (approval.py:580-605).                          *)
THEOREM WithdrawalEffective == Spec => WithdrawalIsEffective
<1>1. ASSUME IInv, NEW g \in ActiveGrants, RevokeApproval(g), RegistryLoads'
      PROVE  Key(g) \notin Live'
  <2>0. registry \in Seq(Lines) /\ Sure \in Seq(Lines) /\ g \in 1..Len(registry)
        /\ now' = now /\ RegistryLoads
    BY <1>1, SureCases DEF IInv, ActiveGrants, ActiveIn, RevokeApproval
  <2>1. PICK line \in Revocations :
          /\ line.grant = g /\ line \in Lines /\ line # Torn
          /\ Recorded(line) \/ CutShort(line)
    BY <1>1, <2>0, RevokeLine
  <2>2. registry' # Append(Sure, Torn)
    <3>1. registry' = Append(Sure, Torn) => ~Loads(registry')
      BY <2>0, TornAppended
    <3> QED BY <1>1, <3>1 DEF RegistryLoads
  <2>3. registry' = Append(registry, line)
    BY <1>1, <2>0, <2>1, <2>2, WriteCases
  <2>4. OnlyRemoves(registry, registry', g, now)
    BY <2>0, <2>1, <2>3, RevokeRemoves
  <2>5. \A h \in ActiveGrants : h # g => Key(h) # Key(g)
    BY <1>1 DEF IInv, Unique, ActiveGrants, Key
  <2>6. Live' = {KeyIn(registry', h) : h \in ActiveIn(registry', now)}
    BY <2>0 DEF Live, LiveIn
  <2> QED BY <2>4, <2>5, <2>6 DEF OnlyRemoves, ActiveGrants, Key
<1>2. IInv /\ [Next]_vars
        => [\A g \in ActiveGrants :
              RevokeApproval(g) /\ RegistryLoads' => Key(g) \notin Live']_vars
  BY <1>1
<1> QED BY <1>2, InvariantHolds, PTL DEF Spec, WithdrawalIsEffective

-----------------------------------------------------------------------------
(* With expiries in whole seconds, as the web application computes them,   *)
(* whatever crashes and repairs do to the file, the registry loads but for *)
(* a last line that is not JSON, which the next repair drops               *)
(* (approval.py:237-241, 244-372, 526-529; repair.py:48-69).  With finer   *)
(* expiries it does not: see the run of AnyExpiry.                         *)
THEOREM RegistryAlwaysRecovers ==
  ASSUME Fractions = {0}
  PROVE  Spec => []RegistryRecovers
<1>1. Init => RegistryRecovers
  BY DEF Init, RegistryRecovers
<1>2. ASSUME NEW n \in Nat, n <= Len(registry), Len(registry) \in Nat, NEW i \in 1..n,
             \A j \in 1..n : registry'[j] = registry[j], Parses(registry, i)
      PROVE  Parses(registry', i)
  <2>1. i \in Nat /\ i > 0 /\ \A j \in 1..i : j \in 1..n
    BY <1>2
  <2>2. \A j \in 1..i : registry'[j] = registry[j]
    BY <1>2, <2>1
  <2> QED BY ONLY <1>2, <2>1, <2>2, ParsesLocal
<1>3. ASSUME IInv, RegistryLoads, NEW line \in Lines, line # Torn,
             Recorded(line) \/ CutShort(line),
             registry' = Append(registry, line) => Parses(registry', Len(registry) + 1)
      PROVE  RegistryRecovers'
  <2>0. registry \in Seq(Lines) /\ Len(registry) \in Nat /\ Sure \in Seq(Lines)
        /\ \A i \in 1..Len(registry) : Parses(registry, i)
    BY <1>3, SureCases DEF IInv, RegistryLoads, Loads
  <2>1. CASE registry' = Append(Sure, Torn)
    <3>1. /\ Len(registry') = Len(Sure) + 1 /\ Len(Sure) \in Nat
          /\ registry'[Len(Sure) + 1] = Torn
          /\ \A i \in 1..Len(Sure) : registry'[i] = Sure[i]
      BY <2>0, <2>1, Appended, TornTyped
    <3>2. Len(Sure) <= Len(registry) /\ \A i \in 1..Len(Sure) : Sure[i] = registry[i]
      BY <1>3, <2>0, <3>1, SureCases DEF IInv
    <3>3. \A i \in 1..Len(Sure) : i \in 1..Len(registry) /\ registry'[i] = registry[i]
      BY <2>0, <3>1, <3>2
    <3>4. \A i \in 1..Len(Sure) : Parses(registry', i)
      BY <1>2, <2>0, <3>1, <3>2, <3>3
    <3>5. \A i \in 1..Len(registry') : i \in 1..Len(Sure) \/ i = Len(registry')
      BY <3>1
    <3> QED BY <3>1, <3>4, <3>5 DEF RegistryRecovers
  <2>2. CASE registry' = Append(registry, line)
    <3>1. /\ Len(registry') = Len(registry) + 1
          /\ \A i \in 1..Len(registry) : registry'[i] = registry[i]
      BY <1>3, <2>0, <2>2, Appended
    <3>2. \A i \in 1..Len(registry) : Parses(registry', i)
      BY <1>2, <2>0, <3>1
    <3>3. \A i \in 1..Len(registry') : i \in 1..Len(registry) \/ i = Len(registry) + 1
      BY <2>0, <3>1
    <3> QED BY <1>3, <2>2, <3>2, <3>3 DEF RegistryRecovers
  <2> QED BY <1>3, <2>1, <2>2, WriteCases
<1>4. ASSUME IInv, RegistryRecovers, [Next]_vars
      PROVE  RegistryRecovers'
  <2>0. registry \in Seq(Lines) /\ Len(registry) \in Nat /\ now \in Nat
    BY <1>4, SureCases DEF IInv, TypeOK
  <2>1. ASSUME NEW action \in GrantActions, NEW candidate \in GrantCandidates,
               NEW seconds \in now .. now + MaxLifetime + 1, NEW fraction \in Fractions,
               GrantApproval(action, candidate, seconds, fraction)
        PROVE  RegistryRecovers'
    <3> DEFINE line == Granted(Len(registry) + 1, action, candidate, now, seconds)
    <3>1. /\ RegistryLoads /\ seconds \in Nat /\ seconds > now /\ seconds <= now + MaxLifetime
          /\ (candidate = ScopeWide => action \in ScopeWideApprovable)
          /\ Recorded(line) \/ CutShort(line)
      BY <2>0, <2>1 DEF GrantApproval, ValidExpiry
    <3>2. /\ line \in Grants /\ line.type = "approval_granted" /\ line.action = action
          /\ line.candidate = candidate /\ line.expires = seconds /\ line.occurred = now
      BY <2>0, <3>1, GrantedTyped DEF Granted
    <3>3. line \in Lines /\ line # Torn
      BY <3>2, LineKinds DEF Lines
    <3> HIDE DEF line
    <3>4. registry' = Append(registry, line) => Parses(registry', Len(registry) + 1)
      <4>1. registry' = Append(registry, line) => registry'[Len(registry) + 1] = line
        BY <2>0, <3>3
      <4> QED BY <3>1, <3>2, <4>1 DEF Parses, IsGrant
    <3> QED BY <1>3, <1>4, <3>1, <3>3, <3>4
  <2>2. ASSUME NEW g \in 1..Len(registry), RevokeApproval(g)
        PROVE  RegistryRecovers'
    <3>1. PICK line \in Revocations :
            /\ line.grant = g /\ line.occurred = now /\ line \in Lines /\ line # Torn
            /\ Recorded(line) \/ CutShort(line)
      BY <1>4, <2>2, RevokeLine
    <3>2. RegistryLoads /\ IsActive(registry, g, now)
      BY <2>2 DEF RevokeApproval, ActiveGrants, ActiveIn
    <3>3. registry' = Append(registry, line) => Parses(registry', Len(registry) + 1)
      <4> SUFFICES ASSUME registry' = Append(registry, line)
                   PROVE  Parses(registry', Len(registry) + 1)
        OBVIOUS
      <4>1. /\ registry'[Len(registry) + 1] = line
            /\ \A i \in 1..Len(registry) : registry'[i] = registry[i]
        BY <2>0, <3>1, Appended
      <4>2. \A j \in 1..(Len(registry) + 1) - 1 : j \in 1..Len(registry)
        BY <2>0
      <4>3. ~RevokedBefore(registry', g, Len(registry) + 1)
        BY <3>2, <4>1, <4>2 DEF IsActive, RevokedBefore
      <4>4. g \in 1..(Len(registry) + 1) - 1 /\ registry'[g] = registry[g]
        BY <2>0, <4>1
      <4>5. registry[g].expires > now
        <5>1. registry[g] \in Lines
          BY <2>0
        <5>2. registry[g].expires \in Nat /\ now < registry[g].expires
          BY <3>2, <5>1, LineKinds DEF IsActive
        <5> QED BY <2>0, <5>2
      <4>6. line.type = "approval_revoked"
        BY <3>1, LineKinds
      <4> QED BY <3>1, <3>2, <4>1, <4>3, <4>4, <4>5, <4>6 DEF Parses, IsActive, IsGrant
    <3> QED BY <1>3, <1>4, <3>1, <3>2, <3>3
  <2>3. CASE Repair
    <3>1. EndIsOpen /\ registry' = Sure
      BY <1>4, <2>3, RepairCases
    <3>2. /\ Len(Sure) = Len(registry) - 1 /\ Len(registry) > 0
          /\ \A i \in 1..Len(Sure) : Sure[i] = registry[i]
      BY <1>4, <3>1, SureCases DEF IInv
    <3>3. \A i \in 1..Len(Sure) : i \in 1..Len(registry) /\ i # Len(registry)
                                  /\ registry'[i] = registry[i]
      BY <2>0, <3>1, <3>2
    <3>4. \A i \in 1..Len(Sure) : Parses(registry', i)
      <4>1. Len(Sure) \in Nat /\ Len(Sure) <= Len(registry)
        BY <2>0, <3>2
      <4>2. \A i \in 1..Len(Sure) : Parses(registry, i)
        BY <1>4, <3>3 DEF RegistryRecovers
      <4> QED BY <1>2, <2>0, <3>3, <4>1, <4>2
    <3> QED BY <3>1, <3>4 DEF RegistryRecovers
  <2>4. CASE registry' = registry
    BY <1>4, <2>4 DEF RegistryRecovers, Parses, IsGrant, RevokedBefore
  <2> QED
    BY <1>4, <2>1, <2>2, <2>3, <2>4 DEF Next, vars, Tick, TransitionState, EditScope
<1> QED BY <1>1, <1>4, InvariantHolds, PTL DEF Spec

-----------------------------------------------------------------------------
(* The expiry of a name in the refinement mapping, in terms of the one     *)
(* active grant of that name.                                              *)
Keys == GrantActions \X GrantCandidates

LEMMA MaxOfOne ==
  ASSUME NEW e \in Nat
  PROVE  Max({e}) = e
  BY DEF Max

LEMMA ExpiryOfGrant ==
  ASSUME NEW S, NEW e \in Nat, S = {e}
  PROVE  S # {} /\ Max(S) = e
  BY MaxOfOne

LEMMA ActiveTyped ==
  ASSUME NEW r \in Seq(Lines), NEW t \in Nat, NEW g \in ActiveIn(r, t)
  PROVE  /\ g \in 1..Len(r) /\ KeyIn(r, g) \in Keys
         /\ r[g].expires \in Nat /\ t < r[g].expires
<1>1. g \in 1..Len(r) /\ r[g] \in Lines /\ t < r[g].expires /\ r[g].type = "approval_granted"
  BY DEF ActiveIn, IsActive, IsGrant
<1>2. r[g] \in Grants
  BY <1>1, LineKinds
<1> QED BY <1>1, <1>2 DEF Grants, KeyIn, Keys

LEMMA ExpiryCases ==
  ASSUME NEW r \in Seq(Lines), NEW t \in Nat, Unique(r, t), NEW k \in Keys
  PROVE  /\ \A g \in ActiveIn(r, t) :
              KeyIn(r, g) = k /\ Loads(r) => Expiry(r, t)[k] = r[g].expires
         /\ k \notin LiveIn(r, t) \/ ~Loads(r) => Expiry(r, t)[k] = 0
<1>0. Expiry(r, t)[k] =
        IF Loads(r) /\ ExpiriesOf(k, r, t) # {} THEN Max(ExpiriesOf(k, r, t)) ELSE 0
  BY DEF Expiry, Keys
<1>1. ASSUME NEW g \in ActiveIn(r, t), KeyIn(r, g) = k, Loads(r)
      PROVE  Expiry(r, t)[k] = r[g].expires
  <2>1. ExpiriesOf(k, r, t) = {r[g].expires}
    BY <1>1 DEF ExpiriesOf, Unique
  <2>2. r[g].expires \in Nat
    BY <1>1, ActiveTyped
  <2> QED BY <1>0, <1>1, <2>1, <2>2, ExpiryOfGrant
<1>2. ASSUME k \notin LiveIn(r, t) \/ ~Loads(r)
      PROVE  Expiry(r, t)[k] = 0
  <2>1. k \notin LiveIn(r, t) => ExpiriesOf(k, r, t) = {}
    BY DEF ExpiriesOf, LiveIn
  <2> QED BY <1>0, <1>2, <2>1
<1> QED BY <1>1, <1>2

LEMMA ExpiryIsFunction ==
  ASSUME NEW r, NEW t
  PROVE  Expiry(r, t) = [k \in Keys |-> Expiry(r, t)[k]]
  BY DEF Expiry, Keys

LEMMA NothingWhenDamaged ==
  ASSUME NEW r, NEW t, ~Loads(r)
  PROVE  Expiry(r, t) = Authorities!Nothing
  BY DEF Expiry, Authorities!Nothing

(* What an accepted grant, an accepted revocation and time do to it. *)
OpensName(r, q, e, t) ==
  LET c == <<e.action, e.candidate>> IN
  /\ e.expires > t
  /\ Expiry(r, t)[c] = 0
  /\ Expiry(q, t) = [Expiry(r, t) EXCEPT ![c] = e.expires]

ClosesName(r, q, g, t) ==
  /\ KeyIn(r, g) \in Keys
  /\ Expiry(q, t) = [Expiry(r, t) EXCEPT ![KeyIn(r, g)] = 0]

LEMMA GrantExpires ==
  ASSUME NEW r \in Seq(Lines), NEW e \in Grants, NEW q, q = Append(r, e), NEW t \in Nat,
         Unique(r, t), e.occurred = t, Loads(r), Loads(q),
         <<e.action, e.candidate>> \notin LiveIn(r, t)
  PROVE  OpensName(r, q, e, t)
<1> DEFINE c == <<e.action, e.candidate>>
<1>0. /\ e \in Lines /\ e.type = "approval_granted" /\ e.expires \in Nat /\ c \in Keys
  BY LineKinds DEF Lines, Grants, Keys
<1> HIDE DEF c
<1>1. /\ q \in Seq(Lines) /\ Len(q) = Len(r) + 1 /\ q[Len(r) + 1] = e /\ Len(r) \in Nat
      /\ \A i \in 1..Len(r) : q[i] = r[i]
  BY <1>0, Appended
<1>2. PICK n \in Nat : n = Len(r) + 1 /\ n \in 1..Len(q)
  BY <1>1
<1>3. e.expires > t
  <2>1. Parses(q, n)
    BY <1>2 DEF Loads
  <2> QED BY <1>0, <1>1, <1>2, <2>1 DEF Parses, IsGrant
<1>4. n \in ActiveIn(q, t) /\ KeyIn(q, n) = c
  <2>1. ASSUME NEW j \in 1..(Len(q) + 1) - 1,
               q[j].type = "approval_revoked", q[j].grant = n
        PROVE  FALSE
    <3>1. j # n
      BY <1>0, <1>1, <1>2, <2>1
    <3>2. j \in 1..Len(r) /\ r[j].grant = n /\ r[j].type = "approval_revoked"
      BY <1>1, <1>2, <2>1, <3>1
    <3>3. Parses(r, j)
      BY <3>2 DEF Loads
    <3>4. r[j].grant \in 1..j - 1
      BY <3>2, <3>3 DEF Parses, IsGrant
    <3> QED BY <1>1, <1>2, <3>2, <3>4
  <2> QED BY <1>0, <1>1, <1>2, <1>3, <2>1 DEF ActiveIn, IsActive, IsGrant, RevokedBefore, KeyIn, c
<1>5. Unique(q, t) /\ LiveIn(q, t) \subseteq LiveIn(r, t) \cup {c}
  BY GrantKeepsOne DEF c
<1>6. Expiry(q, t)[c] = e.expires
  <2>1. Expiry(q, t)[c] = q[n].expires
    BY ONLY <1>0, <1>1, <1>4, <1>5, ExpiryCases, t \in Nat, Loads(q)
  <2> QED BY <1>1, <1>2, <2>1
<1>7. Expiry(r, t)[c] = 0
  BY <1>0, ExpiryCases DEF c
<1>8. ASSUME NEW k \in Keys, k # c
      PROVE  Expiry(q, t)[k] = Expiry(r, t)[k]
  <2>1. CASE k \in LiveIn(r, t)
    <3>1. PICK g \in ActiveIn(r, t) : KeyIn(r, g) = k
      BY <2>1 DEF LiveIn
    <3>2. g \in ActiveIn(q, t) /\ q[g] = r[g]
      <4>1. e.type = "approval_revoked" => e.grant # g
        BY <1>0
      <4>2. StaysActive(r, q, g, t)
        BY <1>0, <3>1, <4>1, ActiveStays
      <4> QED BY <4>2 DEF StaysActive
    <3>3. KeyIn(q, g) = k
      BY <3>1, <3>2 DEF KeyIn
    <3>4. Expiry(r, t)[k] = r[g].expires
      BY <3>1, ExpiryCases
    <3>5. Expiry(q, t)[k] = q[g].expires
      BY ONLY <1>1, <1>5, <1>8, <3>2, <3>3, ExpiryCases, t \in Nat, Loads(q)
    <3> QED BY <3>2, <3>4, <3>5
  <2>2. CASE k \notin LiveIn(r, t)
    <3>1. k \notin LiveIn(q, t)
      BY <1>5, <1>8, <2>2
    <3>2. Expiry(r, t)[k] = 0
      BY <2>2, ExpiryCases
    <3>3. Expiry(q, t)[k] = 0
      BY ONLY <1>1, <1>5, <1>8, <3>1, ExpiryCases, t \in Nat
    <3> QED BY <3>2, <3>3
  <2> QED BY <2>1, <2>2
<1>9. Expiry(q, t) = [Expiry(r, t) EXCEPT ![c] = e.expires]
  <2>1. /\ Expiry(q, t) = [k \in Keys |-> Expiry(q, t)[k]]
        /\ Expiry(r, t) = [k \in Keys |-> Expiry(r, t)[k]]
    BY ExpiryIsFunction
  <2> QED BY <1>6, <1>8, <2>1
<1> QED BY <1>3, <1>7, <1>9 DEF c, OpensName

LEMMA RevokeExpires ==
  ASSUME NEW r \in Seq(Lines), NEW e \in Revocations, NEW q, q = Append(r, e), NEW t \in Nat,
         Unique(r, t), Loads(r), Loads(q), NEW g \in ActiveIn(r, t), e.grant = g
  PROVE  ClosesName(r, q, g, t)
<1>1. OnlyRemoves(r, q, g, t) /\ Unique(q, t) /\ KeyIn(r, g) \in Keys
  BY RevokeRemoves, RevokeKeepsOne, ActiveTyped
<1>2. q \in Seq(Lines)
  BY Appended DEF Lines
<1>3. ASSUME NEW k \in Keys
      PROVE  Expiry(q, t)[k] = IF k = KeyIn(r, g) THEN 0 ELSE Expiry(r, t)[k]
  <2>1. CASE k = KeyIn(r, g)
    <3>1. k \notin LiveIn(q, t)
      BY <1>1, <2>1 DEF LiveIn, Unique, OnlyRemoves
    <3> QED BY <1>1, <1>2, <2>1, <3>1, ExpiryCases
  <2>2. CASE k # KeyIn(r, g) /\ k \in LiveIn(r, t)
    <3>1. PICK h \in ActiveIn(r, t) : KeyIn(r, h) = k
      BY <2>2 DEF LiveIn
    <3>2. h \in ActiveIn(q, t) /\ KeyIn(q, h) = k /\ q[h] = r[h]
      BY <1>1, <2>2, <3>1 DEF OnlyRemoves
    <3>3. Expiry(r, t)[k] = r[h].expires
      BY <3>1, ExpiryCases
    <3>4. Expiry(q, t)[k] = q[h].expires
      BY <1>1, <1>2, <3>2, ExpiryCases
    <3> QED BY <2>2, <3>2, <3>3, <3>4
  <2>3. CASE k # KeyIn(r, g) /\ k \notin LiveIn(r, t)
    <3>1. k \notin LiveIn(q, t)
      BY <1>1, <2>3 DEF LiveIn, OnlyRemoves
    <3>2. Expiry(r, t)[k] = 0
      BY <2>3, ExpiryCases
    <3>3. Expiry(q, t)[k] = 0
      BY ONLY <1>1, <1>2, <1>3, <3>1, ExpiryCases, t \in Nat
    <3> QED BY <2>3, <3>2, <3>3
  <2> QED BY <2>1, <2>2, <2>3
<1>4. /\ Expiry(q, t) = [k \in Keys |-> Expiry(q, t)[k]]
      /\ Expiry(r, t) = [k \in Keys |-> Expiry(r, t)[k]]
  BY ExpiryIsFunction
<1> QED BY <1>1, <1>3, <1>4 DEF ClosesName

LEMMA TimeExpires ==
  ASSUME NEW r \in Seq(Lines), NEW t \in Nat, NEW u \in Nat, t <= u, Unique(r, t)
  PROVE  Expiry(r, u) = Authorities!Remaining(Expiry(r, t), u)
<1>1. /\ ActiveIn(r, u) = {g \in ActiveIn(r, t) : u < r[g].expires}
      /\ Unique(r, u) /\ LiveIn(r, u) \subseteq LiveIn(r, t)
  BY TimeRemoves, TimeKeepsOne
<1>2. ASSUME NEW k \in Keys
      PROVE  Expiry(r, u)[k] = IF Expiry(r, t)[k] <= u THEN 0 ELSE Expiry(r, t)[k]
  <2>1. CASE k \in LiveIn(r, t) /\ Loads(r)
    <3>1. PICK g \in ActiveIn(r, t) : KeyIn(r, g) = k
      BY <2>1 DEF LiveIn
    <3>2. Expiry(r, t)[k] = r[g].expires /\ r[g].expires \in Nat
      BY <2>1, <3>1, ExpiryCases, ActiveTyped
    <3>3. CASE u < r[g].expires
      <4>1. g \in ActiveIn(r, u)
        BY <1>1, <3>1, <3>3
      <4>2. Expiry(r, u)[k] = r[g].expires
        BY <1>1, <2>1, <3>1, <4>1, ExpiryCases
      <4> QED BY <3>2, <3>3, <4>2
    <3>4. CASE ~(u < r[g].expires)
      <4>1. k \notin LiveIn(r, u)
        BY <1>1, <3>1, <3>4 DEF LiveIn, Unique
      <4>2. Expiry(r, u)[k] = 0
        BY <1>1, <4>1, ExpiryCases
      <4> QED BY <3>2, <3>4, <4>2
    <3> QED BY <3>3, <3>4
  <2>2. CASE ~(k \in LiveIn(r, t) /\ Loads(r))
    <3>1. Expiry(r, t)[k] = 0
      BY <2>2, ExpiryCases
    <3>2. Expiry(r, u)[k] = 0
      BY <1>1, <2>2, ExpiryCases
    <3> QED BY <3>1, <3>2
  <2> QED BY <2>1, <2>2
<1>3. Expiry(r, u) = [k \in Keys |-> Expiry(r, u)[k]]
  BY ExpiryIsFunction
<1> QED BY <1>2, <1>3 DEF Authorities!Remaining, Keys

-----------------------------------------------------------------------------
(* The steps of the registry as steps of Authority: an append is a         *)
(* decision, or damage when it leaves a line the reader rejects.           *)
LEMMA WriteDamages ==
  ASSUME IInv, now' = now, registry' = Append(Sure, Torn), Sure' = Sure
  PROVE  Authorities!Damage
<1>1. Sure \in Seq(Lines) /\ ~Loads(registry')
  BY SureCases, TornAppended DEF IInv
<1>2. Expiry(registry', now) = Authorities!Nothing
  BY <1>1, NothingWhenDamaged
<1> QED BY <1>2 DEF Authorities!Damage

LEMMA BadLineDamages ==
  ASSUME now' = now, Sure = registry, Sure' \in {registry, registry'}, ~Loads(registry')
  PROVE  Authorities!Damage
<1>1. Expiry(registry', now) = Authorities!Nothing
  BY NothingWhenDamaged
<1>2. CASE Sure' = registry
  BY <1>1, <1>2 DEF Authorities!Damage
<1>3. CASE Sure' = registry'
  BY <1>1, <1>3 DEF Authorities!Damage
<1> QED BY <1>2, <1>3

LEMMA DecisionRecorded ==
  ASSUME NEW new, now' = now, Sure = registry, Sure' \in {registry, registry'},
         Expiry(registry', now) = new
  PROVE  Authorities!Decide(new)
<1>1. CASE Sure' = registry
  BY <1>1 DEF Authorities!Decide
<1>2. CASE Sure' = registry'
  BY <1>2 DEF Authorities!Decide
<1> QED BY <1>1, <1>2

LEMMA GrantAuthorizes ==
  ASSUME IInv,
         NEW action \in GrantActions, NEW candidate \in GrantCandidates,
         NEW seconds \in now .. now + MaxLifetime + 1, NEW fraction \in Fractions,
         GrantApproval(action, candidate, seconds, fraction)
  PROVE  Authorities!Next
<1> DEFINE line == Granted(Len(registry) + 1, action, candidate, now, seconds)
           c == <<action, candidate>>
<1>0. /\ now \in Nat /\ seconds \in Nat /\ registry \in Seq(Lines) /\ Len(registry) \in Nat
      /\ Sure \in Seq(Lines)
  BY SureCases DEF IInv, TypeOK
<1>1. /\ RegistryLoads /\ seconds <= now + MaxLifetime /\ c \notin Live
      /\ Recorded(line) \/ CutShort(line)
      /\ now' = now
  BY <1>0 DEF GrantApproval, ValidExpiry, Duplicate
<1>2. /\ line \in Grants /\ line.expires = seconds /\ line.occurred = now
      /\ <<line.action, line.candidate>> = c /\ c \in GrantActions \X GrantCandidates
  BY <1>0, GrantedTyped DEF Granted
<1>3. line \in Lines /\ line # Torn
  BY <1>2, LineKinds DEF Lines
<1> HIDE DEF line, c
<1>4. \/ registry' = Append(Sure, Torn) /\ Sure' = Sure
      \/ /\ Sure = registry
         /\ registry' = Append(registry, line)
         /\ Sure' \in {registry, registry'}
  BY <1>1, <1>3, WriteCases
<1>5. CASE registry' = Append(Sure, Torn) /\ Sure' = Sure
  BY <1>1, <1>5, WriteDamages DEF Authorities!Next
<1>6. CASE /\ Sure = registry /\ Sure' \in {registry, registry'}
           /\ registry' = Append(registry, line)
  <2>1. CASE ~Loads(registry')
    BY <1>1, <1>6, <2>1, BadLineDamages DEF Authorities!Next
  <2>2. CASE Loads(registry')
    <3>1. /\ Unique(registry, now) /\ Loads(registry)
          /\ <<line.action, line.candidate>> \notin LiveIn(registry, now)
      BY <1>1, <1>2 DEF IInv, Live, RegistryLoads
    <3>2. PICK q : q = registry' /\ q = Append(registry, line) /\ Loads(q)
      BY <1>6, <2>2
    <3>3. OpensName(registry, q, line, now)
      BY ONLY <1>0, <1>2, <3>1, <3>2, GrantExpires
    <3>4. /\ Expiry(registry, now)[c] = 0
          /\ Expiry(registry', now) = [Expiry(registry, now) EXCEPT ![c] = seconds]
      BY <1>2, <3>2, <3>3 DEF OpensName
    <3>5. seconds \in now + 1 .. now + MaxLifetime
      BY <1>0, <1>1, <1>2, <3>3 DEF OpensName
    <3>6. Authorities!Decide([Expiry(registry, now) EXCEPT ![c] = seconds])
      BY <1>1, <1>6, <3>4, DecisionRecorded
    <3>7. Authorities!Authorize(c)
      BY <3>4, <3>5, <3>6 DEF Authorities!Authorize
    <3> QED BY <1>2, <3>7 DEF Authorities!Next
  <2> QED BY <2>1, <2>2
<1> QED BY <1>4, <1>5, <1>6

LEMMA RevokeWithdraws ==
  ASSUME IInv, NEW g \in 1..Len(registry), RevokeApproval(g)
  PROVE  Authorities!Next
<1>0. /\ now \in Nat /\ registry \in Seq(Lines) /\ Len(registry) \in Nat
      /\ Sure \in Seq(Lines)
  BY SureCases DEF IInv, TypeOK
<1>1. RegistryLoads /\ g \in ActiveIn(registry, now) /\ now' = now
  BY DEF RevokeApproval, ActiveGrants
<1>2. PICK line \in Revocations :
        /\ line.grant = g /\ line \in Lines /\ line # Torn
        /\ Recorded(line) \/ CutShort(line)
  BY RevokeLine
<1>3. \/ registry' = Append(Sure, Torn) /\ Sure' = Sure
      \/ /\ Sure = registry
         /\ registry' = Append(registry, line)
         /\ Sure' \in {registry, registry'}
  BY <1>1, <1>2, WriteCases
<1>4. CASE registry' = Append(Sure, Torn) /\ Sure' = Sure
  BY <1>1, <1>4, WriteDamages DEF Authorities!Next
<1>5. CASE /\ Sure = registry /\ Sure' \in {registry, registry'}
           /\ registry' = Append(registry, line)
  <2>1. CASE ~Loads(registry')
    BY <1>1, <1>5, <2>1, BadLineDamages DEF Authorities!Next
  <2>2. CASE Loads(registry')
    <3>1. Unique(registry, now) /\ Loads(registry)
      BY <1>1 DEF IInv, RegistryLoads
    <3>2. PICK q : q = registry' /\ q = Append(registry, line) /\ Loads(q)
      BY <1>5, <2>2
    <3>3. ClosesName(registry, q, g, now)
      BY ONLY <1>0, <1>1, <1>2, <3>1, <3>2, RevokeExpires
    <3>4. PICK k \in Keys : Expiry(registry', now) = [Expiry(registry, now) EXCEPT ![k] = 0]
      BY <3>2, <3>3 DEF ClosesName
    <3>5. Authorities!Decide([Expiry(registry, now) EXCEPT ![k] = 0])
      BY <1>1, <1>5, <3>4, DecisionRecorded
    <3>6. Authorities!Withdraw(k)
      BY <3>5 DEF Authorities!Withdraw
    <3> QED BY <3>6 DEF Authorities!Next, Keys
  <2> QED BY <2>1, <2>2
<1> QED BY <1>3, <1>4, <1>5

LEMMA RepairMends ==
  ASSUME IInv, Repair
  PROVE  Authorities!Next
<1>1. ~Loads(registry) /\ registry' = Sure /\ Sure' = Sure /\ now' = now
  BY RepairCases DEF Repair, RegistryLoads
<1>2. Expiry(registry, now) = Authorities!Nothing
  BY <1>1, NothingWhenDamaged
<1>3. Authorities!Mend
  BY <1>1, <1>2 DEF Authorities!Mend
<1> QED BY <1>3 DEF Authorities!Next

LEMMA TickElapses ==
  ASSUME IInv, Tick
  PROVE  Authorities!Next
<1>1. /\ now \in Nat /\ now' = now + 1 /\ now' \in Nat /\ now <= now'
      /\ registry' = registry /\ ended' = ended
      /\ registry \in Seq(Lines) /\ Sure \in Seq(Lines)
  BY SureCases DEF IInv, TypeOK, Tick
<1>2. Sure' = Sure
  BY <1>1 DEF Sure, EndIsOpen
<1>3. /\ Expiry(registry, now') = Authorities!Remaining(Expiry(registry, now), now')
      /\ Expiry(Sure, now') = Authorities!Remaining(Expiry(Sure, now), now')
  BY <1>1, TimeExpires DEF IInv
<1>4. Authorities!Elapse
  BY <1>1, <1>2, <1>3 DEF Authorities!Elapse
<1> QED BY <1>4 DEF Authorities!Next

(* The registry implements Authority, whatever the fractions of the        *)
(* expiries asked for: a line the reader rejects, cut off or not, takes    *)
(* every authorization away at once, and a repair gives back what the      *)
(* lines before it grant (approval.py:237-241, 405-472, 488-605;           *)
(* repair.py:48-69).                                                       *)
THEOREM RegistryImplementsAuthority == Spec => ImplementsAuthority
<1>1. Init => Authorities!Init
  <2> SUFFICES ASSUME Init PROVE Authorities!Init
    OBVIOUS
  <2>1. registry = << >> /\ now = 0 /\ Len(registry) = 0
    BY DEF Init
  <2>2. Sure = registry /\ ActiveIn(registry, now) = {}
    BY <2>1 DEF Sure, EndIsOpen, ActiveIn
  <2>3. \A k \in Keys : ExpiriesOf(k, registry, now) = {}
    BY <2>2 DEF ExpiriesOf
  <2>4. Expiry(registry, now) = Authorities!Nothing
    BY <2>3 DEF Expiry, Keys, Authorities!Nothing
  <2> QED BY <2>1, <2>2, <2>4 DEF Authorities!Init
<1>2. IInv /\ [Next]_vars => [Authorities!Next]_(Authorities!vars)
  <2> SUFFICES ASSUME IInv, [Next]_vars PROVE [Authorities!Next]_(Authorities!vars)
    OBVIOUS
  <2>1. CASE UNCHANGED <<registry, ended, now>>
    <3>1. Sure' = Sure
      BY <2>1 DEF Sure, EndIsOpen
    <3>2. Expiry(registry', now') = Expiry(registry, now)
          /\ Expiry(Sure', now') = Expiry(Sure, now)
      BY <2>1, <3>1
    <3> QED BY <2>1, <3>2 DEF Authorities!vars
  <2> QED
    BY <2>1, GrantAuthorizes, RevokeWithdraws, RepairMends, TickElapses
    DEF Next, vars, TransitionState, EditScope
<1> QED
  BY <1>1, <1>2, InvariantHolds, PTL DEF Spec, ImplementsAuthority, Authorities!Spec

-----------------------------------------------------------------------------
(* The decision as approvals come and go: it only depends on which of them *)
(* are live, and more of them never take anything away.                    *)
LEMMA AllowedGrows ==
  ASSUME NEW action, NEW candidate, NEW s, NEW inScope, NEW live, NEW more,
         live \subseteq more, Allowed(action, candidate, s, inScope, live)
  PROVE  Allowed(action, candidate, s, inScope, more)
  BY DEF Allowed, Covered

(* Short of a change of the workflow state or of the scope, an action that *)
(* was denied is authorised by two things only: the grant of that action,  *)
(* on that candidate or on the whole scope, and a repair of a registry     *)
(* that did not load.  No revocation opens an action (of the other of two  *)
(* approvals that cover it, say), nor does time, nor an append that is cut *)
(* off, and a grant opens nothing but itself (approval.py:231-241,         *)
(* 488-605, 608-801; repair.py:48-69).                                     *)
OnlyItsGrantOpens ==
  \A action \in ActionTypes, candidate \in Candidates \cup {NoCandidate} :
    (/\ ~Authorised(action, candidate) /\ Authorised(action, candidate)'
     /\ UNCHANGED <<state, scope>>)
      => \/ Repair /\ ~RegistryLoads
         \/ \E named \in {candidate, ScopeWide},
               seconds \in now .. now + MaxLifetime + 1, fraction \in Fractions :
              GrantApproval(action, named, seconds, fraction)

THEOREM GrantsOpenThemselves == Spec => [][OnlyItsGrantOpens]_vars
<1>1. ASSUME IInv, [Next]_vars,
             NEW action \in ActionTypes, NEW candidate \in Candidates \cup {NoCandidate},
             ~Authorised(action, candidate), Authorised(action, candidate)',
             UNCHANGED <<state, scope>>, ~Repair
      PROVE  \E named \in {candidate, ScopeWide},
                seconds \in now .. now + MaxLifetime + 1, fraction \in Fractions :
               GrantApproval(action, named, seconds, fraction)
  <2>0. /\ registry \in Seq(Lines) /\ Sure \in Seq(Lines) /\ now \in Nat
        /\ Unique(registry, now)
    BY <1>1, SureCases DEF IInv, TypeOK
  <2>1. Loads(registry') /\ Allowed(action, candidate, state, scope, LiveIn(registry', now'))
    BY <1>1 DEF Authorised, RegistryLoads, Live
  <2>2. ASSUME LiveIn(registry', now') \subseteq LiveIn(registry, now), Loads(registry)
        PROVE  FALSE
    BY <1>1, <2>1, <2>2, AllowedGrows DEF Authorised, RegistryLoads, Live
  <2>3. registry' # Append(Sure, Torn)
    <3>1. registry' = Append(Sure, Torn) => ~Loads(registry')
      BY <2>0, TornAppended
    <3> QED BY <2>1, <3>1
  <2>4. CASE registry' = registry
    <3>1. Loads(registry)
      BY <2>1, <2>4
    <3>2. now' = now \/ now' = now + 1
      BY <1>1
      DEF Next, vars, GrantApproval, RevokeApproval, Tick, TransitionState, EditScope
    <3>3. now' \in Nat /\ now <= now'
      BY <2>0, <3>2
    <3>4. LiveIn(registry, now') \subseteq LiveIn(registry, now)
      BY <2>0, <3>3, TimeKeepsOne
    <3> QED BY <2>2, <2>4, <3>1, <3>4
  <2>5. ASSUME NEW g \in 1..Len(registry), RevokeApproval(g) PROVE FALSE
    <3>1. RegistryLoads /\ now' = now
      BY <2>5 DEF RevokeApproval
    <3>2. PICK line \in Revocations :
            /\ line \in Lines /\ line # Torn /\ (Recorded(line) \/ CutShort(line))
      BY <1>1, <2>5, RevokeLine
    <3>3. registry' = Append(registry, line)
      BY <1>1, <2>3, <3>1, <3>2, WriteCases
    <3>4. LiveIn(registry', now) \subseteq LiveIn(registry, now)
      BY <2>0, <3>3, RevokeKeepsOne
    <3> QED BY <2>2, <3>1, <3>4 DEF RegistryLoads
  <2>6. ASSUME NEW a \in GrantActions, NEW c \in GrantCandidates,
               NEW seconds \in now .. now + MaxLifetime + 1, NEW fraction \in Fractions,
               GrantApproval(a, c, seconds, fraction)
        PROVE  a = action /\ c \in {candidate, ScopeWide}
    <3> DEFINE line == Granted(Len(registry) + 1, a, c, now, seconds)
    <3>1. /\ RegistryLoads /\ now' = now /\ (Recorded(line) \/ CutShort(line))
          /\ <<a, c>> \notin LiveIn(registry, now)
      BY <2>6 DEF GrantApproval, Duplicate, Live
    <3>2. Len(registry) + 1 \in Nat /\ seconds \in Nat
      BY <2>0
    <3>3. /\ line \in Grants /\ line.action = a /\ line.candidate = c
      BY <2>0, <3>2, GrantedTyped DEF Granted
    <3>4. line \in Lines /\ line # Torn
      BY <3>3, LineKinds DEF Lines
    <3> HIDE DEF line
    <3>5. registry' = Append(registry, line)
      BY <1>1, <2>3, <3>1, <3>4, WriteCases
    <3>6. <<line.action, line.candidate>> \notin LiveIn(registry, now)
      BY <3>1, <3>3
    <3>7. LiveIn(registry', now)
            \subseteq LiveIn(registry, now) \cup {<<line.action, line.candidate>>}
      BY <2>0, <3>3, <3>5, <3>6, GrantKeepsOne
    <3>8. ~Allowed(action, candidate, state, scope, LiveIn(registry, now))
      BY <1>1, <3>1 DEF Authorised, Live
    <3>9. <<a, c>> \in {<<action, candidate>>, <<action, ScopeWide>>}
      BY <2>1, <3>1, <3>3, <3>7, <3>8 DEF Allowed, Covered
    <3> QED BY <3>9
  <2> QED
    BY <1>1, <2>4, <2>5, <2>6 DEF Next, vars, Tick, TransitionState, EditScope
<1>2. IInv /\ [Next]_vars => [OnlyItsGrantOpens]_vars
  <2> SUFFICES ASSUME IInv, [Next]_vars PROVE OnlyItsGrantOpens
    OBVIOUS
  <2>1. Repair => ~RegistryLoads
    BY RepairCases
  <2> QED BY <1>1, <2>1 DEF OnlyItsGrantOpens
<1> QED BY <1>2, InvariantHolds, PTL DEF Spec

(* A line that does not parse denies everything, down to local analysis,   *)
(* and the program writes nothing more: only a repair makes the registry   *)
(* load again, by taking its last line off, and one that is whole but not  *)
(* acceptable stays for good (approval.py:244-374, 550, 589, 611-633;      *)
(* repair.py:48-69).  The run of AnyExpiry shows that the program can      *)
(* write such a line.                                                      *)
NothingAuthorised ==
  \A action \in ActionTypes, candidate \in Candidates \cup {NoCandidate} :
    ~Authorised(action, candidate)

OnlyRepairMends ==
  ~RegistryLoads =>
    \/ UNCHANGED registry
    \/ Repair /\ registry[Len(registry)] = Torn
              /\ registry' = SubSeq(registry, 1, Len(registry) - 1)

THEOREM DamageDeniesUntilMended ==
  Spec => [](~RegistryLoads => NothingAuthorised) /\ [][OnlyRepairMends]_vars
<1>1. ~RegistryLoads => NothingAuthorised
  BY DEF NothingAuthorised, Authorised
<1>2. IInv /\ [Next]_vars => [OnlyRepairMends]_vars
  <2> SUFFICES ASSUME IInv, [Next]_vars, ~RegistryLoads PROVE OnlyRepairMends
    BY DEF OnlyRepairMends
  <2>1. CASE Repair
    <3>1. PICK n \in 1..Len(registry) :
            NotJson = n .. Len(registry) /\ registry' = SubSeq(registry, 1, n - 1)
      BY <2>1 DEF Repair
    <3>2. registry \in Seq(Lines) /\ Len(registry) \in Nat
      BY SureCases DEF IInv
    <3>3. registry[n] = Torn /\ n = Len(registry)
      <4>1. n \in NotJson
        BY <3>1, <3>2
      <4> QED BY <3>1, <4>1 DEF NotJson, IInv, TornIsLast
    <3> QED BY <2>1, <3>1, <3>3 DEF OnlyRepairMends
  <2> QED
    BY <2>1
    DEF OnlyRepairMends, Next, vars, GrantApproval, RevokeApproval, Tick,
        TransitionState, EditScope
<1> QED BY <1>1, <1>2, InvariantHolds, PTL DEF Spec
=============================================================================
