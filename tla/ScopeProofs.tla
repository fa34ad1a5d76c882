----------------------------- MODULE ScopeProofs -----------------------------
(***************************************************************************)
(* The decision of the scope engine is the one the meaning of the rules    *)
(* gives, for any rules, candidates and universes: first for names and     *)
(* paths, then rule by rule on either side of the scope, then for a scope. *)
(***************************************************************************)
EXTENDS ScopeMeaning, SequenceTheorems, TLAPS

USE DEF NoHost, NoPath, NoScheme, NoPort, NoIp, WebSchemes

-----------------------------------------------------------------------------
(* Names and paths. *)

(* One sequence extends another when it starts with all of it. *)
LEMMA ExtendsIsPrefix ==
  ASSUME NEW S, NEW long \in Seq(S), NEW short \in Seq(S)
  PROVE  Extends(long, short) <=>
           /\ Len(short) <= Len(long)
           /\ \A i \in 1..Len(short) : long[i] = short[i]
<1>1. ASSUME Extends(long, short)
      PROVE  /\ Len(short) <= Len(long)
             /\ \A i \in 1..Len(short) : long[i] = short[i]
  <2>1. PICK i \in 1..Len(long) + 1 : long = short \o SubSeq(long, i, Len(long))
    BY <1>1 DEF Extends
  <2>2. SubSeq(long, i, Len(long)) \in Seq(S)
    BY <2>1, SubSeqProperties, ElementOfSeq, LenProperties
  <2>3. DEFINE tail == SubSeq(long, i, Len(long))
  <2>4. /\ Len(short \o tail) = Len(short) + Len(tail)
        /\ \A j \in 1..Len(short) + Len(tail) :
             (short \o tail)[j] = IF j <= Len(short) THEN short[j] ELSE tail[j - Len(short)]
    BY <2>2, ConcatProperties
  <2>5. Len(short) \in Nat /\ Len(tail) \in Nat
    BY <2>2, LenProperties
  <2> HIDE DEF tail
  <2>6. long = short \o tail
    BY <2>1 DEF tail
  <2> QED BY <2>4, <2>5, <2>6
<1>2. ASSUME Len(short) <= Len(long), \A i \in 1..Len(short) : long[i] = short[i]
      PROVE  Extends(long, short)
  <2>1. Len(short) \in Nat /\ Len(long) \in Nat
    BY LenProperties
  <2>2. DEFINE tail == SubSeq(long, Len(short) + 1, Len(long))
  <2>3. /\ tail \in Seq(S)
        /\ Len(tail) = Len(long) - Len(short)
        /\ \A j \in 1..Len(long) - Len(short) : tail[j] = long[Len(short) + j]
    BY <1>2, <2>1, SubSeqProperties, ElementOfSeq
  <2>4. /\ short \o tail \in Seq(S)
        /\ Len(short \o tail) = Len(short) + Len(tail)
        /\ \A j \in 1..Len(short) + Len(tail) :
             (short \o tail)[j] = IF j <= Len(short) THEN short[j] ELSE tail[j - Len(short)]
    BY <2>3, ConcatProperties
  <2> HIDE DEF tail
  <2>5. Len(short \o tail) = Len(long)
    BY <2>1, <2>3, <2>4
  <2>6. ASSUME NEW j \in 1..Len(long) PROVE long[j] = (short \o tail)[j]
    <3>1. CASE j <= Len(short)
      BY <3>1, <1>2, <2>1, <2>3, <2>4
    <3>2. CASE j > Len(short)
      <4>1. j - Len(short) \in 1..Len(long) - Len(short)
        BY <3>2, <2>1
      <4>2. tail[j - Len(short)] = long[Len(short) + (j - Len(short))]
        BY <4>1, <2>3
      <4> QED BY <3>2, <4>2, <2>1, <2>3, <2>4
    <3>3. j <= Len(short) \/ j > Len(short)
      BY <2>1
    <3> QED BY <3>1, <3>2, <3>3, Zenon
  <2>7. long = short \o tail
    BY <2>4, <2>5, <2>6, SeqEqual
  <2>8. Len(short) + 1 \in 1..Len(long) + 1
    BY <2>1, <1>2
  <2> QED BY <2>7, <2>8 DEF Extends, tail
<1> QED BY <1>1, <1>2

LEMMA ReversedName ==
  ASSUME NEW S, NEW name \in Seq(S)
  PROVE  /\ Reversed(name) \in Seq(S)
         /\ Len(Reversed(name)) = Len(name)
         /\ \A i \in 1..Len(name) : Reversed(name)[i] = name[Len(name) + 1 - i]
<1>1. Len(name) \in Nat /\ \A i \in 1..Len(name) : name[i] \in S
  BY LenProperties, ElementOfSeq
<1>2. \A i \in 1..Len(name) : Len(name) + 1 - i \in 1..Len(name)
  BY <1>1
<1>3. Reversed(name) \in [1..Len(name) -> S]
  BY <1>1, <1>2 DEF Reversed
<1>4. Reversed(name) \in Seq(S)
  BY <1>1, <1>3, SeqDef
<1>5. DOMAIN Reversed(name) = 1..Len(name)
  BY DEF Reversed
<1>6. Len(Reversed(name)) = Len(name)
  BY <1>1, <1>4, <1>5, LenProperties
<1> QED BY <1>4, <1>6 DEF Reversed

(* The engine compares the end of a name with the apex; the meaning reads  *)
(* both from their last label.                                             *)
LEMMA StrictlyBelowMeans ==
  ASSUME NEW S, NEW host \in Seq(S), NEW apex \in Seq(S)
  PROVE  StrictlyBelow(host, apex) <=>
           host # apex /\ Extends(Reversed(host), Reversed(apex))
<1>1. Len(host) \in Nat /\ Len(apex) \in Nat
  BY LenProperties
<1>2. Extends(Reversed(host), Reversed(apex)) <=>
        /\ Len(apex) <= Len(host)
        /\ \A i \in 1..Len(apex) : host[Len(host) + 1 - i] = apex[Len(apex) + 1 - i]
  <2>0. Reversed(host) \in Seq(S) /\ Reversed(apex) \in Seq(S)
    BY ReversedName
  <2>1. Extends(Reversed(host), Reversed(apex)) <=>
          /\ Len(Reversed(apex)) <= Len(Reversed(host))
          /\ \A i \in 1..Len(Reversed(apex)) : Reversed(host)[i] = Reversed(apex)[i]
    BY ONLY <2>0, ExtendsIsPrefix
  <2>2. /\ Len(Reversed(apex)) = Len(apex) /\ Len(Reversed(host)) = Len(host)
        /\ \A i \in 1..Len(apex) : Reversed(apex)[i] = apex[Len(apex) + 1 - i]
        /\ \A i \in 1..Len(host) : Reversed(host)[i] = host[Len(host) + 1 - i]
    BY ReversedName
  <2>3. Len(apex) <= Len(host) => \A i \in 1..Len(apex) : i \in 1..Len(host)
    BY <1>1
  <2> QED BY <2>1, <2>2, <2>3
<1>3. ASSUME StrictlyBelow(host, apex)
      PROVE  host # apex /\ Extends(Reversed(host), Reversed(apex))
  <2>1. Len(host) > Len(apex) /\ SubSeq(host, Len(host) - Len(apex) + 1, Len(host)) = apex
    BY <1>3 DEF StrictlyBelow
  <2>2. \A j \in 1..Len(apex) : apex[j] = host[Len(host) - Len(apex) + j]
    BY <2>1, <1>1, SubSeqProperties, ElementOfSeq
  <2>3. ASSUME NEW i \in 1..Len(apex)
        PROVE  host[Len(host) + 1 - i] = apex[Len(apex) + 1 - i]
    <3>1. Len(apex) + 1 - i \in 1..Len(apex)
      BY <1>1
    <3>2. Len(host) - Len(apex) + (Len(apex) + 1 - i) = Len(host) + 1 - i
      BY <1>1
    <3> QED BY <3>1, <3>2, <2>2
  <2> QED BY <2>1, <2>3, <1>1, <1>2
<1>4. ASSUME host # apex, Extends(Reversed(host), Reversed(apex))
      PROVE  StrictlyBelow(host, apex)
  <2>1. ASSUME NEW j \in 1..Len(apex)
        PROVE  host[Len(host) - Len(apex) + j] = apex[j]
    <3>1. Len(apex) + 1 - j \in 1..Len(apex)
      BY <1>1
    <3>2. host[Len(host) + 1 - (Len(apex) + 1 - j)] = apex[Len(apex) + 1 - (Len(apex) + 1 - j)]
      BY <3>1, <1>2, <1>4
    <3>3. /\ Len(host) + 1 - (Len(apex) + 1 - j) = Len(host) - Len(apex) + j
          /\ Len(apex) + 1 - (Len(apex) + 1 - j) = j
      BY <1>1
    <3> QED BY <3>2, <3>3
  <2>2. Len(apex) <= Len(host)
    BY <1>2, <1>4
  <2>3. Len(host) # Len(apex)
    <3> SUFFICES ASSUME Len(host) = Len(apex) PROVE FALSE
      OBVIOUS
    <3>1. \A j \in 1..Len(host) : host[j] = apex[j]
      BY <2>1, <1>1
    <3> QED BY <3>1, <1>4, SeqEqual
  <2>4. DEFINE last == SubSeq(host, Len(host) - Len(apex) + 1, Len(host))
  <2>5. /\ last \in Seq(S)
        /\ Len(last) = Len(apex)
        /\ \A j \in 1..Len(apex) : last[j] = host[Len(host) - Len(apex) + j]
    <3>1. Len(host) - Len(apex) + 1 \in Int /\ Len(host) \in Int
      BY <1>1
    <3>2. \A j \in Len(host) - Len(apex) + 1..Len(host) : host[j] \in S
      BY <1>1, <2>2, ElementOfSeq
    <3> QED BY <3>1, <3>2, <1>1, <2>2, SubSeqProperties
  <2> HIDE DEF last
  <2>6. last = apex
    BY <2>1, <2>5, SeqEqual
  <2> QED BY <2>2, <2>3, <2>6, <1>1 DEF StrictlyBelow, last
<1> QED BY <1>3, <1>4

LEMMA DirectoryOf ==
  ASSUME NEW path, Normalised(path)
  PROVE  /\ Directory(path) \in Seq(STRING)
         /\ Len(Directory(path)) =
              IF ClosingSlash(path) THEN Len(path) - 1 ELSE Len(path)
         /\ \A i \in 1..Len(Directory(path)) : Directory(path)[i] = path[i]
<1>1. path \in Seq(STRING) /\ Len(path) \in Nat \ {0}
  BY EmptySeq DEF Normalised
<1>2. /\ SubSeq(path, 1, Len(path) - 1) \in Seq(STRING)
      /\ Len(SubSeq(path, 1, Len(path) - 1)) = Len(path) - 1
      /\ \A i \in 1..Len(path) - 1 : SubSeq(path, 1, Len(path) - 1)[i] = path[i]
  <2> DEFINE n == Len(path) - 1
  <2>1. n \in Nat /\ \A i \in 1..n : path[i] \in STRING
    BY <1>1, ElementOfSeq
  <2> HIDE DEF n
  <2>2. /\ SubSeq(path, 1, n) \in Seq(STRING)
        /\ Len(SubSeq(path, 1, n)) = n
        /\ \A i \in 1..n : SubSeq(path, 1, n)[i] = path[i]
    BY <2>1, SubSeqProperties
  <2> QED BY <2>2 DEF n
<1>3. CASE ClosingSlash(path)
  <2>1. Directory(path) = SubSeq(path, 1, Len(path) - 1)
    BY <1>3 DEF Directory
  <2> QED BY <1>2, <1>3, <2>1
<1>4. CASE ~ClosingSlash(path)
  <2>1. Directory(path) = path
    BY <1>4 DEF Directory
  <2> QED BY <1>1, <1>4, <2>1
<1> QED BY <1>3, <1>4

LEMMA InstancesOf ==
  ASSUME NEW pattern \in Seq(STRING), NEW path \in Seq(STRING)
  PROVE  /\ Instances(pattern, path) \in Seq(STRING)
         /\ Len(Instances(pattern, path)) = Len(pattern)
         /\ \A i \in 1..Len(pattern) :
              Instances(pattern, path)[i] =
                IF pattern[i] = Glob /\ i <= Len(path) /\ path[i] # ""
                THEN path[i] ELSE pattern[i]
<1>1. Len(pattern) \in Nat /\ Len(path) \in Nat
  BY LenProperties
<1>2. \A i \in 1..Len(pattern) : pattern[i] \in STRING
  BY ElementOfSeq
<1>3. \A i \in 1..Len(pattern) : i <= Len(path) => path[i] \in STRING
  BY <1>1, ElementOfSeq
<1>4. Instances(pattern, path) \in [1..Len(pattern) -> STRING]
  BY <1>2, <1>3 DEF Instances
<1>5. Instances(pattern, path) \in Seq(STRING)
  BY <1>1, <1>4, SeqDef
<1>6. Len(Instances(pattern, path)) = Len(pattern)
  BY <1>1, <1>4, <1>5, LenProperties
<1> QED BY <1>5, <1>6 DEF Instances

(* Extending an instance of a pattern is agreeing with it up to its globs, *)
(* which take any segment but the empty one.                               *)
Agrees(segment, actual) == segment = actual \/ (segment = Glob /\ actual # "")

LEMMA ExtendsAnInstance ==
  ASSUME NEW pattern \in Seq(STRING), NEW path \in Seq(STRING)
  PROVE  Extends(path, Instances(pattern, path)) <=>
           /\ Len(pattern) <= Len(path)
           /\ \A i \in 1..Len(pattern) : Agrees(pattern[i], path[i])
<1>1. Len(pattern) \in Nat /\ Len(path) \in Nat
  BY LenProperties
<1>2. Extends(path, Instances(pattern, path)) <=>
        /\ Len(pattern) <= Len(path)
        /\ \A i \in 1..Len(pattern) : path[i] = Instances(pattern, path)[i]
  <2> DEFINE instance == Instances(pattern, path)
  <2>1. instance \in Seq(STRING) /\ Len(instance) = Len(pattern)
    BY InstancesOf
  <2> HIDE DEF instance
  <2>2. Extends(path, instance) <=>
          /\ Len(pattern) <= Len(path)
          /\ \A i \in 1..Len(pattern) : path[i] = instance[i]
    BY <2>1, ExtendsIsPrefix
  <2> QED BY <2>2 DEF instance
<1>3. ASSUME Len(pattern) <= Len(path), NEW i \in 1..Len(pattern)
      PROVE  path[i] = Instances(pattern, path)[i] <=> Agrees(pattern[i], path[i])
  <2>1. i <= Len(path)
    BY <1>1, <1>3
  <2> QED BY <2>1, InstancesOf DEF Agrees
<1> QED BY <1>2, <1>3

(* What _path_match does with slashes and globs is what a plain path       *)
(* covers: only a last segment is empty, and no glob is last.              *)
LEMMA PathMatchesMeans ==
  ASSUME NEW rulePath, Normalised(rulePath), PlainPath(rulePath), NEW path, Normalised(path)
  PROVE  PathMatches(rulePath, path) <=> CoversPath(rulePath, path)
<1>1. /\ rulePath \in Seq(STRING) /\ Len(rulePath) \in Nat \ {0} /\ rulePath # NoPath
      /\ path \in Seq(STRING) /\ Len(path) \in Nat \ {0}
  BY EmptySeq DEF Normalised
<1> DEFINE dir == Directory(rulePath)
<1>2. /\ dir \in Seq(STRING) /\ Len(dir) \in Nat /\ Len(dir) <= Len(rulePath)
      /\ \A i \in 1..Len(dir) : dir[i] = rulePath[i]
  BY <1>1, DirectoryOf
<1>3. Stripped(rulePath) = dir
  BY DEF Stripped, Directory, ClosingSlash, PlainPath
<1> HIDE DEF dir
<1>4. Extends(path, Instances(dir, path)) <=>
        /\ Len(dir) <= Len(path)
        /\ \A i \in 1..Len(dir) : Agrees(dir[i], path[i])
  BY <1>1, <1>2, ExtendsAnInstance
<1>5. ASSUME Len(dir) <= Len(path), NEW i \in 1..Len(dir), dir[i] = Glob
      PROVE  path[i] # ""
  <2>1. i \in 1..Len(rulePath) /\ i \in 1..Len(path) /\ rulePath[i] = Glob
    BY <1>1, <1>2, <1>5
  <2>2. HasGlob(rulePath)
    BY <2>1 DEF HasGlob
  <2>3. i # Len(rulePath)
    BY <2>1, <2>2 DEF PlainPath
  <2>4. ~ClosingSlash(rulePath)
    BY <2>2 DEF PlainPath, ClosingSlash
  <2>5. Len(dir) = Len(rulePath)
    BY <2>4 DEF dir, Directory
  <2>6. ASSUME i = Len(path) PROVE FALSE
    BY <1>1, <1>2, <1>5, <2>1, <2>3, <2>5, <2>6
  <2>7. i \in 1..Len(path) - 1
    BY <1>1, <2>1, <2>6
  <2> QED BY <2>7 DEF Normalised
<1>6. Len(dir) <= Len(path) =>
        \A i \in 1..Len(dir) : dir[i] \in {Glob, path[i]} <=> Agrees(dir[i], path[i])
  BY <1>5 DEF Agrees
<1> QED BY <1>1, <1>3, <1>4, <1>6 DEF PathMatches, CoversPath, dir

-----------------------------------------------------------------------------
(* Candidates and the endpoints they stand for. *)
Candidates == UrlCandidates \cup HostCandidates

LEMMA CandidateForm ==
  ASSUME NEW c \in Candidates
  PROVE  /\ <<c.host, c.ip>> \in Places
         /\ c.host \in Seq(STRING)
         /\ c.scheme \in WebSchemes \cup {NoScheme}
         /\ c.port \in Ports \cup {NoPort}
         /\ c.path \in Paths \cup {NoPath}
         /\ c.scheme = NoScheme => c.port = NoPort
<1>1. ASSUME NEW p \in Places, NEW s \in WebSchemes \cup {NoScheme},
             NEW port \in Ports \cup {NoPort}, NEW path \in Paths \cup {NoPath},
             c = Candidate(p[1], p[2], s, port, path), s = NoScheme => port = NoPort
      PROVE  /\ <<c.host, c.ip>> \in Places
             /\ c.scheme = s /\ c.port = port /\ c.path = path
  <2>1. p = <<p[1], p[2]>>
    BY DEF Places
  <2> QED BY <1>1, <2>1 DEF Candidate
<1>2. \A p \in Places : p[1] \in Seq(STRING)
  BY NamesAssumption, EmptySeq DEF Places
<1>3. <<c.host, c.ip>> \in Places => c.host \in Seq(STRING)
  BY <1>2
<1>4. CASE c \in UrlCandidates
  <2>1. PICK p \in Places, s \in WebSchemes, port \in Ports \cup {NoPort},
             path \in Paths \cup {NoPath} : c = Candidate(p[1], p[2], s, port, path)
    BY <1>4 DEF UrlCandidates
  <2>2. s # NoScheme
    OBVIOUS
  <2> QED BY <1>1, <1>3, <2>1, <2>2
<1>5. CASE c \in HostCandidates
  <2>1. PICK p \in Places : c = Candidate(p[1], p[2], NoScheme, NoPort, NoPath)
    BY <1>5 DEF HostCandidates
  <2> QED BY <1>1, <1>3, <2>1
<1> QED BY <1>4, <1>5 DEF Candidates

(* The port an endpoint must have is the effective one, when there is one. *)
LEMMA StandsForMeans ==
  ASSUME NEW c \in Candidates, NEW e
  PROVE  e \in StandsFor(c) <=>
           /\ e \in Endpoints
           /\ e.host = c.host /\ e.ip = c.ip
           /\ c.scheme \in {e.scheme, NoScheme}
           /\ EffectivePort(c) \in {e.port, NoPort}
           /\ c.path \in {e.path, NoPath}
<1> DEFINE portFits ==
      /\ c.port # NoPort => e.port = c.port
      /\ c.port = NoPort /\ c.scheme # NoScheme => e.port = DefaultPort[c.scheme]
<1>1. portFits <=> EffectivePort(c) \in {e.port, NoPort}
  <2>1. CASE c.port # NoPort
    BY <2>1 DEF EffectivePort
  <2>2. CASE c.port = NoPort /\ c.scheme = NoScheme
    BY <2>2 DEF EffectivePort
  <2>3. CASE c.port = NoPort /\ c.scheme = "http"
    BY <2>3 DEF EffectivePort, DefaultPort
  <2>4. CASE c.port = NoPort /\ c.scheme = "https"
    BY <2>4 DEF EffectivePort, DefaultPort
  <2> QED BY <2>1, <2>2, <2>3, <2>4, CandidateForm
<1>2. e \in StandsFor(c) <=>
        /\ e \in Endpoints
        /\ e.host = c.host /\ e.ip = c.ip
        /\ c.scheme \in {e.scheme, NoScheme}
        /\ portFits
        /\ c.path \in {e.path, NoPath}
  BY DEF StandsFor
<1> HIDE DEF portFits
<1> QED BY <1>1, <1>2

(* What is not said is completed in every way there is. *)
LEMMA Completions ==
  ASSUME NEW c \in Candidates, NEW s \in WebSchemes, NEW port \in Ports, NEW path \in Paths,
         c.scheme \in {s, NoScheme}, EffectivePort(c) \in {port, NoPort},
         c.path \in {path, NoPath}
  PROVE  Candidate(c.host, c.ip, s, port, path) \in StandsFor(c)
<1> DEFINE e == Candidate(c.host, c.ip, s, port, path)
<1>1. e \in Endpoints
  <2>1. <<c.host, c.ip>> \in Places
    BY CandidateForm
  <2>2. e = Candidate(<<c.host, c.ip>>[1], <<c.host, c.ip>>[2], s, port, path)
    OBVIOUS
  <2> HIDE DEF e
  <2>3. PICK p \in Places : e = Candidate(p[1], p[2], s, port, path)
    BY <2>1, <2>2
  <2> QED BY <2>3 DEF Endpoints
<1>2. e.host = c.host /\ e.ip = c.ip /\ e.scheme = s /\ e.port = port /\ e.path = path
  BY DEF Candidate
<1> HIDE DEF e
<1>3. e \in StandsFor(c)
  BY <1>1, <1>2, StandsForMeans
<1> QED BY <1>3 DEF e

LEMMA EveryCompletion ==
  ASSUME NEW c \in Candidates, NEW e \in StandsFor(c)
  PROVE  /\ e \in Endpoints
         /\ e.host = c.host /\ e.ip = c.ip
         /\ e.scheme \in WebSchemes /\ c.scheme \in {e.scheme, NoScheme}
         /\ e.port \in Ports /\ EffectivePort(c) \in {e.port, NoPort}
         /\ e.path \in Paths /\ c.path \in {e.path, NoPath}
<1>1. e \in Endpoints
  BY StandsForMeans
<1>2. e.scheme \in WebSchemes /\ e.port \in Ports /\ e.path \in Paths
  BY <1>1 DEF Endpoints, Candidate
<1> QED BY <1>1, <1>2, StandsForMeans

(* A candidate stands for something. *)
LEMMA SomeCompletion ==
  ASSUME NEW c \in Candidates
  PROVE  StandsFor(c) # {}
<1> DEFINE s    == IF c.scheme = NoScheme THEN "http" ELSE c.scheme
           port == IF EffectivePort(c) = NoPort THEN 80 ELSE EffectivePort(c)
           path == IF c.path = NoPath THEN RootPath ELSE c.path
<1>1. s \in WebSchemes /\ c.scheme \in {s, NoScheme}
  BY CandidateForm
<1>2. port \in Ports /\ EffectivePort(c) \in {port, NoPort}
  BY CandidateForm, PortsAssumption DEF EffectivePort
<1>3. path \in Paths /\ c.path \in {path, NoPath}
  BY CandidateForm, PathsAssumption
<1> HIDE DEF s, port, path
<1> QED BY <1>1, <1>2, <1>3, Completions

-----------------------------------------------------------------------------
(* Rules that are about names and addresses only. *)
CoversPlace(rule, host, ip) ==
  \/ rule.kind \in {"ip", "cidr"} /\ ip \in rule.ips
  \/ rule.kind = "domain" /\ host = rule.host
  \/ rule.kind = "wildcard" /\ StrictlyBelow(host, rule.host)

LEMMA PlaceMeaning ==
  ASSUME NEW rule \in ParsedRules, rule.kind # "url",
         NEW e \in Endpoints, e.host \in Seq(STRING)
  PROVE  e \in Meaning(rule) <=> CoversPlace(rule, e.host, e.ip)
<1>1. rule.kind \in RuleKinds /\ rule.host \in Seq(STRING)
  BY DEF ParsedRules
<1>2. CASE rule.kind = "domain"
  BY <1>2 DEF Meaning, CoversPlace
<1>3. CASE rule.kind = "wildcard"
  BY <1>1, <1>3, StrictlyBelowMeans DEF Meaning, CoversPlace
<1>4. CASE rule.kind \in {"ip", "cidr"}
  BY <1>4 DEF Meaning, CoversPlace
<1> QED BY <1>1, <1>2, <1>3, <1>4 DEF RuleKinds

LEMMA PlaceRuleMeans ==
  ASSUME NEW rule \in ParsedRules, rule.kind # "url", NEW c \in Candidates, NEW side
  PROVE  /\ RuleMatches(rule, c, side) <=> CoversPlace(rule, c.host, c.ip)
         /\ \A e \in StandsFor(c) : e \in Meaning(rule) <=> CoversPlace(rule, c.host, c.ip)
<1>1. RuleMatches(rule, c, side) <=> CoversPlace(rule, c.host, c.ip)
  BY DEF RuleMatches, CoversPlace
<1>2. ASSUME NEW e \in StandsFor(c)
      PROVE  e \in Meaning(rule) <=> CoversPlace(rule, c.host, c.ip)
  BY <1>2, EveryCompletion, CandidateForm, PlaceMeaning
<1> QED BY <1>1, <1>2

(* What holds of every completion of a candidate, for the rule's place is  *)
(* all that counts: reached by one completion, covered in all of them.     *)
LEMMA PlaceRuleIncludes ==
  ASSUME NEW rule \in ParsedRules, rule.kind # "url", NEW c \in Candidates
  PROVE  RuleMatches(rule, c, "in_scope") <=> StandsFor(c) \cap Meaning(rule) # {}
  BY PlaceRuleMeans, SomeCompletion

LEMMA PlaceRuleExcludes ==
  ASSUME NEW rule \in ParsedRules, rule.kind # "url", NEW c \in Candidates
  PROVE  RuleMatches(rule, c, "out_of_scope") <=>
           /\ rule.path = NoPath \/ c.path # NoPath
           /\ StandsFor(c) \subseteq Meaning(rule)
<1>1. rule.path = NoPath
  BY DEF ParsedRules
<1> QED BY <1>1, PlaceRuleMeans, SomeCompletion

-----------------------------------------------------------------------------
(* Rules that are URLs. *)
LEMMA UrlMeaning ==
  ASSUME NEW rule \in ParsedRules, rule.kind = "url", NEW e \in Endpoints
  PROVE  e \in Meaning(rule) <=>
           /\ e.host = rule.host
           /\ rule.scheme \in {e.scheme, NoScheme}
           /\ rule.port \in {e.port, NoPort}
           /\ CoversPath(rule.path, e.path)
  BY DEF Meaning

LEMMA UrlRuleParts ==
  ASSUME NEW rule \in ParsedRules, PlainRule(rule), rule.kind = "url"
  PROVE  /\ rule.host # NoHost
         /\ rule.scheme \in WebSchemes \cup {NoScheme}
         /\ rule.port \in Ports \cup {NoPort}
         /\ rule.path # NoPath =>
              /\ \E path \in Paths : CoversPath(rule.path, path)
              /\ \A path \in Paths : PathMatches(rule.path, path) <=> CoversPath(rule.path, path)
<1>1. rule.path # NoPath => Normalised(rule.path) /\ \E path \in Paths : CoversPath(rule.path, path)
  BY DEF ParsedRules
<1> QED BY <1>1, PathMatchesMeans, PathsAssumption DEF ParsedRules, PlainRule

(* An inclusion matches a candidate when it reaches some completion of it. *)
LEMMA UrlRuleIncludes ==
  ASSUME NEW rule \in ParsedRules, PlainRule(rule), rule.kind = "url", NEW c \in Candidates
  PROVE  RuleMatches(rule, c, "in_scope") <=> StandsFor(c) \cap Meaning(rule) # {}
<1>1. RuleMatches(rule, c, "in_scope") <=>
        /\ c.host = rule.host
        /\ rule.scheme # NoScheme => c.scheme \in {rule.scheme, NoScheme}
        /\ rule.port # NoPort => EffectivePort(c) \in {rule.port, NoPort}
        /\ rule.path # NoPath /\ c.path # NoPath => PathMatches(rule.path, c.path)
  BY UrlRuleParts DEF RuleMatches, UrlRuleMatches, Fits
<1>2. ASSUME RuleMatches(rule, c, "in_scope")
      PROVE  StandsFor(c) \cap Meaning(rule) # {}
  <2>1. PICK s \in WebSchemes : rule.scheme \in {s, NoScheme} /\ c.scheme \in {s, NoScheme}
    BY <1>1, <1>2, UrlRuleParts, CandidateForm
  <2>2. PICK port \in Ports :
          rule.port \in {port, NoPort} /\ EffectivePort(c) \in {port, NoPort}
    <3>1. EffectivePort(c) \in Ports \cup {NoPort}
      BY CandidateForm, PortsAssumption DEF EffectivePort
    <3>2. rule.port \in Ports \cup {NoPort} /\ 80 \in Ports
      BY UrlRuleParts, PortsAssumption
    <3> QED BY <1>1, <1>2, <3>1, <3>2
  <2>3. PICK path \in Paths : CoversPath(rule.path, path) /\ c.path \in {path, NoPath}
    <3>1. CASE rule.path = NoPath
      BY <3>1, CandidateForm, PathsAssumption DEF CoversPath
    <3>2. CASE rule.path # NoPath /\ c.path = NoPath
      BY <3>2, UrlRuleParts
    <3>3. CASE rule.path # NoPath /\ c.path # NoPath
      BY <3>3, <1>1, <1>2, UrlRuleParts, CandidateForm
    <3> QED BY <3>1, <3>2, <3>3
  <2> DEFINE e == Candidate(c.host, c.ip, s, port, path)
  <2>4. e.host = c.host /\ e.scheme = s /\ e.port = port /\ e.path = path
    BY DEF Candidate
  <2>5. e \in StandsFor(c)
    BY <2>1, <2>2, <2>3, Completions
  <2> HIDE DEF e
  <2>6. e \in Meaning(rule)
    BY <1>1, <1>2, <2>1, <2>2, <2>3, <2>4, <2>5, EveryCompletion, UrlMeaning
  <2> QED BY <2>5, <2>6
<1>3. ASSUME NEW e \in StandsFor(c), e \in Meaning(rule)
      PROVE  RuleMatches(rule, c, "in_scope")
  <2>1. /\ e \in Endpoints /\ e.host = c.host /\ c.scheme \in {e.scheme, NoScheme}
        /\ EffectivePort(c) \in {e.port, NoPort}
        /\ e.path \in Paths /\ c.path \in {e.path, NoPath}
    BY EveryCompletion
  <2>2. /\ e.host = rule.host /\ rule.scheme \in {e.scheme, NoScheme}
        /\ rule.port \in {e.port, NoPort} /\ CoversPath(rule.path, e.path)
    BY <1>3, <2>1, UrlMeaning
  <2>3. rule.path # NoPath => PathMatches(rule.path, e.path)
    BY <2>1, <2>2, UrlRuleParts
  <2> QED BY <1>1, <2>1, <2>2, <2>3
<1> QED BY <1>2, <1>3

(* An exclusion matches a candidate when all completions of it are covered *)
(* and, for a path, when the candidate names one.                          *)
LEMMA UrlRuleExcludes ==
  ASSUME NEW rule \in ParsedRules, PlainRule(rule), rule.kind = "url", NEW c \in Candidates
  PROVE  RuleMatches(rule, c, "out_of_scope") <=>
           /\ rule.path = NoPath \/ c.path # NoPath
           /\ StandsFor(c) \subseteq Meaning(rule)
<1>1. RuleMatches(rule, c, "out_of_scope") <=>
        /\ c.host = rule.host
        /\ rule.scheme # NoScheme => c.scheme = rule.scheme
        /\ rule.port # NoPort => EffectivePort(c) = rule.port
        /\ rule.path # NoPath => c.path # NoPath /\ PathMatches(rule.path, c.path)
  BY UrlRuleParts DEF RuleMatches, UrlRuleMatches, Fits
<1>2. ASSUME RuleMatches(rule, c, "out_of_scope"), NEW e \in StandsFor(c)
      PROVE  e \in Meaning(rule)
  <2>1. /\ e \in Endpoints /\ e.host = c.host /\ c.scheme \in {e.scheme, NoScheme}
        /\ EffectivePort(c) \in {e.port, NoPort}
        /\ e.path \in Paths /\ c.path \in {e.path, NoPath}
    BY EveryCompletion
  <2>2. CoversPath(rule.path, e.path)
    <3>1. CASE rule.path = NoPath
      BY <3>1 DEF CoversPath
    <3>2. CASE rule.path # NoPath
      BY <3>2, <1>1, <1>2, <2>1, UrlRuleParts
    <3> QED BY <3>1, <3>2
  <2> QED BY <1>1, <1>2, <2>1, <2>2, UrlMeaning
<1>3. ASSUME StandsFor(c) \subseteq Meaning(rule), rule.path = NoPath \/ c.path # NoPath
      PROVE  RuleMatches(rule, c, "out_of_scope")
  <2>1. PICK e \in StandsFor(c) : TRUE
    BY SomeCompletion
  <2>2. \A f \in StandsFor(c) :
          /\ f.host = c.host /\ f.host = rule.host
          /\ rule.scheme \in {f.scheme, NoScheme} /\ c.scheme \in {f.scheme, NoScheme}
          /\ rule.port \in {f.port, NoPort} /\ EffectivePort(c) \in {f.port, NoPort}
          /\ f.path \in Paths /\ c.path \in {f.path, NoPath}
          /\ CoversPath(rule.path, f.path)
    BY <1>3, EveryCompletion, UrlMeaning
  <2>3. ASSUME rule.scheme # NoScheme PROVE c.scheme = rule.scheme
    <3> SUFFICES ASSUME c.scheme = NoScheme PROVE FALSE
      BY <2>1, <2>2, <2>3
    <3>1. PICK s \in WebSchemes : s # rule.scheme
      OBVIOUS
    <3>2. e.port \in Ports /\ e.path \in Paths /\ EffectivePort(c) \in {e.port, NoPort}
          /\ c.path \in {e.path, NoPath}
      BY <2>1, EveryCompletion
    <3> DEFINE f == Candidate(c.host, c.ip, s, e.port, e.path)
    <3>3. f \in StandsFor(c)
      BY <3>2, Completions
    <3>4. f.scheme = s
      BY DEF Candidate
    <3> HIDE DEF f
    <3> QED BY <2>2, <2>3, <3>1, <3>3, <3>4
  <2>4. ASSUME rule.port # NoPort PROVE EffectivePort(c) = rule.port
    <3> SUFFICES ASSUME EffectivePort(c) = NoPort PROVE FALSE
      BY <2>1, <2>2, <2>4
    <3>1. PICK port \in Ports : port # rule.port
      BY PortsAssumption
    <3>2. e.scheme \in WebSchemes /\ e.path \in Paths /\ c.scheme \in {e.scheme, NoScheme}
          /\ c.path \in {e.path, NoPath}
      BY <2>1, EveryCompletion
    <3> DEFINE f == Candidate(c.host, c.ip, e.scheme, port, e.path)
    <3>3. f \in StandsFor(c)
      BY <3>2, Completions
    <3>4. f.port = port
      BY DEF Candidate
    <3> HIDE DEF f
    <3> QED BY <2>2, <2>4, <3>1, <3>3, <3>4
  <2>5. ASSUME rule.path # NoPath PROVE c.path # NoPath /\ PathMatches(rule.path, c.path)
    <3>1. c.path # NoPath
      BY <1>3, <2>5
    <3>2. c.path = e.path /\ e.path \in Paths /\ CoversPath(rule.path, e.path)
      BY <2>1, <2>2, <3>1
    <3> QED BY <2>5, <3>1, <3>2, UrlRuleParts
  <2> QED BY <1>1, <2>1, <2>2, <2>3, <2>4, <2>5
<1> QED BY <1>1, <1>2, <1>3

-----------------------------------------------------------------------------
(* evaluate_scope is faithful to what rules mean, whatever rules of the    *)
(* forms in ParsedRules and whatever the candidate leaves unsaid: it       *)
(* allows a candidate when an inclusion reaches an endpoint it may stand   *)
(* for, and no exclusion covers every one of them (scope.py:137-172,       *)
(* 344-399).  Paths that are not plain are left out: see the next theorem. *)
THEOREM DecisionIsFaithful ==
  ASSUME NEW config, config.in \in Seq(ParsedRules), config.out \in Seq(ParsedRules),
         PlainScope(config)
  PROVE  Faithful(config)
<1> SUFFICES ASSUME NEW c \in Candidates
             PROVE  InScope(config, c) <=> Reachable(config, c) /\ ~Excluded(config, c)
  BY DEF Faithful, Candidates
<1>1. SomeMatch(config.in, c, "in_scope") <=> Reachable(config, c)
  <2>1. ASSUME NEW i \in 1..Len(config.in)
        PROVE  RuleMatches(config.in[i], c, "in_scope") <=>
                 StandsFor(c) \cap Meaning(config.in[i]) # {}
    <3>1. config.in[i] \in ParsedRules /\ PlainRule(config.in[i])
      BY ElementOfSeq DEF PlainScope
    <3> QED BY <3>1, PlaceRuleIncludes, UrlRuleIncludes
  <2> QED BY <2>1 DEF SomeMatch, Reachable
<1>2. SomeMatch(config.out, c, "out_of_scope") <=> Excluded(config, c)
  <2>1. ASSUME NEW i \in 1..Len(config.out)
        PROVE  RuleMatches(config.out[i], c, "out_of_scope") <=>
                 /\ config.out[i].path = NoPath \/ c.path # NoPath
                 /\ StandsFor(c) \subseteq Meaning(config.out[i])
    <3>1. config.out[i] \in ParsedRules /\ PlainRule(config.out[i])
      BY ElementOfSeq DEF PlainScope
    <3> QED BY <3>1, PlaceRuleExcludes, UrlRuleExcludes
  <2> QED BY <2>1 DEF SomeMatch, Excluded
<1> QED BY <1>1, <1>2 DEF InScope

(* Where the engine parts with "`*` matches a single segment" and "/book   *)
(* and /book/ both cover /book/x" (ADR 0020, usage.md): a glob that comes  *)
(* last also takes the empty segment of the directory itself, and a        *)
(* pattern with a glob and a closing slash reaches nothing below its       *)
(* directory, so that an exclusion of "/api/*/" spares what is in it       *)
(* (scope.py:389-396).                                                     *)
THEOREM GlobsPartWithTheDocuments ==
  /\ \A rulePath, path :
       /\ Normalised(rulePath) /\ rulePath[Len(rulePath)] = Glob
       /\ Normalised(path) /\ ClosingSlash(path) /\ Len(path) = Len(rulePath)
       /\ \A i \in 1..Len(rulePath) - 1 : path[i] = rulePath[i]
       => PathMatches(rulePath, path) /\ ~CoversPath(rulePath, path)
  /\ \A rulePath, path :
       /\ Normalised(rulePath) /\ HasGlob(rulePath) /\ ClosingSlash(rulePath)
       /\ Normalised(path) /\ Len(path) > Len(rulePath)
       => ~PathMatches(rulePath, path)
<1>1. ASSUME NEW rulePath, NEW path,
             Normalised(rulePath), rulePath[Len(rulePath)] = Glob,
             Normalised(path), ClosingSlash(path), Len(path) = Len(rulePath),
             \A i \in 1..Len(rulePath) - 1 : path[i] = rulePath[i]
      PROVE  PathMatches(rulePath, path) /\ ~CoversPath(rulePath, path)
  <2>1. /\ rulePath \in Seq(STRING) /\ Len(rulePath) \in Nat \ {0} /\ rulePath # NoPath
        /\ path \in Seq(STRING)
    BY <1>1, EmptySeq DEF Normalised
  <2>2. Len(rulePath) \in 1..Len(rulePath) /\ Len(rulePath) <= Len(path)
        /\ \A i \in 1..Len(rulePath) : i = Len(rulePath) \/ i \in 1..Len(rulePath) - 1
    BY <1>1, <2>1
  <2>3. Stripped(rulePath) = rulePath /\ Directory(rulePath) = rulePath
    BY <1>1 DEF Stripped, Directory, ClosingSlash, Glob
  <2>4. \A i \in 1..Len(rulePath) : rulePath[i] \in {Glob, path[i]}
    BY <1>1, <2>2
  <2>5. PathMatches(rulePath, path)
    BY <2>2, <2>3, <2>4 DEF PathMatches
  <2>6. ~Agrees(rulePath[Len(rulePath)], path[Len(rulePath)])
    BY <1>1 DEF Agrees, ClosingSlash, Glob
  <2>7. ~Extends(path, Instances(rulePath, path))
    BY <2>1, <2>2, <2>6, ExtendsAnInstance
  <2>8. ~CoversPath(rulePath, path)
    BY <2>1, <2>3, <2>7 DEF CoversPath
  <2> QED BY <2>5, <2>8
<1>2. ASSUME NEW rulePath, NEW path,
             Normalised(rulePath), HasGlob(rulePath), ClosingSlash(rulePath),
             Normalised(path), Len(path) > Len(rulePath)
      PROVE  ~PathMatches(rulePath, path)
  <2>1. Len(rulePath) \in Nat \ {0} /\ Len(path) \in Nat
    BY <1>2, EmptySeq DEF Normalised
  <2>2. Stripped(rulePath) = rulePath /\ rulePath[Len(rulePath)] = ""
    BY <1>2 DEF Stripped, ClosingSlash
  <2>3. Len(rulePath) \in 1..Len(path) - 1 /\ Len(rulePath) \in 1..Len(rulePath)
    BY <1>2, <2>1
  <2>4. path[Len(rulePath)] # ""
    BY <1>2, <2>3 DEF Normalised
  <2> QED BY <2>2, <2>3, <2>4 DEF PathMatches, Glob
<1> QED BY <1>1, <1>2

-----------------------------------------------------------------------------
(* A candidate that says nothing of scheme, port and path escapes every    *)
(* exclusion that pins one, and is reached by every inclusion that does.   *)
LEMMA IdentityFacts ==
  ASSUME NEW c
  PROVE  /\ Identity(c).host = c.host /\ Identity(c).ip = c.ip
         /\ Identity(c).scheme = NoScheme /\ Identity(c).path = NoPath
         /\ EffectivePort(Identity(c)) = NoPort
  BY DEF Identity, Candidate, EffectivePort, WebSchemes, NoScheme

LEMMA IdentityExcluded ==
  ASSUME NEW c, NEW rule, RuleMatches(rule, Identity(c), "out_of_scope")
  PROVE  RuleMatches(rule, c, "out_of_scope")
<1>1. CASE UrlRuleMatches(rule, Identity(c), "out_of_scope") /\ rule.kind = "url"
  <2>1. c.host # NoHost /\ c.host = rule.host
    BY <1>1, IdentityFacts DEF UrlRuleMatches
  <2>2. rule.scheme = NoScheme /\ rule.port = NoPort /\ rule.path = NoPath
    BY <1>1, IdentityFacts DEF UrlRuleMatches, Fits
  <2> QED BY <1>1, <2>1, <2>2 DEF RuleMatches, UrlRuleMatches, Fits
<1>2. CASE ~(UrlRuleMatches(rule, Identity(c), "out_of_scope") /\ rule.kind = "url")
  BY <1>2, IdentityFacts DEF RuleMatches
<1> QED BY <1>1, <1>2

LEMMA IdentityIncluded ==
  ASSUME NEW c, NEW rule, RuleMatches(rule, c, "in_scope")
  PROVE  RuleMatches(rule, Identity(c), "in_scope")
<1>1. CASE UrlRuleMatches(rule, c, "in_scope") /\ rule.kind = "url"
  <2>1. UrlRuleMatches(rule, Identity(c), "in_scope")
    BY <1>1, IdentityFacts DEF UrlRuleMatches, Fits
  <2> QED BY <1>1, <2>1 DEF RuleMatches
<1>2. CASE ~(UrlRuleMatches(rule, c, "in_scope") /\ rule.kind = "url")
  BY <1>2, IdentityFacts DEF RuleMatches
<1> QED BY <1>1, <1>2

(* Whatever the rules, a URL in scope has its host in scope. *)
LEMMA IdentityInScope ==
  ASSUME NEW config, NEW c, InScope(config, c)
  PROVE  InScope(config, Identity(c))
  BY IdentityExcluded, IdentityIncluded DEF InScope, SomeMatch

-----------------------------------------------------------------------------
(* Rules of one key. *)
LEMMA RootCoversAll ==
  ASSUME NEW path, Normalised(path)
  PROVE  PathMatches(RootPath, path)
<1>1. Len(RootPath) = 1 /\ RootPath[1] = ""
  BY DEF RootPath
<1>2. ~HasGlob(RootPath)
  <2>1. \A i \in 1..1 : i = 1
    OBVIOUS
  <2> QED BY <1>1, <2>1 DEF HasGlob, Glob
<1>3. SubSeq(RootPath, 1, 0) = << >>
  BY SubSeqEmpty
<1>4. Stripped(RootPath) = << >>
  <2>1. RootPath[Len(RootPath)] = "" /\ Len(RootPath) - 1 = 0
    BY DEF RootPath
  <2>2. Stripped(RootPath) = SubSeq(RootPath, 1, Len(RootPath) - 1)
    BY <1>2, <2>1 DEF Stripped
  <2> QED BY <1>3, <2>1, <2>2
<1>5. Len(path) \in Nat
  BY LenProperties DEF Normalised
<1>6. Len(<< >>) = 0 /\ \A i \in 1..0 : FALSE
  OBVIOUS
<1> QED BY <1>4, <1>5, <1>6 DEF PathMatches

LEMMA SameKeyParts ==
  ASSUME NEW rule \in ParsedRules, NEW twin \in ParsedRules, Key(rule) = Key(twin)
  PROVE  \/ rule = twin
         \/ /\ rule.kind = "url" /\ twin.kind = "url"
            /\ rule.host = twin.host /\ rule.scheme = twin.scheme /\ rule.port = twin.port
            /\ \/ rule.path = NoPath /\ twin.path = RootPath
               \/ twin.path = NoPath /\ rule.path = RootPath
<1> DEFINE Type == [ kind : RuleKinds, host : Seq(STRING), ips : SUBSET Addresses,
                     scheme : WebSchemes \cup {NoScheme}, port : Ports \cup {NoPort},
                     path : Seq(STRING) ]
<1>1. rule \in Type /\ twin \in Type
  BY DEF ParsedRules
<1>2. \A r \in Type :
        /\ Key(r).kind = r.kind /\ Key(r).host = r.host /\ Key(r).ips = r.ips
        /\ Key(r).scheme = r.scheme /\ Key(r).port = r.port
        /\ Key(r).path = IF r.kind = "url" /\ r.path = NoPath THEN RootPath ELSE r.path
  BY DEF Key
<1>3. /\ rule.kind = twin.kind /\ rule.host = twin.host /\ rule.ips = twin.ips
      /\ rule.scheme = twin.scheme /\ rule.port = twin.port
  BY <1>1, <1>2
<1>4. \/ rule.path = twin.path
      \/ rule.kind = "url" /\ rule.path = NoPath /\ twin.path = RootPath
      \/ rule.kind = "url" /\ twin.path = NoPath /\ rule.path = RootPath
  <2>1. Key(rule).path = Key(twin).path
    OBVIOUS
  <2>2. (IF rule.kind = "url" /\ rule.path = NoPath THEN RootPath ELSE rule.path)
          = IF twin.kind = "url" /\ twin.path = NoPath THEN RootPath ELSE twin.path
    BY <1>1, <1>2, <2>1
  <2> HIDE DEF Type
  <2> QED BY <1>3, <2>2
<1>5. rule.path = twin.path => rule = twin
  <2>1. \A r \in Type : r = [ kind |-> r.kind, host |-> r.host, ips |-> r.ips,
                              scheme |-> r.scheme, port |-> r.port, path |-> r.path ]
    OBVIOUS
  <2>2. /\ rule = [ kind |-> rule.kind, host |-> rule.host, ips |-> rule.ips,
                    scheme |-> rule.scheme, port |-> rule.port, path |-> rule.path ]
        /\ twin = [ kind |-> twin.kind, host |-> twin.host, ips |-> twin.ips,
                    scheme |-> twin.scheme, port |-> twin.port, path |-> twin.path ]
    BY <1>1, <2>1
  <2> HIDE DEF Type
  <2> QED BY <1>3, <2>2
<1> QED BY <1>3, <1>4, <1>5

(* A url rule and its twin for the root part only at a URL without a path. *)
LEMMA TwinsDecideAlike ==
  ASSUME NEW rule \in ParsedRules, NEW twin \in ParsedRules,
         rule.kind = "url", twin.kind = "url",
         rule.host = twin.host, rule.scheme = twin.scheme, rule.port = twin.port,
         rule.path = NoPath, twin.path = RootPath,
         NEW c \in Candidates, c.path = NoPath => c.scheme = NoScheme,
         NEW side \in Sides
  PROVE  RuleMatches(rule, c, side) <=> RuleMatches(twin, c, side)
<1>1. RootPath # NoPath
  BY DEF RootPath
<1>2. CASE c.path # NoPath
  <2>1. PathMatches(RootPath, c.path)
    BY <1>2, CandidateForm, PathsAssumption, RootCoversAll
  <2> QED BY <1>1, <1>2, <2>1 DEF RuleMatches, UrlRuleMatches
<1>3. CASE c.path = NoPath /\ side = "in_scope"
  BY <1>1, <1>3 DEF RuleMatches, UrlRuleMatches
<1>4. CASE c.path = NoPath /\ side = "out_of_scope"
  <2>1. c.scheme = NoScheme /\ EffectivePort(c) = NoPort
    BY <1>4, CandidateForm DEF EffectivePort
  <2>2. rule.scheme # NoScheme \/ rule.port # NoPort
    BY DEF ParsedRules
  <2> QED BY <1>1, <1>4, <2>1, <2>2 DEF RuleMatches, UrlRuleMatches, Fits
<1> QED BY <1>2, <1>3, <1>4 DEF Sides

LEMMA SameKeysMatchAlike ==
  ASSUME NEW rules \in Seq(ParsedRules), NEW others \in Seq(ParsedRules),
         KeySet(rules) = KeySet(others),
         NEW c \in Candidates, c.path = NoPath => c.scheme = NoScheme,
         NEW side \in Sides, SomeMatch(rules, c, side)
  PROVE  SomeMatch(others, c, side)
<1>1. PICK i \in 1..Len(rules) : RuleMatches(rules[i], c, side)
  BY DEF SomeMatch
<1>2. PICK j \in 1..Len(others) : Key(others[j]) = Key(rules[i])
  BY DEF KeySet
<1>3. rules[i] \in ParsedRules /\ others[j] \in ParsedRules
  BY ElementOfSeq
<1>4. RuleMatches(others[j], c, side)
  <2>1. CASE rules[i] = others[j]
    BY <1>1, <2>1
  <2>2. CASE rules[i] # others[j]
    <3> DEFINE r == rules[i]
               t == others[j]
    <3>1. /\ r.kind = "url" /\ t.kind = "url"
          /\ r.host = t.host /\ r.scheme = t.scheme /\ r.port = t.port
          /\ \/ r.path = NoPath /\ t.path = RootPath
             \/ t.path = NoPath /\ r.path = RootPath
      BY <1>2, <1>3, <2>2, SameKeyParts
    <3>2. r \in ParsedRules /\ t \in ParsedRules /\ RuleMatches(r, c, side)
      BY <1>1, <1>3
    <3> HIDE DEF r, t
    <3>3. RuleMatches(t, c, side)
      BY <3>1, <3>2, TwinsDecideAlike
    <3> QED BY <3>3 DEF t
  <2> QED BY <2>1, <2>2
<1> QED BY <1>4 DEF SomeMatch

(* A replacement that is refused because it changes no key would not have  *)
(* changed a decision, on hosts, addresses and URLs with a path            *)
(* (replace_scope_rules_atomic, scope.py:475-489).                         *)
THEOREM NoOpChangesNoDecision ==
  ASSUME NEW config, config.in \in Seq(ParsedRules), config.out \in Seq(ParsedRules),
         NEW other, other.in \in Seq(ParsedRules), other.out \in Seq(ParsedRules),
         SameRules(config, other),
         NEW c \in Candidates, c.path = NoPath => c.scheme = NoScheme
  PROVE  InScope(config, c) <=> InScope(other, c)
<1>1. KeySet(config.in) = KeySet(other.in) /\ KeySet(config.out) = KeySet(other.out)
  BY DEF SameRules
<1>2. SomeMatch(config.in, c, "in_scope") <=> SomeMatch(other.in, c, "in_scope")
  BY <1>1, SameKeysMatchAlike DEF Sides
<1>3. SomeMatch(config.out, c, "out_of_scope") <=> SomeMatch(other.out, c, "out_of_scope")
  BY <1>1, SameKeysMatchAlike DEF Sides
<1> QED BY <1>2, <1>3 DEF InScope
=============================================================================
