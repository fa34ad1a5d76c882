---------------------------- MODULE ScopeMeaning ----------------------------
(***************************************************************************)
(* What a scope means, independently of how the engine decides: a rule     *)
(* covers a set of endpoints, a candidate stands for all endpoints it may  *)
(* be completed to.  A candidate is reachable when some endpoint it stands *)
(* for is covered by an inclusion, and excluded when every one of them is  *)
(* covered by a single exclusion.  Over finite universes of names,         *)
(* addresses, ports and paths.                                             *)
(***************************************************************************)
EXTENDS Scope

CONSTANTS
  Names,         \* the host names
  Addresses,     \* the IP addresses
  Ports,         \* the ports; the defaults of both schemes among them
  Paths,         \* the paths
  ScopeChoices   \* the scopes operators write

(* _normalize_path: no two slashes in a row, so that only the last segment *)
(* may be empty.                                                           *)
Normalised(path) ==
  /\ path \in Seq(STRING) \ {NoPath}
  /\ \A i \in 1..Len(path) - 1 : path[i] # ""

ASSUME PortsAssumption == {80, 443} \subseteq Ports /\ NoPort \notin Ports
ASSUME PathsAssumption == RootPath \in Paths /\ \A path \in Paths : Normalised(path)
ASSUME NamesAssumption ==
  Names \subseteq Seq(STRING) /\ NoHost \notin Names /\ NoIp \notin Addresses

Places == (Names \X {NoIp}) \cup ({NoHost} \X Addresses)

(* Complete URLs, and every shorter form of them a candidate may have. *)
Endpoints ==
  { Candidate(p[1], p[2], s, port, path) :
      p \in Places, s \in WebSchemes, port \in Ports, path \in Paths }

UrlCandidates ==
  { Candidate(p[1], p[2], s, port, path) :
      p \in Places, s \in WebSchemes, port \in Ports \cup {NoPort},
      path \in Paths \cup {NoPath} }

HostCandidates == {Candidate(p[1], p[2], NoScheme, NoPort, NoPath) : p \in Places}

(* The last label first: a subdomain extends the reversed name. *)
Reversed(name) == [i \in 1..Len(name) |-> name[Len(name) + 1 - i]]

Extends(long, short) ==
  \E tail \in {SubSeq(long, i, Len(long)) : i \in 1..Len(long) + 1} :
     long = short \o tail

ClosingSlash(path) == path[Len(path)] = ""

(* The directory a path names, with or without its closing slash. *)
Directory(path) ==
  IF ClosingSlash(path) THEN SubSeq(path, 1, Len(path) - 1) ELSE path

(* A glob stands for exactly one segment. *)
Instances(pattern, path) ==
  [i \in 1..Len(pattern) |->
     IF pattern[i] = Glob /\ i <= Len(path) /\ path[i] # "" THEN path[i] ELSE pattern[i]]

(* A rule path covers the directory it names and what is below it, written *)
(* with its closing slash or without ("/book and /book/ both cover         *)
(* /book/x", ADR 0020 and usage.md).                                       *)
CoversPath(rulePath, path) ==
  rulePath = NoPath \/ Extends(path, Instances(Directory(rulePath), path))

(* The rule paths the engine reads that way.  It does not where a glob     *)
(* comes last or a pattern with a glob has a closing slash: "/api/*"       *)
(* matches "/api/" too, and "/api/*/" nothing below the directory.         *)
PlainPath(path) == HasGlob(path) => path[Len(path)] \notin {Glob, ""}

PlainRule(rule) == rule.path # NoPath => PlainPath(rule.path)

PlainScope(config) ==
  /\ \A i \in 1..Len(config.in)  : PlainRule(config.in[i])
  /\ \A i \in 1..Len(config.out) : PlainRule(config.out[i])

(* The rules of _parse_rule: only a url rule has a path, and it has a host *)
(* and pins something.  Paths is a universe: no rule is about a path that  *)
(* is not in it.                                                           *)
ParsedRules ==
  { rule \in [ kind : RuleKinds, host : Seq(STRING), ips : SUBSET Addresses,
               scheme : WebSchemes \cup {NoScheme}, port : Ports \cup {NoPort},
               path : Seq(STRING) ] :
      /\ rule.kind = "url" =>
           /\ rule.host # NoHost
           /\ \/ rule.scheme # NoScheme \/ rule.port # NoPort \/ rule.path # NoPath
      /\ rule.path # NoPath =>
           /\ rule.kind = "url"
           /\ Normalised(rule.path)
           /\ \E path \in Paths : CoversPath(rule.path, path) }

ASSUME ChoicesAssumption ==
  \A s \in ScopeChoices : s.in \in Seq(ParsedRules) /\ s.out \in Seq(ParsedRules)

Meaning(rule) ==
  { e \in Endpoints :
      CASE rule.kind = "domain"   -> e.host = rule.host
        [] rule.kind = "wildcard" -> e.host # rule.host
                                     /\ Extends(Reversed(e.host), Reversed(rule.host))
        [] rule.kind = "url"      -> /\ e.host = rule.host
                                     /\ rule.scheme \in {e.scheme, NoScheme}
                                     /\ rule.port \in {e.port, NoPort}
                                     /\ CoversPath(rule.path, e.path)
        [] OTHER                  -> e.ip \in rule.ips }

DefaultPort == [http |-> 80, https |-> 443]

StandsFor(c) ==
  { e \in Endpoints :
      /\ e.host = c.host /\ e.ip = c.ip
      /\ c.scheme \in {e.scheme, NoScheme}
      /\ c.port # NoPort => e.port = c.port
      /\ c.port = NoPort /\ c.scheme # NoScheme => e.port = DefaultPort[c.scheme]
      /\ c.path \in {e.path, NoPath} }

(* A path exclusion says nothing of a candidate that names no path. *)
Excluded(config, c) ==
  \E i \in 1..Len(config.out) :
     /\ config.out[i].path = NoPath \/ c.path # NoPath
     /\ StandsFor(c) \subseteq Meaning(config.out[i])

Reachable(config, c) ==
  \E i \in 1..Len(config.in) : StandsFor(c) \cap Meaning(config.in[i]) # {}

Faithful(config) ==
  \A c \in UrlCandidates \cup HostCandidates :
    InScope(config, c) <=> Reachable(config, c) /\ ~Excluded(config, c)

HostKeyed(config) ==
  \A c \in UrlCandidates : InScope(config, c) => InScope(config, Identity(c))

(* Mapped, not only filtered, so that TLC enumerates them once. *)
FaithfulScopes  == {s : s \in {t \in ScopeChoices : Faithful(t)}}
HostKeyedScopes == {s : s \in {t \in ScopeChoices : HostKeyed(t)}}
=============================================================================
