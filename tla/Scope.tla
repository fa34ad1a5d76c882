------------------------------- MODULE Scope -------------------------------
(***************************************************************************)
(* The scope engine: the rules of scope.yaml, the candidates they are put  *)
(* to, and the decision.  Pure definitions.                                *)
(*                                                                         *)
(* A name is the sequence of its labels, a path the sequence of what lies  *)
(* between its slashes: "/book/" is <<"book", "">> and "/" is <<"">>.      *)
(* Letter case and repeated slashes are gone by the time a rule or a       *)
(* candidate is a record here (_normalize_host, _normalize_path), and a    *)
(* glob stands for a whole segment.                                        *)
(***************************************************************************)
EXTENDS Naturals, Sequences, FiniteSets

NoHost   == << >>       \* the candidate or the rule is an address
NoPath   == << >>
NoScheme == "none"
NoPort   == 0
NoIp     == "none"

RootPath == <<"">>
Glob     == "*"

RuleKinds  == {"domain", "wildcard", "ip", "cidr", "url"}
WebSchemes == {"http", "https"}
Sides      == {"in_scope", "out_of_scope"}

-----------------------------------------------------------------------------
(* What _parse_rule makes of a rule. *)
Rule(kind, host, ips, scheme, port, path) ==
  [ kind |-> kind, host |-> host, ips |-> ips,
    scheme |-> scheme, port |-> port, path |-> path ]

DomainRule(host)   == Rule("domain", host, {}, NoScheme, NoPort, NoPath)
WildcardRule(apex) == Rule("wildcard", apex, {}, NoScheme, NoPort, NoPath)
IpRule(ip)         == Rule("ip", NoHost, {ip}, NoScheme, NoPort, NoPath)
CidrRule(ips)      == Rule("cidr", NoHost, ips, NoScheme, NoPort, NoPath)

UrlRule(scheme, host, port, path) == Rule("url", host, {}, scheme, port, path)

(* normalize_rule_key: what two rules must share to count as the same one. *)
(* A url rule without a path has the key of one for the root.              *)
Key(rule) ==
  IF rule.kind = "url" /\ rule.path = NoPath
  THEN [rule EXCEPT !.path = RootPath] ELSE rule

KeySet(rules) == {Key(rules[i]) : i \in 1..Len(rules)}

(* What _normalize_candidate makes of a candidate. *)
Candidate(host, ip, scheme, port, path) ==
  [host |-> host, ip |-> ip, scheme |-> scheme, port |-> port, path |-> path]

HostCandidate(host) == Candidate(host, NoIp, NoScheme, NoPort, NoPath)
IpCandidate(ip)     == Candidate(NoHost, ip, NoScheme, NoPort, NoPath)

(* The candidate a URL is known by in approvals and contracts. *)
Identity(c) == Candidate(c.host, c.ip, NoScheme, NoPort, NoPath)

-----------------------------------------------------------------------------
(* The port of a candidate, by default that of its scheme. *)
EffectivePort(c) ==
  IF c.port = NoPort /\ c.scheme \in WebSchemes
  THEN (IF c.scheme = "https" THEN 443 ELSE 80)
  ELSE c.port

(* `host` lies strictly below `apex`. *)
StrictlyBelow(host, apex) ==
  /\ Len(host) > Len(apex)
  /\ SubSeq(host, Len(host) - Len(apex) + 1, Len(host)) = apex

(* A scheme or a port a rule pins: what the candidate does not say never   *)
(* blocks an inclusion and never triggers an exclusion.                    *)
FitsEitherSide(wanted, actual, unknown, side) ==      \* defect: side ignored
  wanted # unknown => actual \in {wanted, unknown}

Fits(wanted, actual, unknown, side) ==
  wanted # unknown =>
    IF actual = unknown THEN side = "in_scope" ELSE actual = wanted

HasGlob(path) == \E i \in 1..Len(path) : path[i] = Glob

(* rstrip("/"), which a path with a glob is spared. *)
Stripped(path) ==
  IF path[Len(path)] = "" /\ ~HasGlob(path)
  THEN SubSeq(path, 1, Len(path) - 1) ELSE path

(* _path_match: the rule's segments are a prefix of the candidate's. *)
SegmentsOnly(rulePath, path) ==                       \* defect: no subtree
  LET prefix == Stripped(rulePath) IN
  /\ Len(prefix) = Len(path)
  /\ \A i \in 1..Len(prefix) : prefix[i] \in {Glob, path[i]}

PathMatches(rulePath, path) ==
  LET prefix == Stripped(rulePath) IN
  /\ Len(prefix) <= Len(path)
  /\ \A i \in 1..Len(prefix) : prefix[i] \in {Glob, path[i]}

(* _url_rule_matches: an exclusion of a path spares a candidate without    *)
(* one, an inclusion reaches it.                                           *)
UrlRuleMatches(rule, c, side) ==
  /\ c.host # NoHost
  /\ c.host = rule.host
  /\ Fits(rule.scheme, c.scheme, NoScheme, side)
  /\ Fits(rule.port, EffectivePort(c), NoPort, side)
  /\ rule.path # NoPath =>
       IF c.path = NoPath THEN side = "in_scope"
       ELSE PathMatches(rule.path, c.path)

RuleMatches(rule, c, side) ==
  \/ rule.kind \in {"ip", "cidr"} /\ c.ip \in rule.ips
  \/ rule.kind = "domain" /\ c.host = rule.host
  \/ rule.kind = "wildcard" /\ StrictlyBelow(c.host, rule.host)
  \/ rule.kind = "url" /\ UrlRuleMatches(rule, c, side)

SomeMatch(rules, c, side) == \E i \in 1..Len(rules) : RuleMatches(rules[i], c, side)

(* evaluate_scope decides "allow": exclusions are asked first. *)
InScope(config, c) ==
  /\ ~SomeMatch(config.out, c, "out_of_scope")
  /\ SomeMatch(config.in, c, "in_scope")

-----------------------------------------------------------------------------
NoDuplicates(rules) == Cardinality(KeySet(rules)) = Len(rules)

(* validate_scope_lists, and the same test in replace_scope_rules_atomic. *)
ValidLists(config) ==
  /\ config.in # << >>
  /\ NoDuplicates(config.in)
  /\ NoDuplicates(config.out)
  /\ KeySet(config.in) \cap KeySet(config.out) = {}

(* A replacement that changes no key is refused as a no-op. *)
SameRules(config, other) ==
  /\ KeySet(config.in) = KeySet(other.in)
  /\ KeySet(config.out) = KeySet(other.out)

(* A scope the portal accepts for a run on `target`, a bare host. *)
ListsOnly(config, target) == ValidLists(config)         \* defect: target not asked

Acceptable(config, target) ==
  ValidLists(config) /\ InScope(config, HostCandidate(target))
=============================================================================
