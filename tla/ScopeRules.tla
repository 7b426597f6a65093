----------------------------- MODULE ScopeRules -----------------------------
(***************************************************************************)
(* Which URLs a target's scope rules allow: the decision of the Python     *)
(* scope engine (scope/engine.py), which the native engines and the        *)
(* prober ask, and that of the Go egress proxy (egress-proxy/scope.go).    *)
(*                                                                         *)
(* A host is a name, the sequence of its labels, or an address.  A path is *)
(* a sequence of characters.  A URL gives a port, zero included, or none.  *)
(***************************************************************************)
EXTENDS Integers, Sequences, SequencesExt

CONSTANTS
  Names,         \* host names
  Addresses,     \* IP address literals
  PyPrivate,     \* addresses that are private to Python's ipaddress
  GoPrivate      \* addresses that are private to Go's net package

ASSUME ScopeAssumption ==
  /\ PyPrivate \subseteq Addresses /\ GoPrivate \subseteq Addresses
  /\ Names \cap Addresses = {}

NoPort == -1

DefaultPort(scheme) ==
  CASE scheme \in {"http", "ws"}   -> 80
    [] scheme \in {"https", "wss"} -> 443
    [] OTHER                       -> 0

Slash == <<"/">>
PathOf(url) == IF url.path = <<>> THEN Slash ELSE url.path

(* _parse and parseURL: an explicit port 0 counts as none in Python only.  *)
PyPort(url) ==
  IF url.port \in {NoPort, 0} THEN DefaultPort(url.scheme) ELSE url.port
GoPort(url) ==
  IF url.port = NoPort THEN DefaultPort(url.scheme) ELSE url.port

(* _host_matches and hostMatches: an exact host, the subdomains of a name  *)
(* but not the name itself, or a block of addresses.                       *)
HostMatches(pattern, host) ==
  CASE pattern.form = "host"     -> host = pattern.host
    [] pattern.form = "wildcard" -> /\ host \in Names
                                    /\ host # pattern.host
                                    /\ IsSuffix(pattern.host, host)
    [] pattern.form = "block"    -> host \in pattern.block

(* The rest of _rule_matches and of ruleMatches. *)
RequestMatches(rule, port, url, method) ==
  /\ IF rule.ports = {} THEN port = DefaultPort(url.scheme) ELSE port \in rule.ports
  /\ IsPrefix(rule.prefix, PathOf(url))
  /\ rule.regex = {} \/ PathOf(url) \in rule.regex
  /\ rule.methods = {} \/ method = "" \/ method \in rule.methods

PyRuleMatches(rule, url, method) ==
  /\ url.scheme \in rule.schemes
  /\ HostMatches(rule.pattern, url.host)
  /\ RequestMatches(rule, PyPort(url), url, method)

(* Mutant: the rule's default port is that of https. *)
GoRuleMatchesTls(rule, url, method) ==
  /\ url.scheme \in rule.schemes
  /\ HostMatches(rule.pattern, url.host)
  /\ RequestMatches(rule, GoPort(url), [url EXCEPT !.scheme = "https"], method)

(* A rule without schemes is one for http and https in Go. *)
GoRuleMatches(rule, url, method) ==
  /\ url.scheme \in IF rule.schemes = {} THEN {"https", "http"} ELSE rule.schemes
  /\ HostMatches(rule.pattern, url.host)
  /\ RequestMatches(rule, GoPort(url), url, method)

(* _rule_allows_private and ruleAllowsPrivate: a rule whose host is a      *)
(* private address or a block opts in to private addresses, all of them.   *)
OptsIn(rule, private) ==
  \/ rule.pattern.form = "block"
  \/ rule.pattern.form = "host" /\ rule.pattern.host \in private

(* Mutant: opting in to private addresses puts them in scope. *)
OptInAdmits(rules, authorized, private, port, matches, host) ==
  /\ authorized
  /\ port # 0
  /\ \A i \in DOMAIN rules : rules[i].kind = "exclude" => ~matches[i]
  /\ \/ host \in private /\ \E i \in DOMAIN rules : OptsIn(rules[i], private)
     \/ \E i \in DOMAIN rules : rules[i].kind = "include" /\ matches[i]

(* Mutant: the first rule that matches decides. *)
FirstMatchDecides(rules, authorized, private, port, matches, host) ==
  /\ authorized
  /\ port # 0
  /\ \E i \in DOMAIN rules :
       /\ matches[i] /\ rules[i].kind = "include"
       /\ \A j \in DOMAIN rules : matches[j] => i <= j

(* check and Check: matches[i] tells whether rule i matches.               *)
Decide(rules, authorized, private, port, matches, host) ==
  /\ authorized
  /\ port # 0
  /\ host \in private => \E i \in DOMAIN rules : OptsIn(rules[i], private)
  /\ \A i \in DOMAIN rules : rules[i].kind = "exclude" => ~matches[i]
  /\ \E i \in DOMAIN rules : rules[i].kind = "include" /\ matches[i]

PyAllows(rules, authorized, url, method) ==
  Decide(rules, authorized, PyPrivate, PyPort(url),
         [i \in DOMAIN rules |-> PyRuleMatches(rules[i], url, method)], url.host)

GoAllows(rules, authorized, url, method) ==
  Decide(rules, authorized, GoPrivate, GoPort(url),
         [i \in DOMAIN rules |-> GoRuleMatches(rules[i], url, method)], url.host)

-----------------------------------------------------------------------------
(* Mutant: the directory of a URL is the URL. *)
DirectoryWhole(path) == path

(* The part of a path up to its last slash. *)
Directory(path) ==
  SubSeq(path, 1, CHOOSE i \in DOMAIN path :
                    path[i] = "/" /\ \A j \in DOMAIN path : path[j] = "/" => j <= i)

(* default_scope_rules_for: one rule per base URL, for its host, scheme,   *)
(* port and directory.                                                     *)
DefaultRule(base) ==
  [kind    |-> "include",
   pattern |-> [form |-> "host", host |-> base.host],
   schemes |-> {base.scheme},
   ports   |-> IF base.port \in {NoPort, 0} THEN {} ELSE {base.port},
   prefix  |-> Directory(PathOf(base)),
   regex   |-> {},
   methods |-> {}]

DefaultRules(bases) == [i \in DOMAIN bases |-> DefaultRule(bases[i])]
=============================================================================
