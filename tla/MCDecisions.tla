----------------------------- MODULE MCDecisions -----------------------------
EXTENDS Decisions

CONSTANTS a1, a2, a3, a4   \* public, private, private to Python only, in a2's block

(*** Licences: one of each class, one the policy does not list ***)
LicenseIds == {"mit", "mpl", "gpl"}
ClassTable == [mit |-> "GREEN", mpl |-> "YELLOW", gpl |-> "RED"]
AllLicenses == LicenseIds \cup {"other"}
Components ==
  {[license |-> l, integration |-> i, approval |-> a, reference |-> ref] :
     l \in Trees[0] \cup [op : {"OR"}, left : Trees[0], right : Trees[0]],
     i \in {"sdk", "container"}, a \in {"pending", "approved", "rejected"},
     ref \in BOOLEAN}
AllInventories ==
  {{c} : c \in Components} \cup
  {{c, d} : c, d \in {x \in Components : x.license.op = "id" /\ x.integration = "container"}}

(*** Scope ***)
Site == <<"example", "com">>
Api  == <<"api", "example", "com">>
HostNames == {Site, Api}
AllAddresses == {a1, a2, a3, a4}
Hosts(h) == [form |-> "host", host |-> h]
Patterns ==
  {Hosts(Site), Hosts(a1), Hosts(a2), [form |-> "wildcard", host |-> Site],
   [form |-> "block", block |-> {a2, a4}]}
Root == <<"/">>
Shop == <<"/", "s", "/">>
Item == <<"/", "s", "/", "i">>
SomeRules ==
  {[kind |-> k, pattern |-> p, schemes |-> {"https", "http"}, ports |-> {}, prefix |-> x,
    regex |-> {}, methods |-> {}] :
     k \in {"include", "exclude"}, p \in Patterns, x \in {Root, Shop}}
  \cup
  {[kind |-> "include", pattern |-> Hosts(Site), schemes |-> s, ports |-> q, prefix |-> Root,
    regex |-> r, methods |-> m] :
     s \in {{}, {"https"}}, q \in {{}, {80, 443}}, r \in {{}, {Item}}, m \in {{}, {"GET"}}}
AllRuleLists == UNION {[1..n -> SomeRules] : n \in 0..2}
AllUrls ==
  [scheme : {"http", "https"}, host : HostNames \cup AllAddresses,
   port : {NoPort, 0, 80, 443}, path : {<<>>, Root, Shop, Item}]
SomeUrls ==
  {u \in AllUrls : /\ u.path # Root
                   /\ u.port \in {0, 80} => u.host = Site /\ u.path = Item}
SomeMethods == {"", "POST"}
Bases == {u \in AllUrls : u.host \in {Site, a2, a3} /\ u.port # 80}
AllBaseLists == {<<b>> : b \in Bases} \cup
                {<<b, c>> : b, c \in {u \in Bases : u.port # 0 /\ u.path = Item}}

(*** Findings ***)
Attributes ==
  [severity : {"info", "low", "medium", "high", "critical"},
   confidence : {"false_positive", "tentative", "firm", "confirmed"},
   engines : 1..3,
   category : {"sql_injection", "xss", "clickjacking", "tls_weakness"}]
AllFindings ==
  {<<f, g>> : f \in Attributes, g \in Attributes}
SomeFindings == {p \in AllFindings : p[1].category = p[2].category}

(*** Answers of the target, and certificates ***)
AllAnswers ==
  [ok : BOOLEAN, scheme : {"http", "https"},
   headers : SUBSET {"strict-transport-security", "referrer-policy"},
   cookies : {{}, {{}}, {{"secure", "httponly"}}, {{"secure"}, {"samesite"}}, {CookieFlags}},
   origin : {"none", "*", "site"}, credentials : BOOLEAN,
   versions : {{"server"}}, secrets : {{"jwt"}}, listing : {FALSE},
   signs : {{[at |-> "server", technology |-> "nginx"]}}]
SomeAnswerPairs ==
  {<<a, b>> : a \in {x \in AllAnswers : x.ok /\ x.headers = {}},
              b \in {x \in AllAnswers : ~x.ok => x.origin = "none"}}
SameUrl == {p \in SomeAnswerPairs : p[1].scheme = p[2].scheme}
SomeHandshakes ==
  [scheme : {"http", "https"}, error : BOOLEAN, protocol : {"TLSv1.1", "TLSv1.3"}, self_signed : BOOLEAN,
   left : {-49, -48, -25, -24, -1, 0, 1, 24, 359, 360, 361, NoCertificate}]

Place(order, x) == CHOOSE i \in DOMAIN order : order[i] = x

(*** Correlation, proofs, assessments and reports ***)
SomeObservations ==
  [engine : {"e1", "e2", "e3"}, severity : {"info", "low", "high"},
   confidence : {"false_positive", "tentative", "firm", "confirmed"}]
SomeGroups == {{a, b} : a, b \in SomeObservations}
SomeCorrelations ==
  [category : {"xss"}, group : SomeGroups, more : SomeObservations]

Keys == {Absent, "", "k1", "k2"}
SomeTransfers ==
  [finding : [id : {"f1"}, category : {"xss"}, severity : {"low"},
              confidence : {"false_positive", "tentative", "confirmed"}, engines : {1, 2},
              evidence : SUBSET {"exchange", "recheck"}],
   passed : Keys, environment : Keys, verifier : Keys,
   change : {"nothing", "integrity", "signature", "signed", "verdict", "severity",
             "baseline", "reproduction", "engines"}]

Risky(id, risk) ==
  [id |-> id, category |-> "xss", severity |-> "low", confidence |-> "tentative",
   engines |-> 1, evidence |-> {}, risk |-> risk]
Lists(S, n) == UNION {[1..k -> S] : k \in 0..n}
Items ==
  [id : {"f1", "f2", "ghost"}, rank : {Absent, 0, 1, 2, Unranked + 1, Mangled}, group : {Absent, "g1", "g2"}]
Replies ==
  [kind : {"away", "raises", "unreadable"}] \cup
  [kind : {"object"}, items : Lists(Items, 2)]
SomeConsultations ==
  [findings : {<<Risky("f1", a), Risky("f2", b), Risky("f3", c)>> : a, b, c \in {10, 20}},
   reply : Replies]

(* The findings of a report, in the order of correlation. *)
InOrder(fs) ==
  \A i, j \in DOMAIN fs : i < j =>
    \/ Place(Severities, fs[i].severity) > Place(Severities, fs[j].severity)
    \/ /\ fs[i].severity = fs[j].severity
       /\ Place(Confidences, fs[i].confidence) >= Place(Confidences, fs[j].confidence)
Named(fs) == [i \in DOMAIN fs |-> fs[i] @@ [id |-> <<"f1", "f2", "f3">>[i], risk |-> 0]]
SomeOutcomes ==
  [findings : {Named(fs) : fs \in
     {x \in Lists([category : {"sql_injection", "clickjacking"}, evidence : {{"recheck"}},
                   severity : {"low", "high"}, engines : {1, 2},
                   confidence : {"false_positive", "tentative", "firm", "confirmed"}], 2) :
        InOrder(x)}},
   key : {Absent, "k1"},
   reply : {[kind |-> "away"],
            [kind |-> "object", items |-> <<[id |-> "f2", rank |-> 1, group |-> "g1"]>>]}]
=============================================================================
