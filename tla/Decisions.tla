------------------------------ MODULE Decisions ------------------------------
(***************************************************************************)
(* The decisions that are pure functions of their inputs: the class of a   *)
(* licence expression and the inventory gate, what a target's scope allows *)
(* and which rules it gets by default, what is reported of an answer and   *)
(* of a certificate, and how findings are correlated, ranked, assessed,    *)
(* proven and reported.  A behaviour makes one call; each property         *)
(* compares its answer with a definition of what the answer should be, or  *)
(* with the answers of related calls.                                      *)
(***************************************************************************)
EXTENDS LicensePolicy, ScopeRules, ResponseChecks, Reports

CONSTANTS
  Licenses,      \* licence ids, in the policy's table or not
  MaxDepth,      \* bound on the operators above one another in an expression
  Inventories,   \* sets of components
  Rules,         \* scope rules
  RuleLists,     \* sequences of scope rules
  Urls, Methods, \* what a scope engine is asked about
  BaseLists,     \* sequences of base URLs
  AnswerPairs,   \* an answer of the target and a later one to the same URL
  Handshakes,    \* what TLS handshakes show
  Findings,      \* pairs of the attributes of findings
  Correlations,  \* a category, a group of observations and one more
  Transfers,     \* a bundle's finding and keys, what changes on the way
  Consultations, \* findings and the provider's reply about them
  Outcomes,      \* findings, evidence key and reply that make a report
  Altered,       \* a value that is not the one that was written
  Unanswered     \* not an answer

VARIABLES
  call,          \* the operation and its arguments
  answer         \* what it returns, Unanswered before

vars == <<call, answer>>

IsPath(path) ==
  path \in Seq(ToSet(path)) /\ (path # <<>> => path[1] = "/")

(* Rules are those the domain model admits: one of the two kinds, and a    *)
(* host that is a name or an address, a wildcard or a block.               *)
ASSUME RulesAssumption ==
  /\ RuleLists \subseteq Seq(Rules)
  /\ \A r \in Rules : /\ r.kind \in {"include", "exclude"}
                      /\ r.pattern.form \in {"host", "wildcard", "block"}

(* A base URL is one of the web, and the path of a URL is empty or begins  *)
(* with a slash.                                                           *)
ASSUME UrlsAssumption ==
  /\ \A bases \in BaseLists : \A i \in DOMAIN bases :
       /\ bases[i].scheme \in {"http", "https"}
       /\ IsPath(bases[i].path)
  /\ \A url \in Urls : IsPath(url.path)

(* Re-verification fetches the URL an observation was made at.             *)
ASSUME AnswersAssumption == \A p \in AnswerPairs : p[1].scheme = p[2].scheme

ASSUME HandshakesAssumption ==
  \A h \in Handshakes : h.left # NoCertificate => h.left \in Int

(* Severities and confidences are those of the domain model, and a group   *)
(* of observations has one at least.                                       *)
Graded(x) == x.severity \in DOMAIN SeverityBase /\ x.confidence \in DOMAIN ConfidenceFactor

ASSUME FindingsAssumption ==
  \A p \in Findings :
    DOMAIN p = {1, 2} /\ \A i \in {1, 2} : Graded(p[i]) /\ p[i].engines \in Nat

ASSUME CorrelationsAssumption ==
  \A c \in Correlations :
    /\ IsFiniteSet(c.group) /\ c.group # {}
    /\ \A o \in c.group \cup {c.more} : Graded(o)

(* The findings that the analyst is asked about have a risk score, and the *)
(* items of a reply a rank or none.                                        *)
IsReply(reply) ==
  /\ reply.kind \in {"away", "raises", "unreadable", "object"}
  /\ reply.kind = "object" =>
       /\ reply.items \in Seq(ToSet(reply.items))
       /\ \A i \in DOMAIN reply.items : reply.items[i].rank \in {Absent, Mangled} \cup Int

ASSUME ConsultationsAssumption ==
  \A c \in Consultations :
    /\ c.findings \in Seq(ToSet(c.findings))
    /\ \A i \in DOMAIN c.findings : c.findings[i].risk \in Int
    /\ IsReply(c.reply)

(* What changes on the way is a field of the bundle, and it gets another   *)
(* value than it had, not a signature with the verifier's key; no          *)
(* signature is mistaken for none.                                         *)
ASSUME TransfersAssumption ==
  \A t \in Transfers :
    LET key   == SigningKey(t.passed, t.environment)
        proof == Build(t.finding, key)
    IN  /\ t.change \in {"nothing"} \cup DOMAIN proof
        /\ t.change \notin {"nothing", "signed"} => Altered # proof[t.change]
        /\ Altered # Signature(t.verifier, proof)
        /\ Signs(key) => proof.signature # Absent

(* The end of a scan: its findings are scored, assessed, ordered and       *)
(* proven.                                                                 *)
Scored(f) == [f EXCEPT !.risk = RiskScore(f)]

ReportOf(outcome) ==
  LET scored   == [i \in DOMAIN outcome.findings |-> Scored(outcome.findings[i])]
      ai       == Assess(scored, outcome.reply)
      findings == Presented(scored, ai)
  IN  [findings |-> findings, ai |-> ai, proofs |-> BuildProofs(findings, outcome.key)]

(* The findings of a scan are told apart by their ids; a scan in which the *)
(* assessment raised has no report; and None is no proof.                  *)
ASSUME OutcomesAssumption ==
  /\ DetailLimit \in Nat
  /\ \A o \in Outcomes :
       /\ o.findings \in Seq(ToSet(o.findings))
       /\ \A i \in DOMAIN o.findings :
            /\ {"id", "category", "severity", "confidence", "engines", "risk"}
                 \subseteq DOMAIN o.findings[i]
            /\ Graded(o.findings[i]) /\ o.findings[i].engines \in Nat
            /\ \A j \in DOMAIN o.findings : i # j => o.findings[i].id # o.findings[j].id
       /\ IsReply(o.reply)
       /\ o.reply.kind = "object" =>
            \A i \in DOMAIN o.reply.items : o.reply.items[i].rank # Mangled
       /\ LET r == ReportOf(o)
          IN  Absent \notin {r.proofs, FilterConfirmed(r).proofs} \cup ToSet(r.proofs.bundles)

-----------------------------------------------------------------------------
(* Licence expressions.  A tree is a licence id or an operator over two    *)
(* trees; AND binds tighter than OR, so that it is an OR below an AND that *)
(* has to be parenthesised.                                                *)

ASSUME ExpressionsAssumption ==
  MaxDepth \in Nat /\ Licenses \cap ({"OR", "AND"} \cup Parens) = {}

Trees[n \in 0 .. MaxDepth] ==
  IF n = 0 THEN [op : {"id"}, id : Licenses]
  ELSE Trees[n - 1] \cup [op : {"OR", "AND"}, left : Trees[n - 1], right : Trees[n - 1]]
Expressions == Trees[MaxDepth]

IsLeaf(tree) == tree.op = "id"

(* The tree as SPDX writes it. *)
Written[tree \in Expressions] ==
  LET operand(t) == IF tree.op = "AND" /\ t.op = "OR"
                    THEN <<"(">> \o Written[t] \o <<")">> ELSE Written[t]
  IN  IF IsLeaf(tree) THEN <<tree.id>>
      ELSE operand(tree.left) \o <<tree.op>> \o operand(tree.right)

(* The class the tree has: the mildest of the two operands of an OR, the   *)
(* strictest of those of an AND.                                           *)
Obliges[tree \in Expressions] ==
  IF IsLeaf(tree) THEN LookUp(<<tree.id>>)
  ELSE LET operands == {Obliges[tree.left], Obliges[tree.right]}
       IN  IF tree.op = "OR" THEN Mildest(operands) ELSE Strictest(operands)

(* It is written without parentheses: no OR is below an AND. *)
Flat(tree) == \A i \in DOMAIN Written[tree] : Written[tree][i] \notin Parens

ASSUME InventoriesAssumption ==
  \A inventory \in Inventories : \A c \in inventory :
    "license" \in DOMAIN c /\ c.license \in Expressions /\ c.reference \in BOOLEAN

(* What a component of the inventory looks like to the gate. *)
Declared(c) == [c EXCEPT !.license = Written[c.license]]

-----------------------------------------------------------------------------
Calls ==
  [op : {"classify"}, tree : Expressions]
  \cup [op : {"inventory"}, components : Inventories]
  \cup [op : {"check"}, rules : RuleLists, authorized : BOOLEAN,
        url : Urls, method : Methods]
  \cup [op : {"default"}, bases : BaseLists]
  \cup [op : {"recheck"}, pair : AnswerPairs]
  \cup [op : {"tls"}, handshake : Handshakes]
  \cup [op : {"rank"}, pair : Findings]
  \cup [op : {"correlate"}, of : Correlations]
  \cup [op : {"transfer"}, of : Transfers]
  \cup [op : {"assess"}, of : Consultations]
  \cup [op : {"report"}, of : Outcomes]

Init == call \in Calls /\ answer = Unanswered

Asked(op) == call.op = op /\ answer = Unanswered /\ UNCHANGED call

ClassifyLicense ==
  Asked("classify") /\ answer' = Classify(Written[call.tree])

CheckInventory ==
  /\ Asked("inventory")
  /\ answer' = [passes  |-> Passes({Declared(c) : c \in call.components}),
                reports |-> [c \in call.components |-> Report(Declared(c))]]

(* The two engines are asked about the same request. *)
CheckScope ==
  /\ Asked("check")
  /\ answer' = [py |-> PyAllows(call.rules, call.authorized, call.url, call.method),
                go |-> GoAllows(call.rules, call.authorized, call.url, call.method)]

DeriveRules == Asked("default") /\ answer' = DefaultRules(call.bases)

Rank ==
  /\ Asked("rank")
  /\ answer' = [i \in DOMAIN call.pair |->
                  [score   |-> RiskScore(call.pair[i]),
                   verdict |-> VerdictFor(call.pair[i])]]

(* What an answer is reported for, what the later answer says of each      *)
(* report, and what would be reported of the later answer itself.          *)
RecheckReports ==
  /\ Asked("recheck")
  /\ LET reports == Analyze(call.pair[1])
     IN  answer' = [verdicts |-> [o \in reports |-> Recheck(o, call.pair[2])],
                    again    |-> Analyze(call.pair[2])]

InspectTls == Asked("tls") /\ answer' = TlsFindings(call.handshake)

(* A group of observations, without one of them and with it. *)
CorrelateGroup ==
  /\ Asked("correlate")
  /\ answer' = [without |-> Merge(call.of.category, call.of.group),
                with    |-> Merge(call.of.category, call.of.group \cup {call.of.more})]

Tampered(proof, change) ==
  CASE change = "nothing" -> proof
    [] change = "signed"  -> [proof EXCEPT !.signed = ~@]
    [] change \notin {"nothing", "signed"} -> [proof EXCEPT ![change] = Altered]

(* A bundle is built, changes on its way, and is verified. *)
TransferBundle ==
  /\ Asked("transfer")
  /\ answer' = Verify(Tampered(Build(call.of.finding, SigningKey(call.of.passed,
                                                                call.of.environment)),
                              call.of.change),
                     call.of.verifier)

ConsultAnalyst ==
  /\ Asked("assess")
  /\ IF AssessRaises(call.of.findings, call.of.reply) THEN answer' = [raises |-> TRUE]
     ELSE LET ai == Assess(call.of.findings, call.of.reply)
          IN  answer' = [raises |-> FALSE, ai |-> ai,
                         order |-> Presented(call.of.findings, ai)]

(* vantage scan renders the report with and without --confirmed-only. *)
ReportScan ==
  /\ Asked("report")
  /\ LET r == ReportOf(call.of)
     IN  answer' = [full |-> Render(r), confirmed |-> Render(FilterConfirmed(r))]

Answered == answer # Unanswered /\ UNCHANGED vars

Next ==
  \/ ClassifyLicense \/ CheckInventory \/ CheckScope \/ DeriveRules
  \/ RecheckReports \/ InspectTls \/ Rank \/ CorrelateGroup
  \/ TransferBundle \/ ConsultAnalyst \/ ReportScan \/ Answered

Spec == Init /\ [][Next]_vars

Answers(op) == call.op = op /\ answer # Unanswered

-----------------------------------------------------------------------------
(* An expression with no OR below an AND gets the class its tree obliges   *)
(* to, although the policy splits the text and never parses it.            *)
FlatExpressionsExact ==
  Answers("classify") /\ Flat(call.tree) => answer = Obliges[call.tree]

(* The gate lets an inventory of flat expressions pass exactly when every  *)
(* component may ship: a RED one only isolated and approved on record, a   *)
(* YELLOW one only approved, a rejected or unknown one never.              *)
MayShip(c) ==
  LET class == Obliges[c.license]
  IN  /\ class # "UNKNOWN"
      /\ c.approval # "rejected"
      /\ class # "GREEN" => c.approval = "approved"
      /\ class = "RED" => c.integration \in Isolated /\ c.reference

GateIsExact ==
  Answers("inventory") /\ (\A c \in call.components : Flat(c.license))
    => (answer.passes <=> \A c \in call.components : MayShip(c))

(* Licences are classed and gated as the policy and its docstring say.     *)
LicencesAreExact == FlatExpressionsExact /\ GateIsExact

-----------------------------------------------------------------------------
(* The engine in the scanner and the proxy on the wire, which are given    *)
(* the same rules, decide alike: an engine never asks for what the proxy   *)
(* would refuse it, nor the other way round.  What they read differently   *)
(* is left out: a rule without schemes, an explicit port 0, an address     *)
(* only one of them knows to be private.                                   *)
ScopeEnginesAgree ==
  /\ Answers("check")
  /\ \A i \in DOMAIN call.rules : call.rules[i].schemes # {}
  /\ call.url.port # 0
  /\ \A h \in {call.url.host} \cup {call.rules[i].pattern.host :
             i \in {j \in DOMAIN call.rules : call.rules[j].pattern.form = "host"}} :
       h \in PyPrivate <=> h \in GoPrivate
  => answer.py = answer.go

(* The order of the rules does not matter: excludes beat includes wherever *)
(* they are written.                                                       *)
OrderIsIrrelevant ==
  Answers("check") =>
    answer.py = PyAllows(Reverse(call.rules), call.authorized, call.url, call.method)

(* Adding an exclude rule never admits a request, although an exclude rule *)
(* for a private block counts as opting in to private addresses.           *)
ExcludesOnlyNarrow ==
  Answers("check") /\ ~answer.py =>
    \A r \in {x \in Rules : x.kind = "exclude"} :
      ~PyAllows(Append(call.rules, r), call.authorized, call.url, call.method)

(* The default rules admit a URL exactly when it has the scheme, host and  *)
(* port of a base URL and is in its directory or below.                    *)
DefaultScopeIsExact ==
  Answers("default") =>
    \A url \in Urls :
      PyAllows(answer, TRUE, url, "") <=>
        \E i \in DOMAIN call.bases :
          /\ call.bases[i].scheme = url.scheme
          /\ call.bases[i].host = url.host
          /\ PyPort(call.bases[i]) = PyPort(url)
          /\ \E n \in DOMAIN PathOf(url) :
               /\ PathOf(url)[n] = "/"
               /\ SubSeq(PathOf(url), 1, n) = Directory(PathOf(call.bases[i]))

-----------------------------------------------------------------------------
AtMost(order, a, b) ==
  \E i, j \in DOMAIN order : order[i] = a /\ order[j] = b /\ i <= j

(* Of two findings of one category, the one that is at least as severe, as *)
(* certain and as often reported never scores less, at the cap included.   *)
RiskIsMonotone ==
  Answers("rank") =>
    LET f == call.pair[1]  g == call.pair[2]
    IN  /\ f.category = g.category
        /\ AtMost(Severities, f.severity, g.severity)
        /\ AtMost(Confidences, f.confidence, g.confidence)
        /\ f.engines <= g.engines
        => answer[1].score <= answer[2].score

(* The score and the proof of a finding agree: the proofs that dispute     *)
(* their finding are those of the findings that score nothing, and of two  *)
(* findings alike in severity and category, a corroborated or confirmed    *)
(* one scores more than one that is merely reported.                       *)
VerdictsFollowTheScore ==
  Answers("rank") =>
    /\ \A i \in {1, 2} : answer[i].verdict = "disputed" <=> answer[i].score = 0
    /\ /\ call.pair[1].category = call.pair[2].category
       /\ call.pair[1].severity = call.pair[2].severity
       /\ answer[1].verdict = "reported"
       /\ answer[2].verdict \in {"corroborated", "confirmed"}
       => answer[1].score < answer[2].score

(* Correlating one more observation never lowers the score of a finding: a *)
(* refuted one adds its engine and its severity, as any other does.        *)
MoreReportsNeverLess ==
  Answers("correlate") => RiskScore(answer.without) <= RiskScore(answer.with)

(* The ranking of findings is coherent: with their severity, confidence    *)
(* and engines, with the proofs that are shown of them, and with what is   *)
(* reported of them.                                                       *)
RankingIsCoherent == RiskIsMonotone /\ VerdictsFollowTheScore /\ MoreReportsNeverLess

-----------------------------------------------------------------------------
(* The validator and the analyzer read an answer alike: what the analyzer  *)
(* would report again is not refuted, and what is confirmed would be       *)
(* reported again.  Where they differ is left out: the analyzer also asks  *)
(* for SameSite, the validator takes any CORS header for a permissive one  *)
(* and no cookie for one without flags.                                    *)
RecheckAgrees ==
  Answers("recheck") /\ call.pair[2].ok =>
    \A o \in DOMAIN answer.verdicts :
      LET again   == \E p \in answer.again : p.class = o.class /\ p.detector = o.detector
          cookies == call.pair[2].cookies
      IN  /\ again /\ ~(/\ o.class = "insecure_cookie"
                        /\ {"secure", "httponly"} \subseteq UNION cookies)
             => answer.verdicts[o] # "refuted"
          /\ /\ answer.verdicts[o] = "confirmed"
             /\ o.class # "cors_misconfiguration"
             /\ ~(o.class = "insecure_cookie" /\ cookies = {})
             => again

(* A certificate is reported expired from the moment it is, and expiring   *)
(* in the 15 days before, never both.                                      *)
CertificatesAreDated ==
  /\ Answers("tls")
  /\ call.handshake.scheme = "https"
  /\ ~call.handshake.error
  /\ call.handshake.left # NoCertificate
  =>
    LET found == {o.detector : o \in answer}
        left  == call.handshake.left
    IN  /\ "cert-expired" \in found <=> left < 0
        /\ "cert-expiring" \in found <=> left \in 0..(15 * 24 - 1)

-----------------------------------------------------------------------------
(* Whoever has the key verifies a bundle as it was built, and nothing that *)
(* it says of its finding changes unnoticed; nor does its digest, the      *)
(* signature of a signed bundle, or the mark of an unsigned one.           *)
BundlesVerify ==
  Answers("transfer") =>
    LET key    == SigningKey(call.of.passed, call.of.environment)
        change == call.of.change
    IN  /\ change = "nothing" => (answer <=> (Signs(key) => call.of.verifier = key))
        /\ change \notin {"nothing", "signature", "signed"} => ~answer
        /\ change = "signature" /\ Signs(key) => ~answer
        /\ change = "signed" /\ ~Signs(key) => ~answer

(* The AI annotates and reorders: it says nothing of a finding there is    *)
(* not, loses and adds none, puts what it ranks before what it does not    *)
(* (up to the rank that stands for none), leaves what has no rank in the   *)
(* order of its risk, and puts a finding into one group at most.           *)
AiOnlyAnnotates ==
  Answers("assess") /\ ~answer.raises =>
    LET ids   == ToSet(Ids(call.of.findings))
        given == answer.ai.annotations
        hasRank(f) == f.id \in DOMAIN given /\ given[f.id].rank \notin {Absent, 0}
        ranked(f)  == hasRank(f) /\ given[f.id].rank < Unranked
    IN  /\ DOMAIN given \subseteq ids
        /\ Len(answer.order) = Len(call.of.findings) /\ ToSet(Ids(answer.order)) = ids
        /\ answer.ai.enabled =>
             \A i, j \in DOMAIN answer.order : i < j =>
               /\ ranked(answer.order[j]) => ranked(answer.order[i])
               /\ ~hasRank(answer.order[i]) /\ ~hasRank(answer.order[j])
                    => answer.order[i].risk >= answer.order[j].risk
        /\ \A g, h \in DOMAIN answer.ai.groups :
             g # h => answer.ai.groups[g] \cap answer.ai.groups[h] = {}
        /\ \A id \in DOMAIN given :
             given[id].group # Absent => id \in answer.ai.groups[given[id].group]

(* The formats of a report tell the same findings in the same order, and   *)
(* the command fails exactly when the SARIF has an error; the view of the  *)
(* confirmed findings is what has a confirming proof, with its proof.      *)
ReportsAgree ==
  Answers("report") =>
    /\ \A view \in {answer.full, answer.confirmed} :
         LET results == view.sarif.results
             bundles == view.json.proofs.bundles
         IN  /\ view.json.findings = view.markdown.table
             /\ view.json.findings = [i \in DOMAIN results |-> results[i].finding]
             /\ view.sarif.rules = {results[i].rule : i \in DOMAIN results}
             /\ view.exit = 1 <=> \E i \in DOMAIN results : results[i].level = "error"
             /\ [i \in DOMAIN bundles |-> bundles[i].finding] = view.json.findings
             /\ \A i \in DOMAIN view.markdown.details :
                  view.markdown.details[i].verdict = bundles[i].verdict
    /\ LET proven == {p \in ToSet(answer.full.json.proofs.bundles) :
                        p.verdict \in ConfirmedVerdicts}
           all    == answer.full.json.findings
           kept   == answer.confirmed.json.findings
       IN  /\ answer.full.json.proofs.confirmed = Cardinality(proven)
           /\ Len(kept) = Cardinality(proven) /\ ToSet(kept) = {p.finding : p \in proven}
           /\ \A m, n \in DOMAIN kept : m < n =>
                \E i, j \in DOMAIN all : i < j /\ all[i] = kept[m] /\ all[j] = kept[n]
           /\ answer.confirmed.markdown.proven \in
                {Absent, <<Cardinality(proven), Cardinality(proven)>>}
=============================================================================
