--------------------------- MODULE DecisionsProofs ---------------------------
(***************************************************************************)
(* What the pure decisions guarantee for every input: scope engines and    *)
(* default scopes, certificates and the recheck of findings, ranking,      *)
(* proof bundles, and the assessments of the AI analyst.                   *)
(*                                                                         *)
(* AnswerInv, which holds in every reachable state, says that an answer is *)
(* what the operation returns for the arguments of the call.  Each theorem *)
(* then rests on lemmas about the operation alone, and its proof takes     *)
(* them to the states through AnswerInv.                                   *)
(***************************************************************************)
EXTENDS Decisions, FiniteSetTheorems, TLAPS

(* The call is one of Calls, and what it is answered is what the operation *)
(* returns for its arguments.                                              *)
AnswerInv ==
  /\ call \in Calls
  /\ Answers("classify") => answer = Classify(Written[call.tree])
  /\ Answers("inventory") =>
       answer = [passes  |-> Passes({Declared(c) : c \in call.components}),
                 reports |-> [c \in call.components |-> Report(Declared(c))]]
  /\ Answers("check") =>
       answer = [py |-> PyAllows(call.rules, call.authorized, call.url, call.method),
                 go |-> GoAllows(call.rules, call.authorized, call.url, call.method)]
  /\ Answers("default") => answer = DefaultRules(call.bases)
  /\ Answers("rank") =>
       answer = [i \in DOMAIN call.pair |->
                   [score   |-> RiskScore(call.pair[i]),
                    verdict |-> VerdictFor(call.pair[i])]]
  /\ Answers("recheck") =>
       answer = [verdicts |-> [o \in Analyze(call.pair[1]) |-> Recheck(o, call.pair[2])],
                 again    |-> Analyze(call.pair[2])]
  /\ Answers("tls") => answer = TlsFindings(call.handshake)
  /\ Answers("correlate") =>
       answer = [without |-> Merge(call.of.category, call.of.group),
                 with    |-> Merge(call.of.category, call.of.group \cup {call.of.more})]
  /\ Answers("transfer") =>
       answer = Verify(Tampered(Build(call.of.finding, SigningKey(call.of.passed,
                                                                 call.of.environment)),
                               call.of.change),
                      call.of.verifier)
  /\ Answers("assess") =>
       answer = IF AssessRaises(call.of.findings, call.of.reply) THEN [raises |-> TRUE]
                ELSE LET ai == Assess(call.of.findings, call.of.reply)
                     IN  [raises |-> FALSE, ai |-> ai,
                          order |-> Presented(call.of.findings, ai)]
  /\ Answers("report") =>
       LET r == ReportOf(call.of)
       IN  answer = [full |-> Render(r), confirmed |-> Render(FilterConfirmed(r))]

(* A call is answered for the arguments it was made with. *)
LEMMA AnswerInvHolds == Spec => []AnswerInv
<1>1. Init => AnswerInv
  BY DEF Init, AnswerInv, Answers
<1>2. AnswerInv /\ [Next]_vars => AnswerInv'
  <2> SUFFICES ASSUME AnswerInv, [Next]_vars PROVE AnswerInv'
    OBVIOUS
  <2>1. CASE CheckScope
    BY <2>1, Zenon DEF AnswerInv, CheckScope, Asked, Answers
  <2>2. CASE DeriveRules
    BY <2>2, Zenon DEF AnswerInv, DeriveRules, Asked, Answers
  <2>3. CASE Rank
    BY <2>3, Zenon DEF AnswerInv, Rank, Asked, Answers
  <2>4. CASE RecheckReports
    BY <2>4, Zenon DEF AnswerInv, RecheckReports, Asked, Answers
  <2>5. CASE InspectTls
    BY <2>5, Zenon DEF AnswerInv, InspectTls, Asked, Answers
  <2>6. CASE CorrelateGroup
    BY <2>6, Zenon DEF AnswerInv, CorrelateGroup, Asked, Answers
  <2>7. CASE TransferBundle
    BY <2>7, Zenon DEF AnswerInv, TransferBundle, Asked, Answers
  <2>8. CASE ConsultAnalyst
    BY <2>8, Zenon DEF AnswerInv, ConsultAnalyst, Asked, Answers
  <2>9. CASE ReportScan
    BY <2>9, Zenon DEF AnswerInv, ReportScan, Asked, Answers
  <2>10. CASE ClassifyLicense
    BY <2>10, Zenon DEF AnswerInv, ClassifyLicense, Asked, Answers
  <2>11. CASE CheckInventory
    BY <2>11, Zenon DEF AnswerInv, CheckInventory, Asked, Answers
  <2>12. CASE Answered \/ UNCHANGED vars
    <3>1. UNCHANGED <<call, answer>>
      BY <2>12 DEF Answered, vars
    <3> QED
      BY <3>1, Zenon DEF AnswerInv, Answers
  <2> QED
    BY <2>1, <2>2, <2>3, <2>4, <2>5, <2>6, <2>7, <2>8, <2>9, <2>10,
       <2>11, <2>12 DEF Next
<1> QED
  BY <1>1, <1>2, PTL DEF Spec

(* The rules of a check are a sequence of rules. *)
LEMMA CheckedRules ==
  ASSUME call \in Calls, call.op = "check"
  PROVE  call.rules \in Seq(Rules)
<1>1. call.rules \in RuleLists
  BY DEF Calls
<1> QED
  BY <1>1, RulesAssumption

-----------------------------------------------------------------------------
(* Whatever private address a rule matches, the rule itself opts in to it, *)
(* so that the opt-in of another rule never admits it.                     *)
LEMMA MatchingRuleOptsIn ==
  ASSUME NEW rule \in Rules, NEW url, NEW method,
         url.host \in PyPrivate, PyRuleMatches(rule, url, method)
  PROVE  OptsIn(rule, PyPrivate)
<1>1. HostMatches(rule.pattern, url.host)
  BY DEF PyRuleMatches
<1>2. CASE rule.pattern.form = "host"
  <2>1. rule.pattern.host = url.host
    BY <1>1, <1>2 DEF HostMatches
  <2> QED
    BY <1>2, <2>1 DEF OptsIn
<1>3. CASE rule.pattern.form = "wildcard"
  <2>1. url.host \in Names
    BY <1>1, <1>3 DEF HostMatches
  <2> QED
    BY <2>1, ScopeAssumption
<1>4. CASE rule.pattern.form = "block"
  BY <1>4 DEF OptsIn
<1> QED
  BY <1>2, <1>3, <1>4, RulesAssumption

(* A request that the rules refuse is refused with one more exclude rule. *)
LEMMA ExcludeNarrows ==
  ASSUME NEW rules \in Seq(Rules), NEW r \in Rules, r.kind = "exclude",
         NEW authorized, NEW url, NEW method,
         PyAllows(Append(rules, r), authorized, url, method)
  PROVE  PyAllows(rules, authorized, url, method)
<1> DEFINE more == Append(rules, r)
           matches == [i \in DOMAIN rules |-> PyRuleMatches(rules[i], url, method)]
           moreMatches == [i \in DOMAIN more |-> PyRuleMatches(more[i], url, method)]
<1>1. /\ DOMAIN rules \subseteq DOMAIN more
      /\ \A i \in DOMAIN rules : more[i] = rules[i] /\ rules[i] \in Rules
      /\ \A i \in DOMAIN more : i \in DOMAIN rules \/ more[i] = r
  OBVIOUS
<1>2. \A i \in DOMAIN rules : moreMatches[i] = matches[i]
  BY <1>1
<1>3. /\ authorized
      /\ PyPort(url) # 0
      /\ \A i \in DOMAIN more : more[i].kind = "exclude" => ~moreMatches[i]
      /\ \E i \in DOMAIN more : more[i].kind = "include" /\ moreMatches[i]
  BY DEF PyAllows, Decide
<1>4. PICK i \in DOMAIN rules : rules[i].kind = "include" /\ matches[i]
  BY <1>1, <1>2, <1>3
<1>5. url.host \in PyPrivate => OptsIn(rules[i], PyPrivate)
  BY <1>1, <1>4, MatchingRuleOptsIn
<1>6. \A k \in DOMAIN rules : rules[k].kind = "exclude" => ~matches[k]
  BY <1>1, <1>2, <1>3
<1> QED
  BY <1>3, <1>4, <1>5, <1>6 DEF PyAllows, Decide

(* Adding an exclude rule to any target never brings a request into scope, *)
(* although the opt-in to private addresses (scope/engine.py) looks at the *)
(* exclude rules too.                                                      *)
THEOREM ExcludesOnlyNarrowHolds == Spec => []ExcludesOnlyNarrow
<1>1. AnswerInv => ExcludesOnlyNarrow
  <2> SUFFICES ASSUME AnswerInv, Answers("check"), ~answer.py,
                      NEW r \in Rules, r.kind = "exclude",
                      PyAllows(Append(call.rules, r), call.authorized, call.url, call.method)
               PROVE  FALSE
    BY DEF ExcludesOnlyNarrow
  <2>1. call.rules \in Seq(Rules)
    BY CheckedRules DEF AnswerInv, Answers
  <2>2. PyAllows(call.rules, call.authorized, call.url, call.method)
    BY <2>1, ExcludeNarrows
  <2>3. answer = [py |-> PyAllows(call.rules, call.authorized, call.url, call.method),
                  go |-> GoAllows(call.rules, call.authorized, call.url, call.method)]
    BY DEF AnswerInv
  <2>4. answer.py = PyAllows(call.rules, call.authorized, call.url, call.method)
    BY <2>3, Zenon
  <2> QED
    BY <2>2, <2>4
<1> QED
  BY <1>1, AnswerInvHolds, PTL

-----------------------------------------------------------------------------
(* Where rules name their schemes and the URL no port 0, a rule matches in *)
(* the two engines alike.                                                  *)
LEMMA RuleMatchesAlike ==
  ASSUME NEW rule, NEW url, NEW method, rule.schemes # {}, url.port # 0
  PROVE  PyRuleMatches(rule, url, method) = GoRuleMatches(rule, url, method)
<1>1. PyPort(url) = GoPort(url)
  BY DEF PyPort, GoPort, NoPort
<1> QED
  BY <1>1, Zenon DEF PyRuleMatches, GoRuleMatches

(* The scanner's engine and the egress proxy give the same answer to every *)
(* request the two read alike.                                             *)
THEOREM ScopeEnginesAgreeHolds == Spec => []ScopeEnginesAgree
<1>1. AnswerInv => ScopeEnginesAgree
  <2> DEFINE rules == call.rules
             url   == call.url
  <2> SUFFICES ASSUME AnswerInv, Answers("check"), url.port # 0,
                      \A i \in DOMAIN rules : rules[i].schemes # {},
                      \A h \in {url.host} \cup {rules[i].pattern.host :
                           i \in {j \in DOMAIN rules : rules[j].pattern.form = "host"}} :
                        h \in PyPrivate <=> h \in GoPrivate
               PROVE  answer.py = answer.go
    BY DEF ScopeEnginesAgree
  <2> DEFINE pys == [i \in DOMAIN rules |-> PyRuleMatches(rules[i], url, call.method)]
             gos == [i \in DOMAIN rules |-> GoRuleMatches(rules[i], url, call.method)]
  <2>1. pys = gos
    BY RuleMatchesAlike
  <2>2. PyPort(url) = GoPort(url)
    BY DEF PyPort, GoPort, NoPort
  <2>3. url.host \in PyPrivate <=> url.host \in GoPrivate
    OBVIOUS
  <2>4. \A i \in DOMAIN rules : OptsIn(rules[i], PyPrivate) <=> OptsIn(rules[i], GoPrivate)
    BY DEF OptsIn
  <2>5. PyAllows(rules, call.authorized, url, call.method)
          <=> GoAllows(rules, call.authorized, url, call.method)
    <3> HIDE DEF rules, url
    <3> USE <2>1, <2>2, <2>3, <2>4
    <3> QED
      BY DEF PyAllows, GoAllows, Decide
  <2>6. answer = [py |-> PyAllows(rules, call.authorized, url, call.method),
                  go |-> GoAllows(rules, call.authorized, url, call.method)]
    BY DEF AnswerInv
  <2>7. /\ answer.py = PyAllows(rules, call.authorized, url, call.method)
        /\ answer.go = GoAllows(rules, call.authorized, url, call.method)
    BY <2>6, Zenon
  <2>8. answer.py \in BOOLEAN /\ answer.go \in BOOLEAN
    BY <2>7 DEF PyAllows, GoAllows, Decide
  <2> QED
    BY <2>5, <2>7, <2>8
<1> QED
  BY <1>1, AnswerInvHolds, PTL

-----------------------------------------------------------------------------
(* Two lists of the same rules admit the same requests.                    *)
LEMMA SameRulesAdmitAlike ==
  ASSUME NEW one, NEW other, NEW authorized, NEW url, NEW method,
         \A i \in DOMAIN one : \E j \in DOMAIN other : one[i] = other[j],
         \A j \in DOMAIN other : \E i \in DOMAIN one : one[i] = other[j],
         PyAllows(one, authorized, url, method)
  PROVE  PyAllows(other, authorized, url, method)
<1>1. /\ authorized
      /\ PyPort(url) # 0
      /\ url.host \in PyPrivate => \E i \in DOMAIN one : OptsIn(one[i], PyPrivate)
      /\ \A i \in DOMAIN one : one[i].kind = "exclude" => ~PyRuleMatches(one[i], url, method)
      /\ \E i \in DOMAIN one : one[i].kind = "include" /\ PyRuleMatches(one[i], url, method)
  BY DEF PyAllows, Decide
<1>2. url.host \in PyPrivate => \E j \in DOMAIN other : OptsIn(other[j], PyPrivate)
  BY <1>1
<1>3. \A j \in DOMAIN other : other[j].kind = "exclude" => ~PyRuleMatches(other[j], url, method)
  BY <1>1
<1>4. \E j \in DOMAIN other : other[j].kind = "include" /\ PyRuleMatches(other[j], url, method)
  BY <1>1
<1> QED
  BY <1>1, <1>2, <1>3, <1>4 DEF PyAllows, Decide

(* Reversing a list of rules changes no decision.                          *)
LEMMA ReversedAdmitsAlike ==
  ASSUME NEW rules \in Seq(Rules), NEW authorized, NEW url, NEW method
  PROVE  PyAllows(rules, authorized, url, method)
           = PyAllows(Reverse(rules), authorized, url, method)
<1> DEFINE turned == Reverse(rules)
<1>1. /\ turned \in Seq(Rules)
      /\ Len(turned) = Len(rules)
      /\ \A i \in 1..Len(rules) : turned[i] = rules[Len(rules) - i + 1]
  BY DEF Reverse
<1>2. \A i \in DOMAIN rules : \E j \in DOMAIN turned : rules[i] = turned[j]
  <2> TAKE i \in DOMAIN rules
  <2>1. Len(rules) - i + 1 \in 1..Len(rules) /\ DOMAIN turned = 1..Len(rules)
    BY <1>1
  <2>2. turned[Len(rules) - i + 1] = rules[Len(rules) - (Len(rules) - i + 1) + 1]
    BY <1>1, <2>1, Zenon
  <2>3. Len(rules) - (Len(rules) - i + 1) + 1 = i
    OBVIOUS
  <2> QED
    BY <2>1, <2>2, <2>3
<1>3. \A j \in DOMAIN turned : \E i \in DOMAIN rules : rules[i] = turned[j]
  <2> TAKE j \in DOMAIN turned
  <2>1. Len(rules) - j + 1 \in DOMAIN rules
    BY <1>1
  <2> QED
    BY <1>1, <2>1
<1> HIDE DEF turned
<1>4. PyAllows(rules, authorized, url, method) => PyAllows(turned, authorized, url, method)
  BY <1>2, <1>3, SameRulesAdmitAlike
<1>5. PyAllows(turned, authorized, url, method) => PyAllows(rules, authorized, url, method)
  <2>1. /\ \A i \in DOMAIN turned : \E j \in DOMAIN rules : turned[i] = rules[j]
        /\ \A j \in DOMAIN rules : \E i \in DOMAIN turned : turned[i] = rules[j]
    BY <1>2, <1>3
  <2> QED
    BY <2>1, SameRulesAdmitAlike
<1>6. /\ PyAllows(rules, authorized, url, method) \in BOOLEAN
      /\ PyAllows(turned, authorized, url, method) \in BOOLEAN
  BY DEF PyAllows, Decide
<1> QED
  BY <1>4, <1>5, <1>6 DEF turned

(* A target's rules decide alike in whatever order they are written: an    *)
(* exclude rule wins over an include rule before or after it.              *)
THEOREM OrderIsIrrelevantHolds == Spec => []OrderIsIrrelevant
<1>1. AnswerInv => OrderIsIrrelevant
  <2> SUFFICES ASSUME AnswerInv, Answers("check")
               PROVE  answer.py = PyAllows(Reverse(call.rules), call.authorized,
                                           call.url, call.method)
    BY DEF OrderIsIrrelevant
  <2>1. call.rules \in Seq(Rules)
    BY CheckedRules DEF AnswerInv, Answers
  <2>2. answer = [py |-> PyAllows(call.rules, call.authorized, call.url, call.method),
                  go |-> GoAllows(call.rules, call.authorized, call.url, call.method)]
    BY DEF AnswerInv
  <2>3. answer.py = PyAllows(call.rules, call.authorized, call.url, call.method)
    BY <2>2, Zenon
  <2> QED
    BY <2>1, <2>3, ReversedAdmitsAlike
<1> QED
  BY <1>1, AnswerInvHolds, PTL

-----------------------------------------------------------------------------
(* The classes of what a handshake is reported for: the certificate is     *)
(* expired with less than no whole day left, expiring with less than 15.   *)
LEMMA EvaluatedDates ==
  ASSUME NEW info, ~info.error, info.left \in Int, info.left # NoCertificate
  PROVE  LET found == {o.detector : o \in Evaluate(info)}
         IN  /\ "cert-expired" \in found <=> info.left < 0
             /\ "cert-expiring" \in found <=> info.left \in 0..359
<1> DEFINE dated == IF DaysLeft(info) < 0
                    THEN {Reported("tls_weakness", "cert-expired", "high", {})}
                    ELSE IF DaysLeft(info) < 15
                    THEN {Reported("tls_weakness", "cert-expiring", "low", {})}
                    ELSE {}
           others ==
             {Reported("tls_weakness", "weak-protocol", "medium", {}) :
                x \in {info.protocol} \cap WeakProtocols}
             \cup {Reported("tls_weakness", "cert-self-signed", "medium", {}) :
                     x \in {info.self_signed} \cap {TRUE}}
<1>1. /\ DaysLeft(info) < 0 <=> info.left < 0
      /\ DaysLeft(info) < 15 <=> info.left < 360
  BY DEF DaysLeft
<1>2. \A o : o \in Evaluate(info) <=> o \in dated \/ o \in others
  BY Zenon DEF Evaluate
<1>3. \A o \in others : o.detector \in {"weak-protocol", "cert-self-signed"}
  BY DEF Reported
<1>4. CASE info.left < 0
  <2>1. dated = {Reported("tls_weakness", "cert-expired", "high", {})}
    BY <1>1, <1>4
  <2>2. \A o \in dated : o.detector = "cert-expired"
    BY <2>1 DEF Reported
  <2> DEFINE report == Reported("tls_weakness", "cert-expired", "high", {})
  <2>3. report \in dated /\ report.detector = "cert-expired"
    BY <2>1 DEF Reported
  <2> HIDE DEF dated, others, report
  <2> QED
    BY <1>2, <1>3, <1>4, <2>2, <2>3
<1>5. CASE info.left \in 0..359
  <2>1. dated = {Reported("tls_weakness", "cert-expiring", "low", {})}
    BY <1>1, <1>5
  <2>2. \A o \in dated : o.detector = "cert-expiring"
    BY <2>1 DEF Reported
  <2> DEFINE report == Reported("tls_weakness", "cert-expiring", "low", {})
  <2>3. report \in dated /\ report.detector = "cert-expiring"
    BY <2>1 DEF Reported
  <2> HIDE DEF dated, others, report
  <2> QED
    BY <1>2, <1>3, <1>5, <2>2, <2>3
<1>6. CASE info.left > 359
  <2>1. dated = {}
    BY <1>1, <1>6
  <2> HIDE DEF dated, others
  <2> QED
    BY <1>2, <1>3, <1>6, <2>1
<1> QED
  BY <1>4, <1>5, <1>6

(* The TLS engine (native/tls.py) reports every certificate by the hours   *)
(* it has left, on either side of both dates.                              *)
THEOREM CertificatesAreDatedHolds == Spec => []CertificatesAreDated
<1>1. AnswerInv => CertificatesAreDated
  <2> SUFFICES ASSUME AnswerInv, Answers("tls"), call.handshake.scheme = "https",
                      ~call.handshake.error, call.handshake.left # NoCertificate
               PROVE  LET found == {o.detector : o \in answer}
                          left  == call.handshake.left
                      IN  /\ "cert-expired" \in found <=> left < 0
                          /\ "cert-expiring" \in found <=> left \in 0..(15 * 24 - 1)
    BY DEF CertificatesAreDated
  <2>1. answer = Evaluate(call.handshake)
    BY DEF AnswerInv, TlsFindings
  <2>2. call.handshake \in Handshakes
    BY DEF AnswerInv, Answers, Calls
  <2>3. call.handshake.left \in Int
    BY <2>2, HandshakesAssumption
  <2>4. 15 * 24 - 1 = 359
    OBVIOUS
  <2> QED
    BY <2>1, <2>3, <2>4, EvaluatedDates
<1> QED
  BY <1>1, AnswerInvHolds, PTL

-----------------------------------------------------------------------------
(* What the headers of an answer are reported for, of what re-verification *)
(* knows how to look at again.                                             *)
LEMMA ReportedConditions ==
  ASSUME NEW res, NEW o \in Analyze(res)
  PROVE  /\ res.ok
         /\ o.class = "missing_security_header" =>
              /\ o.detector \in DOMAIN HeaderSeverity \ res.headers
              /\ o.detector = "strict-transport-security" => res.scheme = "https"
         /\ o.class = "insecure_cookie" =>
              /\ o.detector = "cookie-flags"
              /\ res.cookies # {}
              /\ CookieFlags \ UNION res.cookies # {}
         /\ o.class = "cors_misconfiguration" =>
              /\ o.detector = "cors-wildcard-credentials"
              /\ res.origin = "*"
         /\ o.class \notin {"directory_listing", "clickjacking"}
<1>1. res.ok
  BY DEF Analyze
<1>2. CASE o \in HeaderFindings(res)
  BY <1>1, <1>2 DEF HeaderFindings, Reported
<1>3. CASE o \in CookieFindings(res)
  <2> DEFINE missing == CookieFlags \ UNION res.cookies
  <2>1. /\ res.cookies # {} /\ missing # {}
        /\ o = Reported("insecure_cookie", "cookie-flags", "low", missing)
    BY <1>3, Zenon DEF CookieFindings
  <2> HIDE DEF missing
  <2>2. o.class = "insecure_cookie" /\ o.detector = "cookie-flags"
    BY <2>1 DEF Reported
  <2> QED
    BY <1>1, <2>1, <2>2 DEF missing
<1>4. CASE o \in CorsFindings(res)
  BY <1>1, <1>4 DEF CorsFindings, Reported
<1>5. CASE o \in BannerFindings(res) \cup SecretFindings(res) \cup Fingerprints(res)
  <2>1. o.class \in {"information_disclosure", "secret_exposure"}
    BY <1>5 DEF BannerFindings, SecretFindings, Fingerprints, Reported
  <2> QED
    BY <1>1, <2>1
<1> QED
  BY <1>1, <1>2, <1>3, <1>4, <1>5 DEF Analyze

(* An answer without a required header is reported for it.                 *)
LEMMA MissingHeaderReported ==
  ASSUME NEW res, res.ok, NEW h \in DOMAIN HeaderSeverity \ res.headers,
         h = "strict-transport-security" => res.scheme = "https"
  PROVE  \E o \in Analyze(res) : o.class = "missing_security_header" /\ o.detector = h
<1> DEFINE o == Reported("missing_security_header", h, HeaderSeverity[h], {h})
<1>1. o \in HeaderFindings(res)
  BY DEF HeaderFindings
<1>2. o \in Analyze(res)
  BY <1>1 DEF Analyze
<1>3. o.class = "missing_security_header" /\ o.detector = h
  BY DEF Reported
<1> HIDE DEF o
<1> QED
  BY <1>2, <1>3

(* An answer whose cookies lack a flag is reported for them.               *)
LEMMA WeakCookieReported ==
  ASSUME NEW res, res.ok, res.cookies # {}, CookieFlags \ UNION res.cookies # {}
  PROVE  \E o \in Analyze(res) : o.class = "insecure_cookie" /\ o.detector = "cookie-flags"
<1> DEFINE o == Reported("insecure_cookie", "cookie-flags", "low",
                         CookieFlags \ UNION res.cookies)
<1>1. CookieFindings(res) = {o}
  BY DEF CookieFindings
<1>2. o \in Analyze(res)
  BY <1>1 DEF Analyze
<1>3. o.class = "insecure_cookie" /\ o.detector = "cookie-flags"
  BY DEF Reported
<1> HIDE DEF o
<1> QED
  BY <1>2, <1>3

(* ConfigReverifyStrategy (scan/validation.py) and the engines that report *)
(* headers and cookies (native/headers.py) read every answer alike, but    *)
(* for the exceptions that RecheckAgrees names.                            *)
THEOREM RecheckAgreesHolds == Spec => []RecheckAgrees
<1>1. AnswerInv => RecheckAgrees
  <2> DEFINE before  == call.pair[1]
             after   == call.pair[2]
             cookies == after.cookies
  <2> SUFFICES ASSUME AnswerInv, Answers("recheck"), after.ok, NEW o \in DOMAIN answer.verdicts
               PROVE
                 LET again == \E p \in answer.again : p.class = o.class /\ p.detector = o.detector
                 IN  /\ again /\ ~(/\ o.class = "insecure_cookie"
                                   /\ {"secure", "httponly"} \subseteq UNION cookies)
                        => answer.verdicts[o] # "refuted"
                     /\ /\ answer.verdicts[o] = "confirmed"
                        /\ o.class # "cors_misconfiguration"
                        /\ ~(o.class = "insecure_cookie" /\ cookies = {})
                        => again
    BY DEF RecheckAgrees
  <2> DEFINE again == \E p \in Analyze(after) : p.class = o.class /\ p.detector = o.detector
             verdicts == [x \in Analyze(before) |-> Recheck(x, after)]
  <2>1. answer = [verdicts |-> verdicts, again |-> Analyze(after)]
    BY Zenon DEF AnswerInv
  <2>2. answer.again = Analyze(after) /\ answer.verdicts = verdicts
    BY <2>1, Zenon
  <2>3. o \in Analyze(before) /\ answer.verdicts[o] = Recheck(o, after)
    BY <2>2
  <2>4. before.scheme = after.scheme
    BY AnswersAssumption DEF AnswerInv, Answers, Calls
  <2> HIDE DEF verdicts, before, after
  <2>5. again /\ ~(o.class = "insecure_cookie" /\ {"secure", "httponly"} \subseteq UNION cookies)
          => Recheck(o, after) # "refuted"
    <3> SUFFICES ASSUME NEW p \in Analyze(after), p.class = o.class, p.detector = o.detector,
                        ~(/\ o.class = "insecure_cookie"
                          /\ {"secure", "httponly"} \subseteq UNION cookies)
                 PROVE  Recheck(o, after) # "refuted"
      OBVIOUS
    <3>1. CASE o.class = "missing_security_header"
      BY <3>1, ReportedConditions DEF Recheck, ConditionHolds
    <3>2. CASE o.class = "insecure_cookie"
      BY <3>2 DEF Recheck, ConditionHolds, CookieWeak
    <3>3. CASE o.class = "cors_misconfiguration"
      BY <3>3, ReportedConditions DEF Recheck, ConditionHolds
    <3>4. o.class \notin {"directory_listing", "clickjacking"}
      BY <2>3, ReportedConditions
    <3> QED
      BY <3>1, <3>2, <3>3, <3>4 DEF Recheck, Reverified
  <2>6. ASSUME Recheck(o, after) = "confirmed", o.class # "cors_misconfiguration",
               ~(o.class = "insecure_cookie" /\ cookies = {})
        PROVE  again
    <3>1. CASE o.class = "missing_security_header"
      <4>1. o.detector \notin after.headers
        BY <2>6, <3>1 DEF Recheck, ConditionHolds
      <4>2. /\ o.detector \in DOMAIN HeaderSeverity
            /\ o.detector = "strict-transport-security" => after.scheme = "https"
        BY <2>3, <2>4, <3>1, ReportedConditions
      <4> QED
        BY <3>1, <4>1, <4>2, MissingHeaderReported
    <3>2. CASE o.class = "insecure_cookie"
      <4>1. CookieWeak(cookies)
        BY <2>6, <3>2 DEF Recheck, ConditionHolds
      <4>2. CookieFlags \ UNION cookies # {}
        BY <4>1 DEF CookieWeak, CookieFlags
      <4>3. o.detector = "cookie-flags"
        BY <2>3, <3>2, ReportedConditions
      <4> QED
        BY <2>6, <3>2, <4>2, <4>3, WeakCookieReported
    <3>3. o.class \notin {"directory_listing", "clickjacking"}
      BY <2>3, ReportedConditions
    <3> QED
      BY <2>6, <3>1, <3>2, <3>3 DEF Recheck, Reverified
  <2> QED
    BY <2>2, <2>3, <2>5, <2>6
<1> QED
  BY <1>1, AnswerInvHolds, PTL

-----------------------------------------------------------------------------
(* A sealed bundle has the digest of its content, is marked signed exactly *)
(* when there is a key to sign with, and then has the signature of its     *)
(* content with that key.                                                  *)
Sealed(proof, key) ==
  /\ proof = [x \in DOMAIN proof |-> proof[x]]
  /\ Marks \subseteq DOMAIN proof
  /\ proof.integrity = Digest(proof)
  /\ proof.signed = Signs(key)
  /\ Signs(key) => proof.signature = Signature(key, proof)
  /\ ~Signs(key) => proof.signature = Absent

(* Every bundle that is built is sealed.                                   *)
LEMMA BuiltIsSealed ==
  ASSUME NEW f, NEW key
  PROVE  Sealed(Build(f, key), key)
<1> DEFINE bare == [finding |-> f.id, category |-> f.category, verdict |-> VerdictFor(f),
                    severity |-> f.severity, confidence |-> f.confidence,
                    engines |-> f.engines, baseline |-> Baseline(f),
                    observed |-> Observed(f), differential |-> Differential(f),
                    reproduction |-> Reproduction(f),
                    integrity |-> Absent, signature |-> Absent, signed |-> FALSE]
           digested == [bare EXCEPT !.integrity = Digest(bare)]
           signed == [digested EXCEPT !.signature = Signature(key, bare), !.signed = TRUE]
           proof == Build(f, key)
<1>1. proof = IF Signs(key) THEN signed ELSE digested
  BY Zenon DEF Build
<1>2. /\ bare = [x \in DOMAIN bare |-> bare[x]]
      /\ Marks \subseteq DOMAIN bare
      /\ bare.signature = Absent /\ bare.signed = FALSE
  BY DEF Marks
<1> HIDE DEF bare
<1>3. /\ DOMAIN digested = DOMAIN bare
      /\ digested = [x \in DOMAIN digested |-> digested[x]]
      /\ digested.integrity = Digest(bare)
      /\ \A x \in DOMAIN bare \ {"integrity"} : digested[x] = bare[x]
  BY <1>2 DEF Marks
<1> HIDE DEF digested
<1>4. /\ DOMAIN signed = DOMAIN bare
      /\ signed = [x \in DOMAIN signed |-> signed[x]]
      /\ signed.integrity = Digest(bare)
      /\ signed.signature = Signature(key, bare)
      /\ signed.signed = TRUE
      /\ \A x \in DOMAIN bare \ Marks : signed[x] = bare[x]
  BY <1>2, <1>3 DEF Marks
<1> HIDE DEF signed
<1>5. Canonical(digested) = Canonical(bare) /\ Canonical(signed) = Canonical(bare)
  BY <1>3, <1>4 DEF Canonical, Marks
<1>6. Digest(digested) = Digest(bare) /\ Digest(signed) = Digest(bare)
  BY <1>5 DEF Digest
<1>7. Signature(key, signed) = Signature(key, bare)
  BY <1>5 DEF Signature
<1>8. CASE Signs(key)
  <2>1. proof = signed
    BY <1>1, <1>8
  <2> HIDE DEF proof
  <2>2. Signs(key) = TRUE
    BY <1>8 DEF Signs
  <2>3. Sealed(proof, key)
    BY <1>2, <1>4, <1>6, <1>7, <2>1, <2>2 DEF Sealed
  <2> QED
    BY <2>3 DEF proof
<1>9. CASE ~Signs(key)
  <2>1. proof = digested
    BY <1>1, <1>9
  <2>2. digested.signature = Absent /\ digested.signed = FALSE
    BY <1>2, <1>3 DEF Marks
  <2>3. Signs(key) = FALSE
    BY <1>9 DEF Signs
  <2> HIDE DEF proof
  <2>4. Sealed(proof, key)
    BY <1>2, <1>3, <1>6, <2>1, <2>2, <2>3 DEF Sealed
  <2> QED
    BY <2>4 DEF proof
<1> QED
  BY <1>8, <1>9

(* Two bundles with the same digest say the same of their finding.         *)
LEMMA DigestTellsContents ==
  ASSUME NEW one, NEW other, DOMAIN one = DOMAIN other, Digest(one) = Digest(other),
         NEW x \in DOMAIN one \ Marks
  PROVE  one[x] = other[x]
<1>1. Canonical(one) = Canonical(other)
  BY DEF Digest
<1>2. Canonical(one)[x] = one[x] /\ Canonical(other)[x] = other[x]
  BY DEF Canonical
<1> QED
  BY <1>1, <1>2

(* Bundles that say the same have the same digest and signatures.          *)
LEMMA ContentsTellDigest ==
  ASSUME NEW one, NEW other, DOMAIN one = DOMAIN other,
         \A x \in DOMAIN one \ Marks : one[x] = other[x]
  PROVE  /\ Digest(one) = Digest(other)
         /\ \A key : Signature(key, one) = Signature(key, other)
<1>1. Canonical(one) = Canonical(other)
  BY DEF Canonical
<1> QED
  BY <1>1 DEF Digest, Signature

(* Whoever verifies a bundle (findings/proof.py) with the key it was       *)
(* signed with accepts it as it was built, and no one a bundle that was    *)
(* changed after that, but for a signed one that was stripped of its mark.   *)
THEOREM BundlesVerifyHolds == Spec => []BundlesVerify
<1>1. AnswerInv => BundlesVerify
  <2> DEFINE key      == SigningKey(call.of.passed, call.of.environment)
             change   == call.of.change
             verifier == call.of.verifier
             proof    == Build(call.of.finding, key)
             got      == Tampered(proof, change)
  <2> SUFFICES ASSUME AnswerInv, Answers("transfer")
               PROVE  /\ change = "nothing" => (answer <=> (Signs(key) => verifier = key))
                      /\ change \notin {"nothing", "signature", "signed"} => ~answer
                      /\ change = "signature" /\ Signs(key) => ~answer
                      /\ change = "signed" /\ ~Signs(key) => ~answer
    BY DEF BundlesVerify
  <2>1. answer = Verify(got, verifier)
    BY Zenon DEF AnswerInv
  <2>2. call.of \in Transfers
    BY DEF AnswerInv, Answers, Calls
  <2>3. /\ change \in {"nothing"} \cup DOMAIN proof
        /\ change \notin {"nothing", "signed"} => Altered # proof[change]
        /\ Altered # Signature(verifier, proof)
        /\ Signs(key) => proof.signature # Absent
    BY <2>2, TransfersAssumption
  <2>4. /\ proof = [x \in DOMAIN proof |-> proof[x]]
        /\ Marks \subseteq DOMAIN proof
        /\ proof.integrity = Digest(proof)
        /\ proof.signed = Signs(key)
        /\ Signs(key) => proof.signature = Signature(key, proof)
        /\ ~Signs(key) => proof.signature = Absent
    BY BuiltIsSealed DEF Sealed
  <2> HIDE DEF proof, key, change, verifier
  <2>5. CASE change = "nothing"
    <3>1. got = proof
      BY <2>5 DEF Tampered
    <3>2. Signature(verifier, proof) = Signature(key, proof) <=> verifier = key
      BY DEF Signature
    <3> QED
      BY <2>1, <2>3, <2>4, <2>5, <3>1, <3>2 DEF Verify
  <2>6. CASE change = "signed"
    <3>1. got = [proof EXCEPT !.signed = ~@]
      BY <2>6 DEF Tampered
    <3>2. got.signed = ~proof.signed /\ got.signature = proof.signature
      BY <2>4, <3>1 DEF Marks
    <3> QED
      BY <2>1, <2>4, <2>6, <3>2 DEF Verify
  <2>7. CASE change \notin {"nothing", "signed"}
    <3>1. got = [proof EXCEPT ![change] = Altered]
      BY <2>7 DEF Tampered
    <3>2. /\ DOMAIN got = DOMAIN proof
          /\ got[change] = Altered
          /\ \A x \in DOMAIN proof \ {change} : got[x] = proof[x]
      BY <2>3, <2>4, <2>7, <3>1
    <3> HIDE DEF got
    <3>3. CASE change = "integrity"
      <4>1. Digest(got) = Digest(proof)
        BY <3>2, <3>3, ContentsTellDigest DEF Marks
      <4> QED
        BY <2>1, <2>3, <2>4, <2>7, <3>2, <3>3, <4>1 DEF Verify
    <3>4. CASE change = "signature"
      <4>1. Signature(verifier, got) = Signature(verifier, proof)
        BY <3>2, <3>4, ContentsTellDigest DEF Marks
      <4>2. got.signed = proof.signed
        BY <2>4, <3>2, <3>4 DEF Marks
      <4> QED
        BY <2>1, <2>3, <2>4, <3>2, <3>4, <4>1, <4>2 DEF Verify
    <3>5. CASE change \notin Marks
      <4>1. got.integrity = Digest(proof)
        BY <2>4, <3>2, <3>5 DEF Marks
      <4>2. got[change] # proof[change] /\ change \in DOMAIN got \ Marks
        BY <2>3, <2>7, <3>2, <3>5
      <4>3. Digest(got) # Digest(proof)
        BY <3>2, <4>2, DigestTellsContents
      <4> QED
        BY <2>1, <2>7, <3>5, <4>1, <4>3 DEF Verify, Marks
    <3> QED
      BY <2>7, <3>3, <3>4, <3>5 DEF Marks
  <2> QED
    BY <2>5, <2>6, <2>7
<1> QED
  BY <1>1, AnswerInvHolds, PTL

-----------------------------------------------------------------------------
(* The factors of a score lie between these bounds.                        *)
LEMMA FactorBounds ==
  ASSUME NEW f, Graded(f), f.engines \in Nat
  PROVE  /\ SeverityBase[f.severity] \in {5, 25, 50, 75, 95}
         /\ ConfidenceFactor[f.confidence] \in {0, 60, 85, 100}
         /\ Corroboration(f.engines) \in {100, 104, 108}
         /\ ExposureFactor(f.category) \in {90, 92, 100, 103, 105, 106, 108, 110}
<1>1. SeverityBase[f.severity] \in {5, 25, 50, 75, 95}
  BY DEF Graded, SeverityBase
<1>2. ConfidenceFactor[f.confidence] \in {0, 60, 85, 100}
  BY DEF Graded, ConfidenceFactor
<1>3. Corroboration(f.engines) \in {100, 104, 108}
  BY DEF Corroboration
<1>4. ExposureFactor(f.category) \in {90, 92, 100, 103, 105, 106, 108, 110}
  BY DEF ExposureFactor
<1> QED
  BY <1>1, <1>2, <1>3, <1>4

(* Products of naturals are monotone in both factors.                      *)
LEMMA ProductMonotone ==
  ASSUME NEW a \in Nat, NEW b \in Nat, NEW c \in Nat, NEW d \in Nat, a <= c, b <= d
  PROVE  a * b \in Nat /\ a * b <= c * d
<1>1. a * b <= c * b
  OBVIOUS
<1>2. c * b <= c * d
  OBVIOUS
<1>3. a * b \in Nat /\ c * b \in Nat /\ c * d \in Nat
  OBVIOUS
<1> QED
  BY <1>1, <1>2, <1>3

(* The product of the factors of a finding, before it is rounded and cut.  *)
Weight(f) ==
  SeverityBase[f.severity] * ConfidenceFactor[f.confidence]
    * Corroboration(f.engines) * ExposureFactor(f.category)

(* A finding whose weight is not less does not score less.                 *)
LEMMA HeavierScoresMore ==
  ASSUME NEW f, NEW g, Weight(f) \in Nat, Weight(g) \in Nat, Weight(f) <= Weight(g)
  PROVE  RiskScore(f) <= RiskScore(g)
<1> DEFINE a == Weight(f)
           b == Weight(g)
<1>1. /\ RiskScore(f) = IF (a + 50000) \div 100000 > 1000 THEN 1000
                        ELSE (a + 50000) \div 100000
      /\ RiskScore(g) = IF (b + 50000) \div 100000 > 1000 THEN 1000
                        ELSE (b + 50000) \div 100000
  BY DEF RiskScore, Weight, MaxScore
<1> HIDE DEF a, b
<1>2. a \in Nat /\ b \in Nat /\ a <= b
  BY DEF a, b
<1>3. (a + 50000) \div 100000 <= (b + 50000) \div 100000
  BY <1>2
<1>4. (a + 50000) \div 100000 \in Int /\ (b + 50000) \div 100000 \in Int
  BY <1>2
<1> QED
  BY <1>1, <1>3, <1>4

(* Each factor that is not less makes a weight that is not less.           *)
LEMMA WeightMonotone ==
  ASSUME NEW f, NEW g, Graded(f), Graded(g), f.engines \in Nat, g.engines \in Nat,
         f.category = g.category,
         SeverityBase[f.severity] <= SeverityBase[g.severity],
         ConfidenceFactor[f.confidence] <= ConfidenceFactor[g.confidence],
         f.engines <= g.engines
  PROVE  Weight(f) \in Nat /\ Weight(g) \in Nat /\ Weight(f) <= Weight(g)
<1> DEFINE a1 == SeverityBase[f.severity]
           a2 == SeverityBase[g.severity]
           b1 == ConfidenceFactor[f.confidence]
           b2 == ConfidenceFactor[g.confidence]
           c1 == Corroboration(f.engines)
           c2 == Corroboration(g.engines)
           d  == ExposureFactor(f.category)
<1>1. /\ a1 \in Nat /\ a2 \in Nat /\ b1 \in Nat /\ b2 \in Nat
      /\ c1 \in Nat /\ c2 \in Nat /\ d \in Nat
  BY FactorBounds
<1>2. a1 <= a2 /\ b1 <= b2
  OBVIOUS
<1>3. c1 <= c2
  BY DEF Corroboration
<1>4. Weight(f) = a1 * b1 * c1 * d /\ Weight(g) = a2 * b2 * c2 * d
  BY Zenon DEF Weight
<1> HIDE DEF a1, a2, b1, b2, c1, c2, d
<1>5. a1 * b1 \in Nat /\ a2 * b2 \in Nat /\ a1 * b1 <= a2 * b2
  BY <1>1, <1>2, ProductMonotone
<1>6. a1 * b1 * c1 \in Nat /\ a2 * b2 * c2 \in Nat /\ a1 * b1 * c1 <= a2 * b2 * c2
  BY <1>1, <1>3, <1>5, ProductMonotone
<1>7. d <= d
  BY <1>1
<1>8. a1 * b1 * c1 * d \in Nat /\ a1 * b1 * c1 * d <= a2 * b2 * c2 * d
  BY <1>1, <1>6, <1>7, ProductMonotone
<1>9. a2 * b2 * c2 * d <= a2 * b2 * c2 * d /\ a2 * b2 * c2 * d \in Nat
  BY <1>1, <1>6
<1> QED
  BY <1>4, <1>8, <1>9

(* The scales of severities and confidences rise with their factors.       *)
LEMMA FactorsRise ==
  /\ \A s, t : AtMost(Severities, s, t) => SeverityBase[s] <= SeverityBase[t]
  /\ \A s, t : AtMost(Confidences, s, t) => ConfidenceFactor[s] <= ConfidenceFactor[t]
<1>1. ASSUME NEW s, NEW t, AtMost(Severities, s, t)
      PROVE  SeverityBase[s] <= SeverityBase[t]
  <2>1. PICK i \in 1..5, j \in 1..5 : Severities[i] = s /\ Severities[j] = t /\ i <= j
    BY <1>1 DEF AtMost, Severities
  <2>2. /\ Severities[1] = "info" /\ Severities[2] = "low" /\ Severities[3] = "medium"
        /\ Severities[4] = "high" /\ Severities[5] = "critical"
    BY DEF Severities
  <2>3. i \in {1, 2, 3, 4, 5} /\ j \in {1, 2, 3, 4, 5}
    OBVIOUS
  <2> QED
    BY <2>1, <2>2, <2>3 DEF SeverityBase
<1>2. ASSUME NEW s, NEW t, AtMost(Confidences, s, t)
      PROVE  ConfidenceFactor[s] <= ConfidenceFactor[t]
  <2>1. PICK i \in 1..4, j \in 1..4 : Confidences[i] = s /\ Confidences[j] = t /\ i <= j
    BY <1>2 DEF AtMost, Confidences
  <2>2. /\ Confidences[1] = "false_positive" /\ Confidences[2] = "tentative"
        /\ Confidences[3] = "firm" /\ Confidences[4] = "confirmed"
    BY DEF Confidences
  <2>3. i \in {1, 2, 3, 4} /\ j \in {1, 2, 3, 4}
    OBVIOUS
  <2> QED
    BY <2>1, <2>2, <2>3 DEF ConfidenceFactor
<1> QED
  BY <1>1, <1>2

(* What a finding is, and how sure it is, in the same hundredths.          *)
Impact(f)    == SeverityBase[f.severity] * ExposureFactor(f.category)
Certainty(f) == ConfidenceFactor[f.confidence] * Corroboration(f.engines)

(* The weight of a finding is the product of the two, and no finding is    *)
(* without impact.                                                         *)
LEMMA WeightOf ==
  ASSUME NEW f, Graded(f), f.engines \in Nat
  PROVE  /\ Weight(f) = Impact(f) * Certainty(f)
         /\ Impact(f) \in 450..10450
<1> DEFINE a == SeverityBase[f.severity]
           b == ConfidenceFactor[f.confidence]
           c == Corroboration(f.engines)
           d == ExposureFactor(f.category)
<1>1. a \in Nat /\ b \in Nat /\ c \in Nat /\ d \in Nat /\ a \in 5..95 /\ d \in 90..110
  BY FactorBounds
<1>2. Weight(f) = a * b * c * d /\ Impact(f) = a * d /\ Certainty(f) = b * c
  BY Zenon DEF Weight, Impact, Certainty
<1> HIDE DEF a, b, c, d
<1>3. a * b * c * d = (a * d) * (b * c)
  BY <1>1
<1>4. 5 * d <= a * d /\ a * d <= 95 * d /\ a * d \in Nat
  BY <1>1, ProductMonotone
<1>5. a * d \in 450..10450
  BY <1>1, <1>4
<1>6. Weight(f) = (a * d) * (b * c)
  BY <1>2, <1>3
<1>7. Weight(f) = Impact(f) * Certainty(f)
  BY <1>2, <1>6
<1> QED
  BY <1>2, <1>5, <1>7

(* What a score is, in terms of a weight.                                  *)
LEMMA ScoreOf ==
  ASSUME NEW f, Weight(f) \in Nat
  PROVE  RiskScore(f) = IF (Weight(f) + 50000) \div 100000 > 1000 THEN 1000
                        ELSE (Weight(f) + 50000) \div 100000
BY DEF RiskScore, Weight, MaxScore

(* Exactly the findings that every engine took back score nothing.         *)
LEMMA DisputedScoresNothing ==
  ASSUME NEW f, Graded(f), f.engines \in Nat
  PROVE  VerdictFor(f) = "disputed" <=> RiskScore(f) = 0
<1> DEFINE k == Impact(f)
           m == Certainty(f)
           w == Weight(f)
<1>1. w = k * m /\ k \in 450..10450
  BY WeightOf
<1>2. CASE f.confidence = "false_positive"
  <2>1. m = 0
    BY <1>2, FactorBounds DEF ConfidenceFactor, Certainty
  <2>2. w = 0
    <3> HIDE DEF k, m, w
    <3> QED
      BY <1>1, <2>1
  <2>3. RiskScore(f) = 0
    BY <2>2, ScoreOf
  <2> QED
    BY <1>2, <2>3 DEF VerdictFor
<1>3. CASE f.confidence # "false_positive"
  <2>1. ConfidenceFactor[f.confidence] \in {60, 85, 100}
    BY <1>3 DEF Graded, ConfidenceFactor
  <2>2. m \in Nat /\ m >= 6000
    BY <2>1, FactorBounds DEF Certainty
  <2>3. w \in Nat /\ w >= 2700000
    <3> HIDE DEF k, m, w
    <3>1. 450 * m <= k * m /\ k * m \in Nat
      BY <1>1, <2>2, ProductMonotone
    <3>2. 450 * m >= 2700000
      BY <2>2, SMT
    <3>3. k * m >= 2700000
      BY <2>2, <3>1, <3>2, SMT
    <3> QED
      BY <1>1, <3>1, <3>3, SMT
  <2>4. RiskScore(f) # 0
    BY <2>3, ScoreOf, SMT
  <2>5. VerdictFor(f) # "disputed"
    BY <1>3 DEF VerdictFor
  <2> QED
    BY <2>4, <2>5
<1> QED
  BY <1>2, <1>3

(* A corroborated or confirmed finding outscores one alike that is merely  *)
(* reported: rounding does not close the gap, and the cap is above it.     *)
LEMMA CorroborationShows ==
  ASSUME NEW f, NEW g, Graded(f), Graded(g), f.engines \in Nat, g.engines \in Nat,
         f.category = g.category, f.severity = g.severity,
         VerdictFor(f) = "reported", VerdictFor(g) \in {"corroborated", "confirmed"}
  PROVE  RiskScore(f) < RiskScore(g)
<1> DEFINE k == Impact(f)
           m == Certainty(f)
           n == Certainty(g)
           w == Weight(f)
           v == Weight(g)
<1>1. w = k * m /\ v = k * n /\ k \in 450..10450
  <2>1. Impact(f) = Impact(g)
    BY DEF Impact
  <2> QED
    BY <2>1, WeightOf
<1>2. f.confidence = "tentative" /\ f.engines < 2
  BY DEF VerdictFor, Graded, ConfidenceFactor
<1>3. m = 6000
  BY <1>2 DEF ConfidenceFactor, Corroboration, Certainty
<1>4. \/ g.confidence \in {"confirmed", "firm"}
      \/ g.confidence = "tentative" /\ g.engines >= 2
  BY DEF VerdictFor, Graded, ConfidenceFactor
<1>5. n \in Nat /\ n >= 6240
  BY <1>4 DEF ConfidenceFactor, Corroboration, Certainty
<1>6. w \in Nat /\ v \in Nat /\ w + 100000 <= v /\ w <= 62700000
  <2> HIDE DEF k, m, n, w, v
  <2>1. k * 6240 <= k * n /\ k * n \in Nat
    BY <1>1, <1>5, ProductMonotone
  <2> QED
    BY <1>1, <1>3, <2>1, SMT
<1> QED
  BY <1>6, ScoreOf, SMT

(* The highest severity of a group is one of the scale, and that of a      *)
(* larger group weighs no less.                                            *)
LEMMA HighestRises ==
  ASSUME NEW S, NEW T, S # {}, S \subseteq T, T \subseteq DOMAIN SeverityBase
  PROVE  /\ Highest(Severities, S) \in DOMAIN SeverityBase
         /\ Highest(Severities, T) \in DOMAIN SeverityBase
         /\ SeverityBase[Highest(Severities, S)] <= SeverityBase[Highest(Severities, T)]
<1> DEFINE Taken(A) == {i \in 1..5 : Severities[i] \in A}
<1>1. /\ Severities[1] = "info" /\ Severities[2] = "low" /\ Severities[3] = "medium"
      /\ Severities[4] = "high" /\ Severities[5] = "critical"
      /\ Len(Severities) = 5 /\ DOMAIN Severities = 1..5
  BY DEF Severities
<1>2. DOMAIN SeverityBase = {"info", "low", "medium", "high", "critical"}
  BY DEF SeverityBase
<1>3. ASSUME NEW A, A # {}, A \subseteq DOMAIN SeverityBase
      PROVE  \E i \in Taken(A) : /\ \A j \in Taken(A) : j <= i
                                 /\ Highest(Severities, A) = Severities[i]
  <2>1. \E i \in Taken(A) : \A j \in Taken(A) : i >= j
    <3>1. PICK a \in A : TRUE
      BY <1>3
    <3>2. \E i \in {1, 2, 3, 4, 5} : Severities[i] = a
      BY <1>1, <1>2, <1>3
    <3>3. \E i \in {1, 2, 3, 4, 5} : i \in Taken(A)
      BY <3>1, <3>2
    <3>4. \A i \in Taken(A) : i \in {1, 2, 3, 4, 5}
      OBVIOUS
    <3> HIDE DEF Taken
    <3>5. CASE 5 \in Taken(A)
      BY <3>4, <3>5
    <3>6. CASE 5 \notin Taken(A) /\ 4 \in Taken(A)
      BY <3>4, <3>6
    <3>7. CASE 5 \notin Taken(A) /\ 4 \notin Taken(A) /\ 3 \in Taken(A)
      BY <3>4, <3>7
    <3>8. CASE 5 \notin Taken(A) /\ 4 \notin Taken(A) /\ 3 \notin Taken(A)
      BY <3>3, <3>4, <3>8
    <3> QED
      BY <3>5, <3>6, <3>7, <3>8
  <2>2. Max(Taken(A)) \in Taken(A) /\ \A j \in Taken(A) : Max(Taken(A)) >= j
    BY <2>1 DEF Max
  <2>3. SelectLastInSeq(Severities, LAMBDA x : x \in A) = Max(Taken(A))
    BY <1>1, <2>1 DEF SelectLastInSeq
  <2>4. Highest(Severities, A) = Severities[Max(Taken(A))]
    BY <2>3 DEF Highest
  <2> QED
    BY <2>2, <2>4
<1> HIDE DEF Taken
<1>4. T # {} /\ S \subseteq DOMAIN SeverityBase
  OBVIOUS
<1>5. PICK i \in Taken(S) : Highest(Severities, S) = Severities[i]
  BY <1>3, <1>4
<1>6. PICK k \in Taken(T) : /\ \A j \in Taken(T) : j <= k
                             /\ Highest(Severities, T) = Severities[k]
  BY <1>3, <1>4
<1>7. i \in Taken(T)
  BY DEF Taken
<1>8. i \in 1..5 /\ k \in 1..5 /\ i <= k /\ Severities[i] \in S /\ Severities[k] \in T
  BY <1>6, <1>7 DEF Taken
<1>9. AtMost(Severities, Severities[i], Severities[k])
  BY <1>1, <1>8 DEF AtMost
<1>10. SeverityBase[Severities[i]] <= SeverityBase[Severities[k]]
  BY <1>9, FactorsRise
<1> QED
  BY <1>4, <1>5, <1>6, <1>8, <1>10

(* One more observation neither takes an engine from a group nor certainty.*)
LEMMA MoreEngines ==
  ASSUME NEW group, NEW more, IsFiniteSet(group)
  PROVE  LET engines(g) == Cardinality({o.engine : o \in g})
         IN  /\ engines(group) \in Nat
             /\ engines(group \cup {more}) \in Nat
             /\ engines(group) <= engines(group \cup {more})
<1> DEFINE all    == group \cup {more}
           few    == {o.engine : o \in group}
           many   == {o.engine : o \in all}
           engine == [o \in all |-> o.engine]
<1>1. IsFiniteSet(all)
  BY FS_AddElement
<1>2. engine \in Surjection(all, many)
  BY DEF Surjection
<1>3. IsFiniteSet(many)
  BY <1>1, <1>2, FS_Surjection
<1>4. few \subseteq many
  OBVIOUS
<1> HIDE DEF few, many, all, engine
<1>5. /\ Cardinality(few) \in Nat /\ Cardinality(many) \in Nat
      /\ Cardinality(few) <= Cardinality(many)
  BY <1>3, <1>4, FS_Subset, FS_CardinalityType
<1> QED
  BY <1>5 DEF few, many, all

(* A larger group of observations by no fewer engines is no less certain.  *)
LEMMA GroupConfidenceRises ==
  ASSUME NEW C, NEW D, NEW m \in Nat, NEW n \in Nat, C # {}, C \subseteq D, m <= n
  PROVE  /\ GroupConfidence(C, m) \in DOMAIN ConfidenceFactor
         /\ GroupConfidence(D, n) \in DOMAIN ConfidenceFactor
         /\ ConfidenceFactor[GroupConfidence(C, m)] <= ConfidenceFactor[GroupConfidence(D, n)]
<1>1. CASE D = {"false_positive"}
  <2>1. C = {"false_positive"}
    BY <1>1
  <2> QED
    BY <1>1, <2>1 DEF GroupConfidence, ConfidenceFactor
<1>2. CASE C = {"false_positive"} /\ D # {"false_positive"}
  BY <1>2 DEF GroupConfidence, ConfidenceFactor
<1>3. CASE C # {"false_positive"} /\ D # {"false_positive"}
  BY <1>3 DEF GroupConfidence, ConfidenceFactor
<1> QED
  BY <1>1, <1>2, <1>3

(* What is correlated of a group with one more observation weighs no less. *)
LEMMA MergeRises ==
  ASSUME NEW category, NEW group, NEW more, IsFiniteSet(group), group # {},
         \A o \in group \cup {more} : Graded(o)
  PROVE  RiskScore(Merge(category, group)) <= RiskScore(Merge(category, group \cup {more}))
<1> DEFINE all == group \cup {more}
           S(g) == {o.severity : o \in g}
           C(g) == {o.confidence : o \in g}
           n(g) == Cardinality({o.engine : o \in g})
           f == Merge(category, group)
           h == Merge(category, all)
<1>1. /\ f = [category |-> category, severity |-> Highest(Severities, S(group)),
               engines |-> n(group), confidence |-> GroupConfidence(C(group), n(group))]
      /\ h = [category |-> category, severity |-> Highest(Severities, S(all)),
               engines |-> n(all), confidence |-> GroupConfidence(C(all), n(all))]
  BY Zenon DEF Merge
<1>2. /\ S(group) # {} /\ S(group) \subseteq S(all) /\ S(all) \subseteq DOMAIN SeverityBase
      /\ C(group) # {} /\ C(group) \subseteq C(all)
  BY DEF Graded
<1>3. n(group) \in Nat /\ n(all) \in Nat /\ n(group) <= n(all)
  BY MoreEngines
<1> HIDE DEF S, C, n, all, f, h
<1>4. /\ f.category = category /\ h.category = category
      /\ f.severity = Highest(Severities, S(group)) /\ h.severity = Highest(Severities, S(all))
      /\ f.engines = n(group) /\ h.engines = n(all)
      /\ f.confidence = GroupConfidence(C(group), n(group))
      /\ h.confidence = GroupConfidence(C(all), n(all))
  BY <1>1
<1>5. /\ f.severity \in DOMAIN SeverityBase /\ h.severity \in DOMAIN SeverityBase
      /\ SeverityBase[f.severity] <= SeverityBase[h.severity]
  BY <1>2, <1>4, HighestRises
<1>6. /\ f.confidence \in DOMAIN ConfidenceFactor /\ h.confidence \in DOMAIN ConfidenceFactor
      /\ ConfidenceFactor[f.confidence] <= ConfidenceFactor[h.confidence]
  BY <1>2, <1>3, <1>4, GroupConfidenceRises
<1>7. Graded(f) /\ Graded(h)
  BY <1>5, <1>6 DEF Graded
<1>8. Weight(f) \in Nat /\ Weight(h) \in Nat /\ Weight(f) <= Weight(h)
  BY <1>3, <1>4, <1>5, <1>6, <1>7, WeightMonotone
<1>9. RiskScore(f) <= RiskScore(h)
  BY <1>8, HeavierScoresMore
<1> QED
  BY <1>9 DEF f, h, all

(* The ranking (findings/risk.py, findings/correlation.py) is coherent for *)
(* all findings: no attribute that grows lowers a score, a disputed proof  *)
(* is one of a finding that scores nothing, corroboration shows in the     *)
(* score, and no further report of a weakness lowers it.                   *)
THEOREM RankingIsCoherentHolds == Spec => []RankingIsCoherent
<1>1. AnswerInv => RiskIsMonotone /\ VerdictsFollowTheScore
  <2> DEFINE f == call.pair[1]
             g == call.pair[2]
  <2> SUFFICES ASSUME AnswerInv, Answers("rank")
               PROVE  RiskIsMonotone /\ VerdictsFollowTheScore
    BY DEF RiskIsMonotone, VerdictsFollowTheScore
  <2>1. call.pair \in Findings
    BY DEF AnswerInv, Answers, Calls
  <2>2. /\ DOMAIN call.pair = {1, 2}
        /\ Graded(f) /\ f.engines \in Nat
        /\ Graded(g) /\ g.engines \in Nat
    BY <2>1, FindingsAssumption
  <2>3. answer = [i \in DOMAIN call.pair |-> [score   |-> RiskScore(call.pair[i]),
                                             verdict |-> VerdictFor(call.pair[i])]]
    BY Zenon DEF AnswerInv
  <2>4. /\ answer[1] = [score |-> RiskScore(f), verdict |-> VerdictFor(f)]
        /\ answer[2] = [score |-> RiskScore(g), verdict |-> VerdictFor(g)]
    BY <2>2, <2>3
  <2> HIDE DEF f, g
  <2>5. /\ answer[1].score = RiskScore(f) /\ answer[1].verdict = VerdictFor(f)
        /\ answer[2].score = RiskScore(g) /\ answer[2].verdict = VerdictFor(g)
    BY <2>4
  <2>6. RiskIsMonotone
    <3> SUFFICES ASSUME f.category = g.category, AtMost(Severities, f.severity, g.severity),
                        AtMost(Confidences, f.confidence, g.confidence), f.engines <= g.engines
                 PROVE  RiskScore(f) <= RiskScore(g)
      BY <2>5 DEF RiskIsMonotone, f, g
    <3> QED
      BY <2>2, FactorsRise, WeightMonotone, HeavierScoresMore
  <2>7. VerdictsFollowTheScore
    <3>1. /\ VerdictFor(f) = "disputed" <=> RiskScore(f) = 0
          /\ VerdictFor(g) = "disputed" <=> RiskScore(g) = 0
      BY <2>2, DisputedScoresNothing
    <3>2. ASSUME f.category = g.category, f.severity = g.severity, VerdictFor(f) = "reported",
                 VerdictFor(g) \in {"corroborated", "confirmed"}
          PROVE  RiskScore(f) < RiskScore(g)
      BY <2>2, <3>2, CorroborationShows
    <3> QED
      BY <2>5, <3>1, <3>2 DEF VerdictsFollowTheScore, f, g
  <2> QED
    BY <2>6, <2>7
<1>2. AnswerInv => MoreReportsNeverLess
  <2> SUFFICES ASSUME AnswerInv, Answers("correlate")
               PROVE  RiskScore(answer.without) <= RiskScore(answer.with)
    BY DEF MoreReportsNeverLess
  <2>1. call.of \in Correlations
    BY DEF AnswerInv, Answers, Calls
  <2>2. answer = [without |-> Merge(call.of.category, call.of.group),
                  with    |-> Merge(call.of.category, call.of.group \cup {call.of.more})]
    BY Zenon DEF AnswerInv
  <2>3. /\ answer.without = Merge(call.of.category, call.of.group)
        /\ answer.with = Merge(call.of.category, call.of.group \cup {call.of.more})
    BY <2>2, Zenon
  <2> QED
    BY <2>1, <2>3, CorrelationsAssumption, MergeRises
<1> QED
  BY <1>1, <1>2, AnswerInvHolds, PTL DEF RankingIsCoherent

-----------------------------------------------------------------------------
(* Every non-empty set of naturals has a least element.                    *)
LEMMA LeastNatural ==
  ASSUME NEW T, T \subseteq Nat, T # {}
  PROVE  \E m \in T : \A n \in T : m <= n
<1> DEFINE less == {p \in Nat \X Nat : p[1] < p[2]}
<1>1. IsWellFoundedOn(less, Nat)
  BY NatLessThanWellFounded DEF OpToRel
<1>2. PICK m \in T : \A n \in T : <<n, m>> \notin less
  BY <1>1, WFMin
<1>3. \A n \in T : ~(n < m)
  BY <1>2
<1> QED
  BY <1>3

(* Every non-empty set of naturals with a bound has a greatest one.        *)
LEMMA GreatestNatural ==
  ASSUME NEW b \in Nat, NEW T, T \subseteq 0..b, T # {}
  PROVE  \E m \in T : \A n \in T : n <= m
<1> DEFINE mirrored == {b - n : n \in T}
<1>1. mirrored \subseteq Nat /\ mirrored # {}
  <2>1. \A n \in T : n \in 0..b
    OBVIOUS
  <2>2. \A n \in T : b - n \in Nat
    BY <2>1
  <2>3. PICK n \in T : TRUE
    OBVIOUS
  <2>4. b - n \in mirrored
    OBVIOUS
  <2> QED
    BY <2>2, <2>4
<1>2. PICK k \in mirrored : \A n \in mirrored : k <= n
  BY <1>1, LeastNatural
<1>3. PICK m \in T : k = b - m
  OBVIOUS
<1>4. \A n \in T : b - n \in mirrored
  OBVIOUS
<1> HIDE DEF mirrored
<1>5. \A n \in T : b - m <= b - n
  BY <1>2, <1>3, <1>4
<1> QED
  BY <1>5

(* The directory of a path ends with the last slash of the path.           *)
LEMMA DirectoryEndsInSlash ==
  ASSUME NEW C, NEW path \in Seq(C), path # <<>>, path[1] = "/"
  PROVE  \E k \in 1..Len(path) : path[k] = "/" /\ Directory(path) = SubSeq(path, 1, k)
<1> DEFINE slashes == {i \in DOMAIN path : path[i] = "/"}
           IsLast(i) == path[i] = "/" /\ \A j \in DOMAIN path : path[j] = "/" => j <= i
           k == CHOOSE i \in DOMAIN path : IsLast(i)
<1>1. DOMAIN path = 1..Len(path) /\ Len(path) \in Nat /\ 1 \in DOMAIN path
  OBVIOUS
<1>2. slashes \subseteq 0..Len(path) /\ slashes # {}
  BY <1>1
<1>3. PICK m \in slashes : \A n \in slashes : n <= m
  BY <1>1, <1>2, GreatestNatural
<1>4. m \in DOMAIN path /\ IsLast(m)
  BY <1>3
<1>5. k \in DOMAIN path /\ IsLast(k)
  BY <1>4
<1>6. Directory(path) = SubSeq(path, 1, k)
  BY DEF Directory
<1> HIDE DEF k
<1> QED
  BY <1>1, <1>5, <1>6

(* A path is below a directory when it has the directory as a prefix that  *)
(* ends with a slash.                                                      *)
LEMMA PrefixIsDirectory ==
  ASSUME NEW B, NEW base \in Seq(B), NEW k \in 1..Len(base), base[k] = "/",
         NEW C, NEW path \in Seq(C)
  PROVE  LET dir == SubSeq(base, 1, k)
         IN  IsPrefix(dir, path)
               <=> \E n \in DOMAIN path : path[n] = "/" /\ SubSeq(path, 1, n) = dir
<1> DEFINE dir == SubSeq(base, 1, k)
           upTo(n) == SubSeq(path, 1, n)
<1>1. dir \in Seq(B) /\ Len(dir) = k /\ dir[k] = "/" /\ k \in Nat
  OBVIOUS
<1>2. SubSeq(dir, 1, k) = dir
  BY <1>1
<1>3. \A n \in 1..Len(path) : upTo(n) \in Seq(C) /\ Len(upTo(n)) = n /\ upTo(n)[n] = path[n]
  OBVIOUS
<1>4. IsPrefix(dir, path) <=> k <= Len(path) /\ dir = upTo(k)
  BY <1>1, <1>2 DEF IsPrefix
<1>5. DOMAIN path = 1..Len(path) /\ Len(path) \in Nat
  OBVIOUS
<1> HIDE DEF dir, upTo
<1>6. ASSUME k <= Len(path), dir = upTo(k)
      PROVE  k \in DOMAIN path /\ path[k] = "/" /\ upTo(k) = dir
  BY <1>1, <1>3, <1>5, <1>6
<1>7. ASSUME NEW n \in DOMAIN path, path[n] = "/", upTo(n) = dir
      PROVE  k <= Len(path) /\ dir = upTo(k)
  BY <1>1, <1>3, <1>5, <1>7
<1>8. IsPrefix(dir, path) <=> \E n \in DOMAIN path : path[n] = "/" /\ upTo(n) = dir
  BY <1>4, <1>6, <1>7
<1> QED
  BY <1>8 DEF dir, upTo

(* A base URL covers what has its scheme, host and port and is in its      *)
(* directory or below.                                                     *)
Covers(base, url) ==
  /\ base.scheme = url.scheme
  /\ base.host = url.host
  /\ PyPort(base) = PyPort(url)
  /\ \E n \in DOMAIN PathOf(url) :
       /\ PathOf(url)[n] = "/"
       /\ SubSeq(PathOf(url), 1, n) = Directory(PathOf(base))

(* The rule that is derived of a base URL matches what the URL covers.     *)
LEMMA DefaultRuleMatches ==
  ASSUME NEW base, NEW url, IsPath(base.path), IsPath(url.path)
  PROVE  PyRuleMatches(DefaultRule(base), url, "") <=> Covers(base, url)
<1> DEFINE rule == DefaultRule(base)
           below == \E n \in DOMAIN PathOf(url) :
                      /\ PathOf(url)[n] = "/"
                      /\ SubSeq(PathOf(url), 1, n) = Directory(PathOf(base))
<1>1. ASSUME NEW u, IsPath(u.path)
      PROVE  \E C : PathOf(u) \in Seq(C) /\ PathOf(u) # <<>> /\ PathOf(u)[1] = "/"
  <2>1. CASE u.path = <<>>
    <3>1. PathOf(u) = <<"/">>
      BY <2>1 DEF PathOf, Slash
    <3>2. PathOf(u) \in Seq({"/"})
      BY <3>1
    <3>3. PathOf(u) # <<>> /\ PathOf(u)[1] = "/"
      BY <3>1
    <3> QED
      BY <3>2, <3>3
  <2>2. CASE u.path # <<>>
    BY <1>1, <2>2 DEF PathOf, IsPath
  <2> QED
    BY <2>1, <2>2
<1>2. PICK B : PathOf(base) \in Seq(B) /\ PathOf(base) # <<>> /\ PathOf(base)[1] = "/"
  BY <1>1
<1>3. PICK C : PathOf(url) \in Seq(C)
  BY <1>1
<1>4. PICK k \in 1..Len(PathOf(base)) :
        /\ PathOf(base)[k] = "/"
        /\ Directory(PathOf(base)) = SubSeq(PathOf(base), 1, k)
  BY <1>2, DirectoryEndsInSlash
<1>5. IsPrefix(Directory(PathOf(base)), PathOf(url)) <=> below
  BY <1>2, <1>3, <1>4, PrefixIsDirectory
<1>6. /\ rule.schemes = {base.scheme}
      /\ rule.pattern.form = "host" /\ rule.pattern.host = base.host
      /\ rule.ports = IF base.port \in {NoPort, 0} THEN {} ELSE {base.port}
      /\ rule.prefix = Directory(PathOf(base))
      /\ rule.regex = {} /\ rule.methods = {}
  BY DEF DefaultRule
<1> HIDE DEF rule, below
<1>7. HostMatches(rule.pattern, url.host) <=> base.host = url.host
  BY <1>6 DEF HostMatches
<1>8. url.scheme \in rule.schemes <=> base.scheme = url.scheme
  BY <1>6
<1>9. ASSUME base.scheme = url.scheme
      PROVE  (IF rule.ports = {} THEN PyPort(url) = DefaultPort(url.scheme)
              ELSE PyPort(url) \in rule.ports)
                <=> PyPort(base) = PyPort(url)
  BY <1>6, <1>9 DEF PyPort
<1>10. PyRuleMatches(rule, url, "") <=>
         base.scheme = url.scheme /\ base.host = url.host /\ PyPort(base) = PyPort(url) /\ below
  BY <1>5, <1>6, <1>7, <1>8, <1>9 DEF PyRuleMatches, RequestMatches
<1> QED
  BY <1>10, Zenon DEF rule, below, Covers

(* The rules that a target gets when it has none (scope/engine.py:         *)
(* default_scope_rules_for) admit what is in the directory of one of its   *)
(* base URLs, on the host and port of that, and nothing else.              *)
THEOREM DefaultScopeIsExactHolds == Spec => []DefaultScopeIsExact
<1>1. AnswerInv => DefaultScopeIsExact
  <2> DEFINE bases == call.bases
  <2> SUFFICES ASSUME AnswerInv, Answers("default"), NEW url \in Urls
               PROVE  PyAllows(answer, TRUE, url, "")
                        <=> \E i \in DOMAIN bases : Covers(bases[i], url)
    BY DEF DefaultScopeIsExact, Covers
  <2>1. answer = [i \in DOMAIN bases |-> DefaultRule(bases[i])]
    BY DEF AnswerInv, DefaultRules
  <2>2. /\ bases \in BaseLists
        /\ IsPath(url.path)
        /\ \A i \in DOMAIN bases : /\ bases[i].scheme \in {"http", "https"}
                                   /\ IsPath(bases[i].path)
    BY UrlsAssumption DEF AnswerInv, Answers, Calls
  <2> HIDE DEF bases
  <2>3. DOMAIN answer = DOMAIN bases /\ \A i \in DOMAIN bases : answer[i] = DefaultRule(bases[i])
    BY <2>1
  <2>4. \A i \in DOMAIN bases : PyRuleMatches(answer[i], url, "") <=> Covers(bases[i], url)
    <3> TAKE i \in DOMAIN bases
    <3>1. IsPath(bases[i].path) /\ answer[i] = DefaultRule(bases[i])
      BY <2>2, <2>3
    <3>2. PyRuleMatches(DefaultRule(bases[i]), url, "") <=> Covers(bases[i], url)
      BY <2>2, <3>1, DefaultRuleMatches
    <3> QED
      BY <3>1, <3>2, Zenon
  <2>5. \A i \in DOMAIN bases :
          /\ answer[i].kind = "include"
          /\ answer[i].pattern.form = "host" /\ answer[i].pattern.host = bases[i].host
    BY <2>3 DEF DefaultRule
  <2>6. \A i \in DOMAIN bases : PyPort(bases[i]) # 0
    BY <2>2 DEF PyPort, DefaultPort
  <2>7. ASSUME NEW i \in DOMAIN bases, Covers(bases[i], url)
        PROVE  /\ PyPort(url) # 0
               /\ url.host \in PyPrivate => OptsIn(answer[i], PyPrivate)
    BY <2>5, <2>6, <2>7 DEF OptsIn, Covers
  <2>8. PyAllows(answer, TRUE, url, "") <=>
          /\ PyPort(url) # 0
          /\ url.host \in PyPrivate => \E i \in DOMAIN bases : OptsIn(answer[i], PyPrivate)
          /\ \E i \in DOMAIN bases : PyRuleMatches(answer[i], url, "")
    BY <2>3, <2>5 DEF PyAllows, Decide
  <2> QED
    BY <2>4, <2>7, <2>8
<1> QED
  BY <1>1, AnswerInvHolds, PTL

-----------------------------------------------------------------------------
(* The elements of D that R puts before x, and whose place is the n-th.    *)
Before(R, D, x) == {y \in D : <<y, x>> \in R}
AtPlace(R, D, n) == CHOOSE x \in D : Cardinality(Before(R, D, x)) = n - 1

(* R orders the elements of D, one before the other.                       *)
Orders(R, D) ==
  /\ \A x \in D : <<x, x>> \notin R
  /\ \A x, y, z \in D : <<x, y>> \in R /\ <<y, z>> \in R => <<x, z>> \in R
  /\ \A x, y \in D : x = y \/ <<x, y>> \in R \/ <<y, x>> \in R

(* To count what comes before each element is to sort: every element has a *)
(* place of its own, every place an element, and the places follow the     *)
(* order.                                                                  *)
LEMMA CountingSorts ==
  ASSUME NEW D, IsFiniteSet(D), NEW R, Orders(R, D)
  PROVE  LET places == 1..Cardinality(D)
         IN  /\ \A n \in places : AtPlace(R, D, n) \in D
             /\ \A x \in D : \E n \in places : AtPlace(R, D, n) = x
             /\ \A m, n \in places : m < n => <<AtPlace(R, D, m), AtPlace(R, D, n)>> \in R
<1> DEFINE N == Cardinality(D)
           ahead(x) == Cardinality(Before(R, D, x))
           place == [x \in D |-> ahead(x) + 1]
<1>1. N \in Nat
  BY FS_CardinalityType
<1>2. ASSUME NEW x \in D
      PROVE  IsFiniteSet(Before(R, D, x)) /\ ahead(x) \in Nat /\ ahead(x) < N
  <2>1. Before(R, D, x) \in SUBSET D /\ x \notin Before(R, D, x)
    BY DEF Before, Orders
  <2>2. Before(R, D, x) # D
    BY <2>1
  <2>3. /\ IsFiniteSet(Before(R, D, x))
        /\ ahead(x) <= N /\ (N = ahead(x) => D = Before(R, D, x))
    BY <2>1, FS_Subset
  <2>4. ahead(x) \in Nat
    BY <2>3, FS_CardinalityType
  <2> QED
    BY <1>1, <2>2, <2>3, <2>4
<1>3. ASSUME NEW x \in D, NEW y \in D, <<x, y>> \in R
      PROVE  ahead(x) < ahead(y)
  <2>1. Before(R, D, x) \in SUBSET Before(R, D, y)
    BY <1>3 DEF Before, Orders
  <2>2. x \in Before(R, D, y) /\ x \notin Before(R, D, x)
    BY <1>3 DEF Before, Orders
  <2>3. ahead(x) <= ahead(y) /\ (ahead(y) = ahead(x) => Before(R, D, y) = Before(R, D, x))
    BY <1>2, <2>1, FS_Subset
  <2>4. ahead(x) # ahead(y)
    BY <2>2, <2>3
  <2>5. ahead(x) \in Nat /\ ahead(y) \in Nat
    BY <1>2
  <2> QED
    BY <2>3, <2>4, <2>5
<1> HIDE DEF ahead, N
<1>4. ASSUME NEW x \in D, NEW y \in D, x # y
      PROVE  ahead(x) # ahead(y)
  <2>1. <<x, y>> \in R \/ <<y, x>> \in R
    BY <1>4 DEF Orders
  <2> QED
    BY <1>2, <1>3, <2>1
<1>5. place \in [D -> 1..N]
  BY <1>1, <1>2
<1>6. place \in Injection(D, 1..N)
  <2>1. \A x, y \in D : place[x] = place[y] => x = y
    <3> TAKE x \in D, y \in D
    <3>1. ahead(x) \in Nat /\ ahead(y) \in Nat
      BY <1>2
    <3> QED
      BY <1>4, <3>1
  <2> QED
    BY <1>5, <2>1 DEF Injection, IsInjective
<1>7. IsFiniteSet(1..N) /\ Cardinality(1..N) = N
  BY <1>1, FS_Interval
<1>8. place \in Surjection(D, 1..N)
  BY <1>6, <1>7, FS_Injection DEF N
<1>9. \A n \in 1..N : \E x \in D : ahead(x) = n - 1
  <2> TAKE n \in 1..N
  <2>1. PICK x \in D : place[x] = n
    BY <1>8 DEF Surjection
  <2>2. ahead(x) + 1 = n /\ ahead(x) \in Nat
    BY <1>2, <2>1
  <2>3. ahead(x) = n - 1
    BY <2>2
  <2> QED
    BY <2>3
<1>10. \A n \in 1..N : AtPlace(R, D, n) \in D /\ ahead(AtPlace(R, D, n)) = n - 1
  BY <1>9 DEF AtPlace, ahead
<1>11. \A x \in D : \E n \in 1..N : AtPlace(R, D, n) = x
  <2> TAKE x \in D
  <2>1. ahead(x) + 1 \in 1..N /\ (ahead(x) + 1) - 1 = ahead(x)
    BY <1>1, <1>2
  <2>2. AtPlace(R, D, ahead(x) + 1) = x
    BY <1>4, <1>10, <2>1
  <2> QED
    BY <2>1, <2>2
<1>12. ASSUME NEW m \in 1..N, NEW n \in 1..N, m < n
       PROVE  <<AtPlace(R, D, m), AtPlace(R, D, n)>> \in R
  <2> DEFINE x == AtPlace(R, D, m)
             y == AtPlace(R, D, n)
  <2>1. x \in D /\ y \in D /\ ahead(x) = m - 1 /\ ahead(y) = n - 1
    BY <1>10
  <2>2. ahead(x) < ahead(y)
    BY <1>1, <1>12, <2>1
  <2> HIDE DEF x, y
  <2>3. x # y /\ <<y, x>> \notin R
    BY <1>2, <1>3, <2>1, <2>2
  <2> QED
    BY <2>1, <2>3 DEF Orders, x, y
<1> QED
  BY <1>10, <1>11, <1>12 DEF N

(* An order of findings is a reordering of them by priority.               *)
Sorts(order, findings, ai) ==
  /\ DOMAIN order = DOMAIN findings /\ Len(order) = Len(findings)
  /\ \A n \in DOMAIN order : \E i \in DOMAIN findings : order[n] = findings[i]
  /\ \A i \in DOMAIN findings : \E n \in DOMAIN order : order[n] = findings[i]
  /\ \A m, n \in DOMAIN order : m < n =>
       /\ ~ComesFirst(ai, order[n], order[m])
       /\ \E i, j \in DOMAIN findings :
            i # j /\ order[m] = findings[i] /\ order[n] = findings[j]

(* The findings are presented once each, and none before one that comes    *)
(* first.                                                                  *)
LEMMA PriorityOrderSorts ==
  ASSUME NEW F, NEW findings \in Seq(F), NEW ai, ai.enabled = TRUE,
         \A i \in DOMAIN findings : /\ findings[i].risk \in Int
                                   /\ PriorityOf(ai, findings[i]) \in Int
  PROVE  Sorts(PrioritizedOrder(findings, ai), findings, ai)
<1> DEFINE D == DOMAIN findings
           First(i, j) == \/ ComesFirst(ai, findings[i], findings[j])
                          \/ ~ComesFirst(ai, findings[j], findings[i]) /\ i < j
           R == {p \in D \X D : First(p[1], p[2])}
           at(n) == AtPlace(R, D, n)
           order == PrioritizedOrder(findings, ai)
<1>1. D = 1..Len(findings) /\ Len(findings) \in Nat
  OBVIOUS
<1>2. \A i, j \in D : <<i, j>> \in R <=> First(i, j)
  OBVIOUS
<1>3. Orders(R, D)
  <2> DEFINE p(i) == PriorityOf(ai, findings[i])
             r(i) == findings[i].risk
  <2>1. \A i \in D : p(i) \in Int /\ r(i) \in Int /\ i \in Int
    BY <1>1
  <2>2. \A i, j \in D : First(i, j) <=> \/ p(i) < p(j)
                                        \/ p(i) = p(j) /\ r(i) > r(j)
                                        \/ p(i) = p(j) /\ r(i) = r(j) /\ i < j
    BY <2>1 DEF ComesFirst
  <2> HIDE DEF R, First, p, r, D
  <2>3. \A i \in D : <<i, i>> \notin R
    BY <1>2, <2>1, <2>2
  <2>4. ASSUME NEW i \in D, NEW j \in D, NEW k \in D, First(i, j), First(j, k)
        PROVE  First(i, k)
    BY <2>1, <2>2, <2>4
  <2>5. ASSUME NEW i \in D, NEW j \in D PROVE i = j \/ First(i, j) \/ First(j, i)
    BY <2>1, <2>2
  <2> QED
    BY <1>2, <2>3, <2>4, <2>5 DEF Orders
<1>4. IsFiniteSet(D) /\ Cardinality(D) = Len(findings)
  BY <1>1, FS_Interval
<1>5. /\ \A n \in D : at(n) \in D
      /\ \A i \in D : \E n \in D : at(n) = i
      /\ \A m, n \in D : m < n => <<at(m), at(n)>> \in R
  <2>1. 1..Cardinality(D) = D
    BY <1>1, <1>4
  <2> HIDE DEF R, D
  <2>2. LET places == 1..Cardinality(D)
        IN  /\ \A n \in places : at(n) \in D
            /\ \A x \in D : \E n \in places : at(n) = x
            /\ \A m, n \in places : m < n => <<at(m), at(n)>> \in R
    BY <1>3, <1>4, CountingSorts
  <2> HIDE DEF at
  <2> QED
    BY <2>1, <2>2
<1>6. order = [n \in D |-> findings[at(n)]]
  <2> DEFINE Sooner(i, j) ==
               IF ai.enabled THEN First(i, j)
               ELSE \/ findings[i].risk > findings[j].risk
                    \/ findings[i].risk = findings[j].risk /\ i < j
  <2>1. order = [n \in D |-> findings[CHOOSE i \in D :
                                       Cardinality({j \in D : Sooner(j, i)}) = n - 1]]
    BY Zenon DEF PrioritizedOrder
  <2>2. \A i, j \in D : Sooner(i, j) <=> <<i, j>> \in R
    BY <1>2
  <2> HIDE DEF Sooner, R, D, order
  <2>3. \A i \in D : Before(R, D, i) = {j \in D : Sooner(j, i)}
    BY <2>2 DEF Before
  <2>4. \A n \in D : at(n) = CHOOSE i \in D : Cardinality({j \in D : Sooner(j, i)}) = n - 1
    BY <2>3 DEF AtPlace
  <2> DEFINE chosen(n) == CHOOSE i \in D : Cardinality({j \in D : Sooner(j, i)}) = n - 1
  <2>5. order = [n \in D |-> findings[chosen(n)]] /\ \A n \in D : at(n) = chosen(n)
    BY <2>1, <2>4, Zenon
  <2> HIDE DEF at, chosen
  <2> QED
    BY <2>5
<1>7. \A n \in D : order[n] = findings[at(n)]
  BY <1>6
<1>8. DOMAIN order = D /\ Len(order) = Len(findings)
  <2>1. order \in [1..Len(findings) -> F]
    BY <1>1, <1>5, <1>6
  <2> QED
    BY <1>1, <2>1
<1>9. ASSUME NEW m \in D, NEW n \in D, m < n
      PROVE  /\ ~ComesFirst(ai, order[n], order[m])
             /\ \E i, j \in D : i # j /\ order[m] = findings[i] /\ order[n] = findings[j]
  <2>1. First(at(m), at(n)) /\ at(m) \in D /\ at(n) \in D
    BY <1>2, <1>5, <1>9
  <2>2. \A i, j \in D : First(i, j) => ~ComesFirst(ai, findings[j], findings[i])
    BY DEF ComesFirst
  <2>3. <<at(m), at(m)>> \notin R /\ <<at(m), at(n)>> \in R
    BY <1>3, <1>5, <1>9, <2>1 DEF Orders
  <2>4. at(m) # at(n)
    BY <2>3
  <2> HIDE DEF order, at, First
  <2> QED
    BY <1>7, <2>1, <2>2, <2>4
<1> HIDE DEF order, at
<1>10. /\ \A n \in D : \E i \in D : order[n] = findings[i]
       /\ \A i \in D : \E n \in D : order[n] = findings[i]
  BY <1>5, <1>7
<1> QED
  BY <1>8, <1>9, <1>10 DEF order, Sorts

(* What is kept of a reply is about a finding, as its last item about it   *)
(* says.                                                                   *)
LEMMA AnnotationsAreKept ==
  ASSUME NEW ids, NEW I, NEW items \in Seq(I)
  PROVE  /\ DOMAIN Annotations(ids, items) \subseteq ids
         /\ \A id \in DOMAIN Annotations(ids, items) : \E i \in DOMAIN items :
              items[i].id = id /\ Annotations(ids, items)[id].rank = items[i].rank
<1> DEFINE about(id) == {i \in DOMAIN items : items[i].id = id}
           last(id)  == CHOOSE i \in about(id) : \A j \in about(id) : j <= i
           known     == {x \in ids : about(x) # {}}
           given     == Annotations(ids, items)
<1>1. given = [id \in known |-> [rank |-> items[last(id)].rank, group |-> items[last(id)].group]]
  BY DEF Annotations
<1>2. ASSUME NEW id \in known PROVE last(id) \in about(id)
  <2>1. about(id) \subseteq 0..Len(items) /\ Len(items) \in Nat /\ about(id) # {}
    OBVIOUS
  <2>2. \E i \in about(id) : \A j \in about(id) : j <= i
    BY <2>1, GreatestNatural
  <2> QED
    BY <2>2
<1>3. ASSUME NEW id \in known
      PROVE  items[last(id)].id = id /\ last(id) \in DOMAIN items
  BY <1>2
<1> HIDE DEF last, given
<1>4. DOMAIN given = known /\ \A id \in known : given[id].rank = items[last(id)].rank
  BY <1>1
<1> QED
  BY <1>3, <1>4 DEF given

(* The priority of a finding is a number when no rank of it is mangled.    *)
LEMMA PrioritiesAreNumbers ==
  ASSUME NEW findings, NEW reply, IsReply(reply), reply.kind = "object", findings # <<>>,
         ~AssessRaises(findings, reply), NEW i \in DOMAIN findings
  PROVE  PriorityOf(Assess(findings, reply), findings[i]) \in Int
<1> DEFINE ai    == Assess(findings, reply)
           ids   == {findings[k].id : k \in DOMAIN findings}
           given == Annotations(ids, reply.items)
           f     == findings[i]
<1>1. ai.annotations = given
  BY DEF Assess
<1>2. reply.items \in Seq(ToSet(reply.items))
  BY DEF IsReply
<1> HIDE DEF ai, ids
<1>3. \A id \in DOMAIN given : \E n \in DOMAIN reply.items :
        reply.items[n].id = id /\ given[id].rank = reply.items[n].rank
  BY <1>2, AnnotationsAreKept
<1> HIDE DEF given
<1>4. CASE f.id \in DOMAIN given /\ given[f.id].rank \notin {Absent, 0}
  <2>1. PICK n \in DOMAIN reply.items :
          reply.items[n].id = f.id /\ given[f.id].rank = reply.items[n].rank
    BY <1>3, <1>4
  <2>2. reply.items[n].rank \in {Absent, Mangled} \cup Int
    BY DEF IsReply
  <2>3. reply.items[n].rank # Mangled
    BY <2>1 DEF AssessRaises
  <2>4. given[f.id].rank \in Int
    BY <1>4, <2>1, <2>2, <2>3
  <2> QED
    BY <1>1, <1>4, <2>4 DEF PriorityOf, ai
<1>5. CASE ~(f.id \in DOMAIN given /\ given[f.id].rank \notin {Absent, 0})
  BY <1>1, <1>5 DEF PriorityOf, Unranked, ai
<1> QED
  BY <1>4, <1>5

(* A finding has a rank when the analyst gave it one that is not 0.        *)
HasRank(ai, f) ==
  f.id \in DOMAIN ai.annotations /\ ai.annotations[f.id].rank \notin {Absent, 0}

(* An order of findings is true to an assessment when it keeps all of them *)
(* and goes by rank, then by risk.                                         *)
TrueTo(ai, findings, order) ==
  /\ Len(order) = Len(findings) /\ ToSet(Ids(order)) = ToSet(Ids(findings))
  /\ \A i, j \in DOMAIN order : i < j =>
       /\ HasRank(ai, order[j]) /\ ai.annotations[order[j].id].rank < Unranked
            => HasRank(ai, order[i]) /\ ai.annotations[order[i].id].rank < Unranked
       /\ ~HasRank(ai, order[i]) /\ ~HasRank(ai, order[j]) => order[i].risk >= order[j].risk

(* What is presented after an assessment is true to it.                    *)
LEMMA PresentedIsTrue ==
  ASSUME NEW c \in Consultations, c.reply.kind = "object", c.findings # <<>>,
         ~AssessRaises(c.findings, c.reply)
  PROVE  TrueTo(Assess(c.findings, c.reply), c.findings,
                PrioritizedOrder(c.findings, Assess(c.findings, c.reply)))
<1> DEFINE ai       == Assess(c.findings, c.reply)
           findings == c.findings
           order    == PrioritizedOrder(findings, ai)
           p(f)     == PriorityOf(ai, f)
<1>1. ai.enabled = TRUE
  BY DEF Assess
<1>2. /\ findings \in Seq(ToSet(findings))
      /\ \A i \in DOMAIN findings : findings[i].risk \in Int /\ p(findings[i]) \in Int
  BY ConsultationsAssumption, PrioritiesAreNumbers
<1> HIDE DEF ai, findings
<1>3. Sorts(order, findings, ai)
  BY <1>1, <1>2, PriorityOrderSorts
<1> HIDE DEF order
<1>4. ToSet(Ids(order)) = ToSet(Ids(findings))
  <2>1. /\ \A x : x \in ToSet(Ids(order)) <=> \E n \in DOMAIN order : x = order[n].id
        /\ \A x : x \in ToSet(Ids(findings)) <=> \E n \in DOMAIN findings : x = findings[n].id
    BY DEF ToSet, Ids
  <2>2. ASSUME NEW x, x \in ToSet(Ids(order))
        PROVE  x \in ToSet(Ids(findings))
    <3>1. PICK n \in DOMAIN order : x = order[n].id
      BY <2>1, <2>2
    <3>2. PICK i \in DOMAIN findings : order[n] = findings[i]
      BY <1>3 DEF Sorts
    <3> QED
      BY <2>1, <3>1, <3>2, Zenon
  <2>3. ASSUME NEW x, x \in ToSet(Ids(findings))
        PROVE  x \in ToSet(Ids(order))
    <3>1. PICK i \in DOMAIN findings : x = findings[i].id
      BY <2>1, <2>3
    <3>2. PICK n \in DOMAIN order : order[n] = findings[i]
      BY <1>3 DEF Sorts
    <3> QED
      BY <2>1, <3>1, <3>2, Zenon
  <2> QED
    BY <2>2, <2>3
<1>5. ASSUME NEW i \in DOMAIN order, NEW j \in DOMAIN order, i < j
      PROVE  /\ HasRank(ai, order[j]) /\ ai.annotations[order[j].id].rank < Unranked
                  => HasRank(ai, order[i]) /\ ai.annotations[order[i].id].rank < Unranked
             /\ ~HasRank(ai, order[i]) /\ ~HasRank(ai, order[j])
                  => order[i].risk >= order[j].risk
  <2> DEFINE f == order[i]
             g == order[j]
  <2>1. /\ p(f) \in Int /\ p(g) \in Int /\ f.risk \in Int /\ g.risk \in Int
    BY <1>2, <1>3 DEF Sorts
  <2>2. ~ComesFirst(ai, g, f)
    BY <1>3, <1>5 DEF Sorts
  <2>3. /\ \A x : HasRank(ai, x) => p(x) = ai.annotations[x.id].rank
        /\ \A x : ~HasRank(ai, x) => p(x) = Unranked
    BY Zenon DEF HasRank, PriorityOf
  <2> HIDE DEF f, g, p
  <2>4. ~(p(g) < p(f)) /\ (p(g) = p(f) => ~(g.risk > f.risk))
    BY <2>2, Zenon DEF ComesFirst, p
  <2>5. ASSUME HasRank(ai, g), ai.annotations[g.id].rank < Unranked
        PROVE  HasRank(ai, f) /\ ai.annotations[f.id].rank < Unranked
    <3>1. p(g) < Unranked /\ p(f) <= p(g)
      BY <2>1, <2>3, <2>4, <2>5
    <3>2. p(f) < Unranked
      BY <2>1, <3>1 DEF Unranked
    <3>3. HasRank(ai, f)
      BY <2>3, <3>2 DEF Unranked
    <3> QED
      BY <2>3, <3>2, <3>3
  <2>6. ASSUME ~HasRank(ai, f), ~HasRank(ai, g)
        PROVE  f.risk >= g.risk
    BY <2>1, <2>3, <2>4, <2>6
  <2> QED
    BY <2>5, <2>6 DEF f, g
<1>6. TrueTo(ai, findings, order)
  BY <1>3, <1>4, <1>5, Zenon DEF TrueTo, Sorts
<1> QED
  BY <1>6 DEF ai, findings, order

(* The groups of an assessment share no finding and hold every annotated   *)
(* one that has a group.                                                   *)
LEMMA GroupsPartition ==
  ASSUME NEW given, NEW ids, NEW items
  PROVE  LET groups == Groups(given, ids, items)
         IN  /\ \A g, h \in DOMAIN groups : g # h => groups[g] \cap groups[h] = {}
             /\ \A id \in DOMAIN given :
                  given[id].group # Absent => id \in groups[given[id].group]
BY DEF Groups

(* The analyst (ai/analyst.py) can annotate findings and order them, and   *)
(* neither make one up nor lose one, whatever the model answers.           *)
THEOREM AiOnlyAnnotatesHolds == Spec => []AiOnlyAnnotates
<1>1. AnswerInv => AiOnlyAnnotates
  <2> DEFINE findings == call.of.findings
             reply    == call.of.reply
             ai       == Assess(findings, reply)
             ids      == {findings[i].id : i \in DOMAIN findings}
  <2> SUFFICES ASSUME AnswerInv, Answers("assess"), ~answer.raises
               PROVE  AiOnlyAnnotates
    BY DEF AiOnlyAnnotates
  <2>1. call.of \in Consultations
    BY DEF AnswerInv, Answers, Calls
  <2>2. /\ ~AssessRaises(findings, reply)
        /\ answer = [raises |-> FALSE, ai |-> ai, order |-> Presented(findings, ai)]
    <3>1. answer = IF AssessRaises(findings, reply) THEN [raises |-> TRUE]
                   ELSE [raises |-> FALSE, ai |-> ai, order |-> Presented(findings, ai)]
      BY Zenon DEF AnswerInv
    <3> QED
      BY <3>1
  <2>3. answer.ai = ai /\ answer.order = Presented(findings, ai)
    BY <2>2, Zenon
  <2>4. ids = ToSet(Ids(findings))
    BY DEF ToSet, Ids
  <2>5. CASE findings = <<>> \/ reply.kind # "object"
    <3>1. ai = Disabled
      <4>1. reply.kind \in {"away", "raises", "unreadable", "object"}
        BY <2>1, ConsultationsAssumption DEF IsReply
      <4> QED
        BY <2>5, <4>1 DEF Assess
    <3>2. /\ ai.enabled = FALSE /\ DOMAIN ai.annotations = {} /\ DOMAIN ai.groups = {}
      BY <3>1 DEF Disabled
    <3>3. answer.order = findings
      BY <2>3, <3>2 DEF Presented
    <3> HIDE DEF ai, findings
    <3> QED
      BY <2>3, <3>2, <3>3 DEF AiOnlyAnnotates, findings
  <2>6. CASE findings # <<>> /\ reply.kind = "object"
    <3>1. /\ ai.enabled = TRUE
          /\ ai.annotations = Annotations(ids, reply.items)
          /\ ai.groups = Groups(ai.annotations, ids, reply.items)
      BY <2>6 DEF Assess
    <3>2. answer.order = PrioritizedOrder(findings, ai)
      BY <2>3, <3>1 DEF Presented
    <3>3. TrueTo(ai, findings, answer.order)
      BY <2>1, <2>2, <2>6, <3>2, PresentedIsTrue
    <3>4. reply.items \in Seq(ToSet(reply.items))
      BY <2>1, <2>6, ConsultationsAssumption DEF IsReply
    <3> HIDE DEF ai, ids
    <3>5. DOMAIN ai.annotations \subseteq ids
      BY <3>1, <3>4, AnnotationsAreKept
    <3>6. /\ \A g, h \in DOMAIN ai.groups : g # h => ai.groups[g] \cap ai.groups[h] = {}
          /\ \A id \in DOMAIN ai.annotations :
               ai.annotations[id].group # Absent => id \in ai.groups[ai.annotations[id].group]
      BY <3>1, GroupsPartition
    <3> HIDE DEF findings
    <3> QED
      BY <2>3, <2>4, <3>3, <3>5, <3>6, Zenon DEF AiOnlyAnnotates, TrueTo, HasRank, findings
  <2> QED
    BY <2>5, <2>6
<1> QED
  BY <1>1, AnswerInvHolds, PTL

-----------------------------------------------------------------------------
(* The places of a set of numbers are its numbers, each once, ascending.   *)
LEMMA PlacesAscend ==
  ASSUME NEW N \in Nat, NEW I \in SUBSET (1..N)
  PROVE  LET k == Cardinality(I)
         IN  /\ k \in Nat
             /\ Places(I) \in [1..k -> I]
             /\ \A i \in I : \E n \in 1..k : Places(I)[n] = i
             /\ \A m, n \in 1..k : m < n => Places(I)[m] < Places(I)[n]
<1> DEFINE R     == {p \in I \X I : p[1] < p[2]}
           k     == Cardinality(I)
           at(n) == AtPlace(R, I, n)
<1>1. IsFiniteSet(I) /\ k \in Nat
  <2>1. IsFiniteSet(1..N)
    BY FS_Interval
  <2>2. IsFiniteSet(I)
    BY <2>1, FS_Subset
  <2> QED
    BY <2>2, FS_CardinalityType
<1>2. \A i, j \in I : <<i, j>> \in R <=> i < j
  OBVIOUS
<1>3. R \subseteq I \X I /\ I \subseteq Int
  OBVIOUS
<1>4. Orders(R, I)
  <2> HIDE DEF R
  <2> QED
    BY <1>2, <1>3 DEF Orders
<1>5. /\ \A n \in 1..k : at(n) \in I
      /\ \A i \in I : \E n \in 1..k : at(n) = i
      /\ \A m, n \in 1..k : m < n => <<at(m), at(n)>> \in R
  BY <1>1, <1>4, CountingSorts
<1>6. \A i \in I : Before(R, I, i) = {j \in I : j < i}
  BY <1>2 DEF Before
<1>7. \A n : at(n) = CHOOSE i \in I : Cardinality({j \in I : j < i}) = n - 1
  BY <1>6 DEF AtPlace
<1> HIDE DEF at, R
<1>8. Places(I) = [n \in 1..k |-> at(n)]
  <2> DEFINE chosen(n) == CHOOSE i \in I : Cardinality({j \in I : j < i}) = n - 1
  <2>1. Places(I) = [n \in 1..k |-> chosen(n)]
    BY Zenon DEF Places
  <2>2. \A n \in 1..k : at(n) = chosen(n)
    BY <1>7, Zenon
  <2> HIDE DEF chosen, k
  <2> QED
    BY <2>1, <2>2
<1> HIDE DEF k
<1>9. /\ Places(I) \in [1..k -> I]
      /\ \A n \in 1..k : Places(I)[n] = at(n)
  BY <1>5, <1>8
<1>10. \A m, n \in 1..k : m < n => at(m) < at(n)
  BY <1>2, <1>5
<1> QED
  BY <1>1, <1>5, <1>9, <1>10 DEF k

(* A selection is the sequence of what is at those places.                 *)
LEMMA SelectedKeeps ==
  ASSUME NEW S, NEW s \in Seq(S), NEW I \in SUBSET DOMAIN s
  PROVE  LET k == Cardinality(I)
         IN  /\ k \in Nat /\ Places(I) \in [1..k -> I]
             /\ Selected(s, I) \in Seq(S)
             /\ Len(Selected(s, I)) = k /\ DOMAIN Selected(s, I) = 1..k
             /\ \A n \in 1..k : Selected(s, I)[n] = s[Places(I)[n]]
<1> DEFINE k == Cardinality(I)
<1>1. k \in Nat /\ Places(I) \in [1..k -> I]
  <2>1. Len(s) \in Nat /\ I \in SUBSET (1..Len(s))
    OBVIOUS
  <2> QED
    BY <2>1, PlacesAscend
<1>2. Selected(s, I) = [n \in 1..k |-> s[Places(I)[n]]]
  BY <1>1 DEF Selected
<1>3. \A n \in 1..k : s[Places(I)[n]] \in S
  BY <1>1
<1> HIDE DEF k
<1>4. Selected(s, I) \in [1..k -> S]
  BY <1>2, <1>3
<1> QED
  BY <1>1, <1>2, <1>4 DEF k

(* A report whose findings are told apart by their ids and each have their *)
(* bundle.                                                                 *)
Documented(r) ==
  /\ {"findings", "proofs"} \subseteq DOMAIN r /\ "bundles" \in DOMAIN r.proofs
  /\ r.findings \in Seq(ToSet(r.findings))
  /\ r.proofs # Absent
  /\ r.proofs.bundles \in Seq(ToSet(r.proofs.bundles))
  /\ DOMAIN r.proofs.bundles = DOMAIN r.findings
  /\ \A i \in DOMAIN r.findings :
       /\ r.findings[i].severity \in DOMAIN SeverityBase
       /\ r.proofs.bundles[i] # Absent
       /\ r.proofs.bundles[i].finding = r.findings[i].id
       /\ \A j \in DOMAIN r.findings : i # j => r.findings[i].id # r.findings[j].id

(* The proof that is shown of a finding is its own.                        *)
LEMMA ProofIsOwn ==
  ASSUME NEW r, Documented(r), NEW i \in DOMAIN r.findings
  PROVE  ProofFor(r, r.findings[i].id) = r.proofs.bundles[i]
<1> DEFINE bundles == r.proofs.bundles
           id      == r.findings[i].id
           named   == {k \in 1..Len(bundles) : bundles[k].finding = id}
<1>1. DOMAIN bundles = 1..Len(bundles) /\ Len(bundles) \in Nat /\ i \in DOMAIN bundles
  BY DEF Documented
<1>2. named = {i}
  BY <1>1 DEF Documented
<1>3. Min(named) = i
  BY <1>1, <1>2 DEF Min
<1>4. SelectInSeq(bundles, LAMBDA p : p.finding = id) = i
  BY <1>2, <1>3 DEF SelectInSeq
<1>5. i # 0 /\ r.proofs # Absent
  BY <1>1 DEF Documented
<1> QED
  BY <1>4, <1>5 DEF ProofFor

(* The formats that a documented report is rendered in agree.              *)
Agree(view) ==
  LET results == view.sarif.results
      bundles == view.json.proofs.bundles
  IN  /\ view.json.findings = view.markdown.table
      /\ view.json.findings = [i \in DOMAIN results |-> results[i].finding]
      /\ view.sarif.rules = {results[i].rule : i \in DOMAIN results}
      /\ view.exit = 1 <=> \E i \in DOMAIN results : results[i].level = "error"
      /\ [i \in DOMAIN bundles |-> bundles[i].finding] = view.json.findings
      /\ \A i \in DOMAIN view.markdown.details :
           view.markdown.details[i].verdict = bundles[i].verdict

LEMMA FormatsAgree ==
  ASSUME NEW r, Documented(r), DetailLimit \in Nat
  PROVE  Agree(Render(r))
<1> DEFINE view    == Render(r)
           F       == r.findings
           B       == r.proofs.bundles
           shown   == IF Len(F) < DetailLimit THEN Len(F) ELSE DetailLimit
<1>1. /\ view.json = Json(r) /\ view.sarif = Sarif(r)
      /\ view.markdown = Markdown(r) /\ view.exit = ExitCode(r)
  BY DEF Render
<1>2. /\ Json(r).findings = Ids(F)
      /\ Json(r).proofs.bundles = B
  BY DEF Json, Documented
<1>3. /\ Markdown(r).table = Ids(F)
      /\ Markdown(r).details = [i \in 1..shown |-> Detail(r, F[i])]
  BY DEF Markdown
<1>4. /\ DOMAIN Sarif(r).results = DOMAIN F
      /\ Sarif(r).rules = {F[i].category : i \in DOMAIN F}
      /\ \A i \in DOMAIN F : /\ Sarif(r).results[i].rule = F[i].category
                             /\ Sarif(r).results[i].level = SarifLevel(F[i].severity)
                             /\ Sarif(r).results[i].finding = F[i].id
  BY DEF Sarif
<1>5. /\ DOMAIN F = 1..Len(F) /\ Len(F) \in Nat /\ DOMAIN B = DOMAIN F
      /\ \A i \in DOMAIN F : B[i].finding = F[i].id /\ B[i] # Absent
                             /\ F[i].severity \in DOMAIN SeverityBase
  BY DEF Documented
<1>6. ExitCode(r) = 1 <=> \E i \in DOMAIN F : SarifLevel(F[i].severity) = "error"
  <2> DEFINE of(s) == {i \in DOMAIN F : F[i].severity = s}
  <2>1. /\ Summarize(F)["critical"] = Cardinality(of("critical"))
        /\ Summarize(F)["high"] = Cardinality(of("high"))
    BY DEF Summarize, Severities, ToSet
  <2>2. \A s : IsFiniteSet(of(s))
    <3>1. \A s : of(s) \in SUBSET (1..Len(F))
      BY <1>5
    <3> DEFINE N == Len(F)
    <3>2. N \in Nat
      BY <1>5
    <3> HIDE DEF of, N
    <3>3. IsFiniteSet(1..N)
      BY <3>2, FS_Interval
    <3>4. \A s : of(s) \in SUBSET (1..N)
      BY <3>1 DEF N
    <3> QED
      BY <3>3, <3>4, FS_Subset
  <2>3. \A s : Cardinality(of(s)) \in Nat /\ (Cardinality(of(s)) = 0 <=> of(s) = {})
    BY <2>2, FS_CardinalityType, FS_EmptySet
  <2>4. \A i \in DOMAIN F : SarifLevel(F[i].severity) = "error"
                              <=> F[i].severity \in {"high", "critical"}
    BY <1>5 DEF SarifLevel, SeverityBase
  <2>5. (\E i \in DOMAIN F : SarifLevel(F[i].severity) = "error")
          <=> of("critical") # {} \/ of("high") # {}
    BY <2>4
  <2> HIDE DEF of
  <2>6. ExitCode(r) = 1 <=> Cardinality(of("critical")) > 0 \/ Cardinality(of("high")) > 0
    BY <2>1 DEF ExitCode
  <2> QED
    BY <2>3, <2>5, <2>6
<1>7. ASSUME NEW i \in 1..shown
      PROVE  Detail(r, F[i]).verdict = B[i].verdict
  <2>1. i \in DOMAIN F
    BY <1>5
  <2>2. ProofFor(r, F[i].id) = B[i] /\ B[i] # Absent
    BY <1>5, <2>1, ProofIsOwn
  <2> QED
    BY <2>2 DEF Detail
<1> HIDE DEF view, F, B, shown
<1>8. /\ Ids(F) = [i \in DOMAIN Sarif(r).results |-> Sarif(r).results[i].finding]
      /\ Sarif(r).rules = {Sarif(r).results[i].rule : i \in DOMAIN Sarif(r).results}
      /\ Ids(F) = [i \in DOMAIN B |-> B[i].finding]
  BY <1>4, <1>5 DEF Ids
<1>9. \A i \in DOMAIN Markdown(r).details : Markdown(r).details[i].verdict = B[i].verdict
  BY <1>3, <1>7
<1>10. ExitCode(r) = 1
         <=> \E i \in DOMAIN Sarif(r).results : Sarif(r).results[i].level = "error"
  BY <1>4, <1>6
<1>11. /\ view.json.findings = Ids(F) /\ view.json.proofs.bundles = B
       /\ view.sarif = Sarif(r) /\ view.exit = ExitCode(r)
       /\ view.markdown.table = Ids(F) /\ view.markdown.details = Markdown(r).details
  BY <1>1, <1>2, <1>3
<1> QED
  BY <1>8, <1>9, <1>10, <1>11 DEF Agree, view

(* The view of the confirmed findings keeps what has a confirming proof,   *)
(* with its proof, and is documented itself.                               *)
Confirming(r) ==
  {i \in DOMAIN r.proofs.bundles : r.proofs.bundles[i].verdict \in ConfirmedVerdicts}

LEMMA FilterSelects ==
  ASSUME NEW r, Documented(r)
  PROVE  LET I    == Confirming(r)
             kept == FilterConfirmed(r)
         IN  /\ kept.findings = Selected(r.findings, I)
             /\ kept.proofs.bundles = Selected(r.proofs.bundles, I)
             /\ {"findings", "proofs"} \subseteq DOMAIN kept
             /\ "bundles" \in DOMAIN kept.proofs
<1> DEFINE F    == r.findings
           B    == r.proofs.bundles
           I    == Confirming(r)
           kept == FilterConfirmed(r)
           sure == ConfirmedBundles(r.proofs)
           ids  == {sure[i].finding : i \in DOMAIN sure}
           k    == Cardinality(I)
<1>1. /\ F \in Seq(ToSet(F)) /\ B \in Seq(ToSet(B)) /\ DOMAIN B = DOMAIN F
      /\ \A i \in DOMAIN F : B[i].finding = F[i].id
      /\ \A i, j \in DOMAIN F : i # j => F[i].id # F[j].id
  BY DEF Documented
<1>2. I \in SUBSET DOMAIN B /\ DOMAIN B = 1..Len(B) /\ Len(B) \in Nat
  BY <1>1 DEF Confirming
<1>3. sure = Selected(B, I)
  BY DEF ConfirmedBundles, Confirming
<1> HIDE DEF B, F, I, sure
<1>4. /\ DOMAIN sure = 1..k /\ Places(I) \in [1..k -> I]
      /\ \A n \in 1..k : sure[n] = B[Places(I)[n]]
  BY <1>1, <1>2, <1>3, SelectedKeeps
<1>5. \A i \in I : \E n \in 1..k : Places(I)[n] = i
  BY <1>2, PlacesAscend
<1>6. ids = {B[i].finding : i \in I}
  BY <1>4, <1>5
<1> HIDE DEF ids
<1>7. /\ {i \in DOMAIN F : F[i].id \in ids} = I
      /\ {i \in DOMAIN B : B[i].finding \in ids} = I
  BY <1>1, <1>2, <1>6
<1>8. kept = [r EXCEPT !.findings = Selected(F, I), !.proofs.bundles = Selected(B, I)]
  <2>1. kept = [r EXCEPT !.findings = Selected(F, {i \in DOMAIN F : F[i].id \in ids}),
                         !.proofs.bundles = Selected(B, {i \in DOMAIN B : B[i].finding \in ids})]
    BY DEF Documented, FilterConfirmed, F, B, ids, sure
  <2> QED
    BY <1>7, <2>1
<1> HIDE DEF kept
<1> QED
  BY <1>8 DEF Documented, F, B, I, kept

LEMMA FilteredIsDocumented ==
  ASSUME NEW r, Documented(r), FilterConfirmed(r).proofs # Absent
  PROVE  Documented(FilterConfirmed(r))
<1> DEFINE F    == r.findings
           B    == r.proofs.bundles
           I    == Confirming(r)
           kept == FilterConfirmed(r)
           at   == Places(I)
           k    == Cardinality(I)
           G    == Selected(F, I)
           C    == Selected(B, I)
<1>1. /\ F \in Seq(ToSet(F)) /\ B \in Seq(ToSet(B)) /\ DOMAIN B = DOMAIN F
      /\ \A i \in DOMAIN F : /\ F[i].severity \in DOMAIN SeverityBase
                             /\ B[i] # Absent /\ B[i].finding = F[i].id
      /\ \A i, j \in DOMAIN F : i # j => F[i].id # F[j].id
  BY DEF Documented
<1>2. I \in SUBSET DOMAIN B /\ DOMAIN B = 1..Len(B) /\ Len(B) \in Nat
  BY <1>1 DEF Confirming
<1>3. /\ kept.findings = G /\ kept.proofs.bundles = C
      /\ {"findings", "proofs"} \subseteq DOMAIN kept /\ "bundles" \in DOMAIN kept.proofs
  BY FilterSelects
<1> HIDE DEF B, F, I, kept, G, C
<1>4. /\ k \in Nat /\ at \in [1..k -> I]
      /\ \A m, n \in 1..k : m < n => at[m] < at[n]
  BY <1>2, PlacesAscend
<1>5. /\ G \in Seq(ToSet(F)) /\ Len(G) = k /\ DOMAIN G = 1..k
      /\ \A n \in 1..k : G[n] = F[at[n]]
  <2>1. I \in SUBSET DOMAIN F
    BY <1>1, <1>2
  <2> QED
    BY <1>1, <2>1, SelectedKeeps DEF G
<1>6. /\ C \in Seq(ToSet(B)) /\ Len(C) = k /\ DOMAIN C = 1..k
      /\ \A n \in 1..k : C[n] = B[at[n]]
  BY <1>1, <1>2, SelectedKeeps DEF C
<1> HIDE DEF at, k
<1>7. G \in Seq(ToSet(G)) /\ C \in Seq(ToSet(C))
  BY <1>5, <1>6 DEF ToSet
<1>8. \A m, n \in 1..k : m # n => at[m] # at[n] /\ at[m] \in DOMAIN F /\ at[n] \in DOMAIN F
  <2> TAKE m \in 1..k, n \in 1..k
  <2>1. m < n \/ n < m \/ m = n
    BY <1>4
  <2>2. at[m] \in 1..Len(B) /\ at[n] \in 1..Len(B)
    BY <1>2, <1>4
  <2> QED
    BY <1>1, <1>2, <1>4, <2>1, <2>2
<1>9. \A n \in 1..k : /\ at[n] \in DOMAIN F
                      /\ G[n].severity \in DOMAIN SeverityBase
                      /\ C[n] # Absent /\ C[n].finding = G[n].id
                      /\ \A m \in 1..k : n # m => G[n].id # G[m].id
  <2> TAKE n \in 1..k
  <2>1. at[n] \in DOMAIN F /\ G[n] = F[at[n]] /\ C[n] = B[at[n]]
    BY <1>1, <1>2, <1>4, <1>5, <1>6
  <2>2. ASSUME NEW m \in 1..k, n # m PROVE G[n].id # G[m].id
    <3>1. at[m] \in DOMAIN F /\ at[n] # at[m] /\ G[m] = F[at[m]]
      BY <1>5, <1>8, <2>2
    <3>2. F[at[n]].id # F[at[m]].id
      BY <1>1, <2>1, <3>1
    <3> QED
      BY <2>1, <3>1, <3>2
  <2>3. /\ F[at[n]].severity \in DOMAIN SeverityBase
        /\ B[at[n]] # Absent /\ B[at[n]].finding = F[at[n]].id
    BY <1>1, <2>1
  <2> QED
    BY <2>1, <2>2, <2>3
<1> QED
  BY <1>3, <1>5, <1>6, <1>7, <1>9 DEF Documented, kept

(* What the confirmed view tells of the full one. *)
Keeps(full, confirmed) ==
  LET proven == {p \in ToSet(full.json.proofs.bundles) : p.verdict \in ConfirmedVerdicts}
      all    == full.json.findings
      kept   == confirmed.json.findings
  IN  /\ full.json.proofs.confirmed = Cardinality(proven)
      /\ Len(kept) = Cardinality(proven) /\ ToSet(kept) = {p.finding : p \in proven}
      /\ \A m, n \in DOMAIN kept : m < n =>
           \E i, j \in DOMAIN all : i < j /\ all[i] = kept[m] /\ all[j] = kept[n]
      /\ confirmed.markdown.proven \in {Absent, <<Cardinality(proven), Cardinality(proven)>>}

LEMMA ConfirmedIsKept ==
  ASSUME NEW r, Documented(r), FilterConfirmed(r).proofs # Absent
  PROVE  Keeps(Render(r), Render(FilterConfirmed(r)))
<1> DEFINE F      == r.findings
           B      == r.proofs.bundles
           I      == Confirming(r)
           view   == FilterConfirmed(r)
           at     == Places(I)
           k      == Cardinality(I)
           G      == Selected(F, I)
           C      == Selected(B, I)
           proven == {p \in ToSet(B) : p.verdict \in ConfirmedVerdicts}
<1>1. /\ F \in Seq(ToSet(F)) /\ B \in Seq(ToSet(B)) /\ DOMAIN B = DOMAIN F
      /\ \A i \in DOMAIN F : B[i].finding = F[i].id
      /\ \A i, j \in DOMAIN F : i # j => F[i].id # F[j].id
      /\ r.proofs # Absent
  BY DEF Documented
<1>2. I \in SUBSET DOMAIN F /\ DOMAIN F = 1..Len(B) /\ Len(B) \in Nat
  BY <1>1 DEF Confirming
<1>3. I = {i \in DOMAIN B : B[i].verdict \in ConfirmedVerdicts}
  BY DEF Confirming
<1>4. view.findings = G /\ view.proofs.bundles = C
  BY FilterSelects
<1>5. ConfirmedBundles(r.proofs) = C
  BY <1>3 DEF ConfirmedBundles
<1> HIDE DEF B, F, I, view
<1>6. /\ k \in Nat /\ at \in [1..k -> I]
      /\ \A i \in I : \E n \in 1..k : at[n] = i
      /\ \A m, n \in 1..k : m < n => at[m] < at[n]
  BY <1>2, PlacesAscend
<1>7. /\ Len(G) = k /\ DOMAIN G = 1..k /\ G \in Seq(ToSet(F))
      /\ \A n \in 1..k : G[n] = F[at[n]]
  BY <1>1, <1>2, SelectedKeeps
<1>8. /\ Len(C) = k /\ DOMAIN C = 1..k /\ C \in Seq(ToSet(B))
      /\ \A n \in 1..k : C[n] = B[at[n]]
  BY <1>1, <1>2, SelectedKeeps
<1>9. proven = {B[i] : i \in I}
  BY <1>3 DEF ToSet
<1> HIDE DEF at, G, C, proven
<1>10. Cardinality(proven) = k
  <2> DEFINE f == [i \in I |-> B[i]]
  <2>1. IsFiniteSet(I)
    <3> DEFINE N == Len(B)
    <3>1. N \in Nat /\ I \in SUBSET (1..N)
      BY <1>2
    <3> HIDE DEF N
    <3>2. IsFiniteSet(1..N)
      BY <3>1, FS_Interval
    <3> QED
      BY <3>1, <3>2, FS_Subset
  <2>2. f \in [I -> proven] /\ \A p \in proven : \E i \in I : f[i] = p
    BY <1>9
  <2>3. \A i, j \in I : f[i] = f[j] => i = j
    BY <1>1, <1>2
  <2> HIDE DEF f, k
  <2>4. f \in Bijection(I, proven)
    BY <2>2, <2>3 DEF Bijection, Injection, IsInjective, Surjection
  <2>5. ExistsBijection(I, proven)
    BY <2>4 DEF ExistsBijection
  <2> QED
    BY <2>1, <2>5, FS_Bijection DEF k
<1>11. /\ Render(r).json.proofs.bundles = B
       /\ Render(r).json.proofs.confirmed = k
       /\ Render(r).json.findings = Ids(F)
  BY <1>1, <1>5, <1>8 DEF Render, Json, B, F
<1>12. Render(view).json.findings = Ids(G)
  BY <1>4 DEF Render, Json
<1>13. DOMAIN Ids(F) = DOMAIN F /\ \A i \in DOMAIN F : Ids(F)[i] = F[i].id
  BY DEF Ids
<1>14. /\ DOMAIN Ids(G) = 1..k /\ Len(Ids(G)) = k
       /\ \A n \in 1..k : Ids(G)[n] = F[at[n]].id
  BY <1>6, <1>7 DEF Ids
<1>15. ToSet(Ids(G)) = {p.finding : p \in proven}
  <2>1. ToSet(Ids(G)) = {F[at[n]].id : n \in 1..k}
    BY <1>14 DEF ToSet
  <2>2. {p.finding : p \in proven} = {F[i].id : i \in I}
    BY <1>1, <1>2, <1>9
  <2>3. \A n \in 1..k : at[n] \in I
    BY <1>6
  <2> DEFINE id(i) == F[i].id
  <2>4. /\ ToSet(Ids(G)) = {id(at[n]) : n \in 1..k}
        /\ {p.finding : p \in proven} = {id(i) : i \in I}
    BY <2>1, <2>2
  <2> HIDE DEF id
  <2>5. {id(at[n]) : n \in 1..k} = {id(i) : i \in I}
    BY <1>6, <2>3
  <2> QED
    BY <2>4, <2>5
<1>16. ASSUME NEW m \in DOMAIN Ids(G), NEW n \in DOMAIN Ids(G), m < n
       PROVE  \E i, j \in DOMAIN Ids(F) :
                i < j /\ Ids(F)[i] = Ids(G)[m] /\ Ids(F)[j] = Ids(G)[n]
  <2>1. at[m] < at[n] /\ at[m] \in DOMAIN F /\ at[n] \in DOMAIN F
    BY <1>2, <1>6, <1>14, <1>16
  <2> QED
    BY <1>13, <1>14, <2>1
<1>17. Render(view).markdown.proven \in {Absent, <<k, k>>}
  <2>1. ConfirmedBundles(view.proofs) = Selected(C, 1..k)
    <3>1. \A n \in 1..k : at[n] \in I
      BY <1>6
    <3>2. \A n \in 1..k : C[n].verdict \in ConfirmedVerdicts
      BY <1>3, <1>8, <3>1
    <3>3. {i \in DOMAIN C : C[i].verdict \in ConfirmedVerdicts} = 1..k
      BY <1>8, <3>2
    <3> QED
      BY <1>4, <3>3 DEF ConfirmedBundles
  <2>2. Len(Selected(C, 1..k)) = k
    <3>1. Cardinality(1..k) = k
      BY <1>6, FS_Interval
    <3>2. Len(Selected(C, 1..k)) = Cardinality(1..k)
      BY <1>8, SelectedKeeps
    <3> QED
      BY <3>1, <3>2
  <2>3. Len(view.findings) = k
    BY <1>4, <1>7
  <2>4. Render(view).markdown.proven = Markdown(view).proven
    BY DEF Render
  <2>5. Markdown(view).proven \in
          {Absent, <<Len(ConfirmedBundles(view.proofs)), Len(view.findings)>>}
    BY DEF Markdown
  <2> QED
    BY <2>1, <2>2, <2>3, <2>4, <2>5
<1> QED
  BY <1>10, <1>11, <1>12, <1>14, <1>15, <1>16, <1>17 DEF Keeps, view, proven

(* What comes before, and does not depend on, the ordering of a report.    *)
LEMMA ScoredFinding ==
  ASSUME NEW f, Graded(f), f.engines \in Nat,
         {"id", "category", "severity", "confidence", "engines", "risk"} \subseteq DOMAIN f
  PROVE  /\ Scored(f).id = f.id /\ Scored(f).severity = f.severity
         /\ Scored(f).risk \in Int
<1>1. /\ Scored(f).id = f.id /\ Scored(f).severity = f.severity
      /\ Scored(f).risk = RiskScore(f)
  BY DEF Scored
<1>2. RiskScore(f) \in Int
  <2>1. Weight(f) \in Nat
    <3> DEFINE a == SeverityBase[f.severity]
               b == ConfidenceFactor[f.confidence]
               c == Corroboration(f.engines)
               d == ExposureFactor(f.category)
    <3>1. a \in Nat /\ b \in Nat /\ c \in Nat /\ d \in Nat
      BY FactorBounds
    <3>2. Weight(f) = a * b * c * d
      BY Zenon DEF Weight
    <3> HIDE DEF a, b, c, d
    <3> QED
      BY <3>1, <3>2
  <2> QED
    BY <2>1, ScoreOf, SMT
<1> QED
  BY <1>1, <1>2

(* The report of a scan is documented. *)
LEMMA ReportIsDocumented ==
  ASSUME NEW o \in Outcomes
  PROVE  /\ Documented(ReportOf(o))
         /\ FilterConfirmed(ReportOf(o)).proofs # Absent
<1> DEFINE raw      == o.findings
           scored   == [i \in DOMAIN raw |-> Scored(raw[i])]
           ai       == Assess(scored, o.reply)
           findings == Presented(scored, ai)
           proofs   == BuildProofs(findings, o.key)
           r        == ReportOf(o)
<1>1. r = [findings |-> findings, ai |-> ai, proofs |-> proofs]
  BY DEF ReportOf
<1>2. /\ raw \in Seq(ToSet(raw))
      /\ \A i \in DOMAIN raw :
           /\ {"id", "category", "severity", "confidence", "engines", "risk"}
                \subseteq DOMAIN raw[i]
           /\ Graded(raw[i]) /\ raw[i].engines \in Nat
      /\ \A i, j \in DOMAIN raw : i # j => raw[i].id # raw[j].id
  BY OutcomesAssumption
<1>3. /\ Absent # r.proofs /\ Absent # FilterConfirmed(r).proofs
      /\ Absent \notin ToSet(r.proofs.bundles)
  BY OutcomesAssumption
<1>4. IsReply(o.reply) /\ ~AssessRaises(scored, o.reply)
  BY OutcomesAssumption DEF AssessRaises
<1> HIDE DEF raw
<1>5. \A i \in DOMAIN raw : /\ scored[i].id = raw[i].id
                           /\ scored[i].severity = raw[i].severity
                           /\ scored[i].risk \in Int
  BY <1>2, ScoredFinding
<1>6. /\ scored \in Seq(ToSet(scored)) /\ DOMAIN scored = DOMAIN raw
      /\ \A i \in DOMAIN scored : /\ scored[i].risk \in Int
                                /\ scored[i].severity \in DOMAIN SeverityBase
      /\ \A i, j \in DOMAIN scored : i # j => scored[i].id # scored[j].id
  <2>1. DOMAIN raw = 1..Len(raw) /\ Len(raw) \in Nat
    BY <1>2
  <2>2. scored \in [1..Len(raw) -> ToSet(scored)] /\ DOMAIN scored = DOMAIN raw
    BY <2>1 DEF ToSet
  <2> HIDE DEF scored
  <2> QED
    BY <1>2, <1>5, <2>1, <2>2 DEF Graded
<1> HIDE DEF scored
(* Presented in whatever order, each finding is one of those scored. *)
<1>7. /\ DOMAIN findings = DOMAIN scored /\ findings \in Seq(ToSet(findings))
      /\ \A n \in DOMAIN findings : \E i \in DOMAIN scored : findings[n] = scored[i]
      /\ \A m, n \in DOMAIN findings : m < n =>
           \E i, j \in DOMAIN scored :
             i # j /\ findings[m] = scored[i] /\ findings[n] = scored[j]
  <2>1. CASE ai.enabled
    <3>1. scored # <<>> /\ o.reply.kind = "object" /\ ai.enabled = TRUE
      BY <1>4, <2>1 DEF Assess, Disabled, IsReply
    <3>2. \A i \in DOMAIN scored : PriorityOf(ai, scored[i]) \in Int
      BY <1>4, <3>1, PrioritiesAreNumbers
    <3>3. findings = PrioritizedOrder(scored, ai)
      BY <3>1 DEF Presented
    <3> HIDE DEF ai, findings
    <3>4. Sorts(findings, scored, ai)
      BY <1>6, <3>1, <3>2, <3>3, PriorityOrderSorts
    <3>5. findings \in Seq(ToSet(findings))
      <4>1. DOMAIN findings = 1..Len(scored) /\ Len(scored) \in Nat
        BY <1>6, <3>4 DEF Sorts
      <4>2. findings = [n \in DOMAIN findings |-> findings[n]]
        BY <3>3 DEF PrioritizedOrder
      <4>3. findings \in [1..Len(scored) -> ToSet(findings)]
        BY <4>1, <4>2 DEF ToSet
      <4> QED
        BY <4>1, <4>3
    <3> QED
      BY <3>4, <3>5 DEF Sorts
  <2>2. CASE ~ai.enabled
    <3>1. findings = scored
      BY <2>2 DEF Presented
    <3>2. \A m, n \in DOMAIN scored : m < n => m # n
      BY <1>6
    <3> HIDE DEF findings
    <3> QED
      BY <1>6, <3>1, <3>2
  <2> QED
    BY <2>1, <2>2
<1> HIDE DEF findings, ai
<1>8. /\ r.findings = findings /\ r.proofs = proofs
      /\ {"findings", "proofs"} \subseteq DOMAIN r
  BY <1>1
<1>9. /\ proofs.bundles = [i \in DOMAIN findings |-> Build(findings[i], o.key)]
      /\ "bundles" \in DOMAIN proofs
  BY DEF BuildProofs
<1>10. \A f : Build(f, o.key).finding = f.id
  BY DEF Build
<1> HIDE DEF proofs, r
<1>11. /\ DOMAIN proofs.bundles = DOMAIN findings
       /\ proofs.bundles \in Seq(ToSet(proofs.bundles))
       /\ \A i \in DOMAIN findings : /\ proofs.bundles[i].finding = findings[i].id
                                   /\ proofs.bundles[i] \in ToSet(proofs.bundles)
  <2> DEFINE bundles == proofs.bundles
  <2>1. DOMAIN findings = 1..Len(findings) /\ Len(findings) \in Nat
    BY <1>7
  <2>2. /\ DOMAIN bundles = DOMAIN findings
        /\ \A i \in DOMAIN findings : bundles[i].finding = findings[i].id
        /\ bundles = [i \in 1..Len(findings) |-> bundles[i]]
    BY <1>9, <1>10, <2>1
  <2>3. \A i \in DOMAIN findings : bundles[i] \in ToSet(bundles)
    BY <2>2 DEF ToSet
  <2> HIDE DEF bundles
  <2>4. bundles \in [1..Len(findings) -> ToSet(bundles)]
    BY <2>1, <2>2, <2>3
  <2> QED
    BY <2>1, <2>2, <2>3, <2>4 DEF bundles
<1>12. ASSUME NEW m \in DOMAIN findings, NEW n \in DOMAIN findings, m # n
       PROVE  findings[m].id # findings[n].id
  <2>1. ASSUME NEW u \in DOMAIN findings, NEW w \in DOMAIN findings, u < w
        PROVE  findings[u].id # findings[w].id
    <3>1. PICK i \in DOMAIN scored, j \in DOMAIN scored :
            i # j /\ findings[u] = scored[i] /\ findings[w] = scored[j]
      BY <1>7, <2>1
    <3>2. scored[i].id # scored[j].id
      BY <1>6, <3>1
    <3> QED
      BY <3>1, <3>2
  <2>2. m \in Nat /\ n \in Nat
    BY <1>7
  <2> QED
    BY <1>12, <2>1, <2>2
<1>13. \A n \in DOMAIN findings : findings[n].severity \in DOMAIN SeverityBase
  BY <1>6, <1>7
<1> QED
  BY <1>3, <1>7, <1>8, <1>9, <1>11, <1>12, <1>13 DEF Documented, r

(* The formats of a report (findings/reporting.py) say the same of the     *)
(* same findings, and --confirmed-only (cli/main.py) keeps what is proven, *)
(* whatever the scan found and however it was ordered.                     *)
THEOREM ReportsAgreeHolds == Spec => []ReportsAgree
<1>1. AnswerInv => ReportsAgree
  <2> DEFINE r == ReportOf(call.of)
  <2> SUFFICES ASSUME AnswerInv, Answers("report")
               PROVE  ReportsAgree
    BY DEF ReportsAgree
  <2>1. call.of \in Outcomes
    BY DEF AnswerInv, Answers, Calls
  <2>2. answer = [full |-> Render(r), confirmed |-> Render(FilterConfirmed(r))]
    BY DEF AnswerInv
  <2>3. answer.full = Render(r) /\ answer.confirmed = Render(FilterConfirmed(r))
    BY <2>2, Zenon
  <2>4. Documented(r) /\ FilterConfirmed(r).proofs # Absent /\ DetailLimit \in Nat
    BY <2>1, ReportIsDocumented, OutcomesAssumption
  <2> HIDE DEF r
  <2>5. Documented(FilterConfirmed(r))
    BY <2>4, FilteredIsDocumented
  <2>6. Agree(answer.full) /\ Agree(answer.confirmed)
    BY <2>3, <2>4, <2>5, FormatsAgree
  <2>7. Keeps(answer.full, answer.confirmed)
    BY <2>3, <2>4, ConfirmedIsKept
  <2>8. \A view \in {answer.full, answer.confirmed} : Agree(view)
    BY <2>6
  <2> QED
    BY <2>7, <2>8, Zenon DEF ReportsAgree, Agree, Keeps
<1> QED
  BY <1>1, AnswerInvHolds, PTL

-----------------------------------------------------------------------------
(* Induction over the numbers up to N.                                     *)
LEMMA UpTo ==
  ASSUME NEW N \in Nat, NEW T, 0 \in T, \A n \in 1 .. N : n - 1 \in T => n \in T
  PROVE  \A n \in 0 .. N : n \in T
<1> DEFINE bad == {n \in 0 .. N : n \notin T}
<1> SUFFICES ASSUME bad # {} PROVE FALSE
  OBVIOUS
<1>1. bad \subseteq Nat
  OBVIOUS
<1>2. PICK m \in bad : \A n \in bad : m <= n
  <2> HIDE DEF bad
  <2> QED
    BY <1>1, LeastNatural
<1>3. m \in 1 .. N /\ m - 1 \in 0 .. N /\ m - 1 \notin bad
  BY <1>2
<1> QED
  BY <1>2, <1>3

(* Operators over two trees of a set.                                      *)
Pairs(trees) == [op : {"OR", "AND"}, left : trees, right : trees]

(* The trees of each depth are the smaller ones, and operators over them.  *)
LEMMA TreesGrow ==
  /\ Trees[0] = [op : {"id"}, id : Licenses]
  /\ \A n \in 1 .. MaxDepth : Trees[n] = Trees[n - 1] \cup Pairs(Trees[n - 1])
<1> DEFINE leaves == [op : {"id"}, id : Licenses]
           Body(m, f) == [n \in 0 .. m |-> IF n = 0 THEN leaves ELSE f[n - 1] \cup Pairs(f[n - 1])]
           T == {m \in 0 .. MaxDepth : \E f : f = Body(m, f)}
<1>1. Trees = CHOOSE f : f = Body(MaxDepth, f)
  BY DEF Trees, Pairs
<1> HIDE DEF leaves
<1>2. MaxDepth \in Nat
  BY ExpressionsAssumption
<1>3. 0 \in T
  <2> DEFINE f == [n \in 0 .. 0 |-> leaves]
  <2>1. f = Body(0, f)
    OBVIOUS
  <2> HIDE DEF f
  <2>2. 0 \in 0 .. MaxDepth
    BY <1>2
  <2> QED
    BY <2>1, <2>2
<1>4. ASSUME NEW m \in 1 .. MaxDepth, m - 1 \in T PROVE m \in T
  <2>1. PICK f : f = Body(m - 1, f)
    BY <1>4
  <2> DEFINE last == f[m - 1] \cup Pairs(f[m - 1])
             g == [n \in 0 .. m |-> IF n = m THEN last ELSE f[n]]
  <2>2. m - 1 \in 0 .. m /\ m - 1 # m /\ m \in 0 .. MaxDepth
    BY <1>2
  <2>3. ASSUME NEW n \in 0 .. m PROVE g[n] = IF n = 0 THEN leaves ELSE g[n - 1] \cup Pairs(g[n - 1])
    <3>1. CASE n = m
      BY <2>2, <3>1
    <3>2. CASE n # m
      <4>1. n \in 0 .. m - 1 /\ g[n] = f[n] /\ (n # 0 => n - 1 \in 0 .. m /\ g[n - 1] = f[n - 1])
        BY <2>2, <3>2
      <4>2. f[n] = IF n = 0 THEN leaves ELSE f[n - 1] \cup Pairs(f[n - 1])
        BY <2>1, <4>1
      <4> HIDE DEF g
      <4> QED
        BY <4>1, <4>2
    <3> QED
      BY <3>1, <3>2
  <2>4. g = Body(m, g)
    BY <2>3
  <2> HIDE DEF g, Body
  <2> QED
    BY <2>2, <2>4
<1>5. MaxDepth \in T
  <2> HIDE DEF T
  <2>1. \A n \in 0 .. MaxDepth : n \in T
    BY <1>2, <1>3, <1>4, UpTo
  <2> QED
    BY <1>2, <2>1
<1>6. Trees = Body(MaxDepth, Trees)
  <2> HIDE DEF Body
  <2> QED
    BY <1>1, <1>5
<1>7. \A n \in 0 .. MaxDepth :
        Trees[n] = IF n = 0 THEN leaves ELSE Trees[n - 1] \cup Pairs(Trees[n - 1])
  <2> DEFINE B == Body(MaxDepth, Trees)
  <2>1. \A n \in 0 .. MaxDepth : B[n] = IF n = 0 THEN leaves ELSE Trees[n - 1] \cup Pairs(Trees[n - 1])
    OBVIOUS
  <2> HIDE DEF B
  <2> QED
    BY <1>6, <2>1 DEF B
<1>8. 0 \in 0 .. MaxDepth /\ \A n \in 1 .. MaxDepth : n \in 0 .. MaxDepth /\ n # 0
  BY <1>2
<1> QED
  BY <1>7, <1>8 DEF leaves

IsPair(tree, trees) == tree.op \in {"OR", "AND"} /\ tree.left \in trees /\ tree.right \in trees

(* A tree is a licence, or an operator over two trees no deeper than it.   *)
LEMMA TreesHaveParts ==
  \A n \in 0 .. MaxDepth : \A tree \in Trees[n] :
    \/ tree \in Trees[0] /\ tree.op = "id" /\ tree.id \in Licenses
    \/ tree \notin Trees[0] /\ IsPair(tree, Trees[n])
<1> DEFINE shaped(tree, n) ==
             \/ tree \in Trees[0] /\ tree.op = "id" /\ tree.id \in Licenses
             \/ tree \notin Trees[0] /\ IsPair(tree, Trees[n])
           T == {n \in 0 .. MaxDepth : \A tree \in Trees[n] : shaped(tree, n)}
<1>1. MaxDepth \in Nat
  BY ExpressionsAssumption
<1>2. \A tree \in Trees[0] : tree.op = "id" /\ tree.id \in Licenses
  BY TreesGrow
<1>3. 0 \in T
  BY <1>1, <1>2
<1>4. ASSUME NEW n \in 1 .. MaxDepth, n - 1 \in T PROVE n \in T
  <2>1. Trees[n] = Trees[n - 1] \cup Pairs(Trees[n - 1])
    BY TreesGrow
  <2>2. \A tree \in Trees[n - 1] : shaped(tree, n)
    BY <1>4, <2>1 DEF IsPair
  <2>3. \A tree \in Pairs(Trees[n - 1]) : IsPair(tree, Trees[n]) /\ tree.op # "id"
    BY <2>1 DEF Pairs, IsPair
  <2>4. \A tree \in Pairs(Trees[n - 1]) : shaped(tree, n)
    BY <1>2, <2>3
  <2> HIDE DEF shaped
  <2> QED
    BY <2>1, <2>2, <2>4
<1> HIDE DEF T
<1>5. \A n \in 0 .. MaxDepth : n \in T
  BY <1>1, <1>3, <1>4, UpTo
<1> QED
  BY <1>5 DEF T

(* The parts of an expression are expressions.                             *)
LEMMA ExpressionsHaveParts ==
  /\ Trees[0] \subseteq Expressions
  /\ \A tree \in Expressions :
       \/ tree \in Trees[0] /\ tree.op = "id" /\ tree.id \in Licenses
       \/ tree \notin Trees[0] /\ IsPair(tree, Expressions)
<1> DEFINE T == {n \in 0 .. MaxDepth : Trees[0] \subseteq Trees[n]}
<1>1. MaxDepth \in Nat
  BY ExpressionsAssumption
<1>2. 0 \in T
  BY <1>1
<1>3. \A n \in 1 .. MaxDepth : n - 1 \in T => n \in T
  BY <1>1, TreesGrow
<1> HIDE DEF T
<1>4. \A n \in 0 .. MaxDepth : n \in T
  BY <1>1, <1>2, <1>3, UpTo
<1>5. Trees[0] \subseteq Expressions
  BY <1>1, <1>4 DEF T, Expressions
<1> QED
  BY <1>1, <1>5, TreesHaveParts DEF Expressions

(* What holds of licences, and of an operator over trees whenever it does  *)
(* of these, holds of all expressions.                                     *)
LEMMA TreeByTree ==
  ASSUME NEW G, Trees[0] \subseteq G,
         \A tree \in Expressions : IsPair(tree, Expressions \cap G) => tree \in G
  PROVE  Expressions \subseteq G
<1> DEFINE T == {n \in 0 .. MaxDepth : Trees[n] \subseteq Expressions => Trees[n] \subseteq G}
<1>1. MaxDepth \in Nat
  BY ExpressionsAssumption
<1>2. 0 \in T
  BY <1>1
<1>3. ASSUME NEW n \in 1 .. MaxDepth, n - 1 \in T PROVE n \in T
  <2>1. Trees[n] = Trees[n - 1] \cup Pairs(Trees[n - 1])
    BY TreesGrow
  <2>2. SUFFICES ASSUME Trees[n] \subseteq Expressions, NEW tree \in Trees[n] PROVE tree \in G
    BY <1>1
  <2>3. Trees[n - 1] \subseteq Expressions \cap G
    BY <1>3, <2>1, <2>2
  <2>4. CASE tree \in Pairs(Trees[n - 1])
    <3>1. IsPair(tree, Expressions \cap G)
      BY <2>3, <2>4 DEF Pairs, IsPair
    <3> QED
      BY <2>2, <3>1
  <2> QED
    BY <2>1, <2>3, <2>4
<1> HIDE DEF T
<1>4. \A n \in 0 .. MaxDepth : n \in T
  BY <1>1, <1>2, <1>3, UpTo
<1> QED
  BY <1>1, <1>4 DEF T, Expressions

(* What is defined over trees by recursion: V gives it for licences, and H *)
(* for an operator, from what it is for the two operands.                  *)
IsComputed(S, V, H, trees, f) ==
  /\ f \in [trees -> S]
  /\ \A tree \in trees :
       f[tree] = IF tree \in Trees[0] THEN V[tree] ELSE H[tree][f[tree.left]][f[tree.right]]

(* There is such a function.                                               *)
LEMMA TreesCompute ==
  ASSUME NEW S, NEW V \in [Trees[0] -> S], NEW H \in [Expressions -> [S -> [S -> S]]]
  PROVE  \E f : IsComputed(S, V, H, Expressions, f)
<1> DEFINE T == {n \in 0 .. MaxDepth :
                   Trees[n] \subseteq Expressions => \E f : IsComputed(S, V, H, Trees[n], f)}
<1>1. MaxDepth \in Nat
  BY ExpressionsAssumption
<1>2. 0 \in T
  <2>1. IsComputed(S, V, H, Trees[0], V)
    BY DEF IsComputed
  <2> QED
    BY <1>1, <2>1
<1>3. ASSUME NEW n \in 1 .. MaxDepth, n - 1 \in T PROVE n \in T
  <2> DEFINE old == Trees[n - 1]
             new == Trees[n]
  <2>1. new = old \cup Pairs(old)
    BY TreesGrow
  <2>2. SUFFICES ASSUME new \subseteq Expressions
                 PROVE  \E f : IsComputed(S, V, H, new, f)
    BY <1>1
  <2>3. PICK f : IsComputed(S, V, H, old, f)
    BY <1>3, <2>1, <2>2
  <2>4. /\ \A tree \in old : tree \notin Trees[0] => tree.left \in old /\ tree.right \in old
        /\ \A tree \in new \ old : tree \notin Trees[0] /\ tree.left \in old /\ tree.right \in old
    <3>1. n - 1 \in 0 .. MaxDepth
      BY <1>1
    <3>2. \A tree \in old : tree \notin Trees[0] => tree.left \in old /\ tree.right \in old
      BY <3>1, TreesHaveParts DEF IsPair
    <3>3. \A tree \in Pairs(old) : tree.op # "id" /\ tree.left \in old /\ tree.right \in old
      BY DEF Pairs
    <3>4. \A tree \in Trees[0] : tree.op = "id"
      BY TreesGrow
    <3> QED
      BY <2>1, <3>2, <3>3, <3>4
  <2> HIDE DEF old, new
  <2> DEFINE up(tree) == H[tree][f[tree.left]][f[tree.right]]
             g == [tree \in new |-> IF tree \in old THEN f[tree] ELSE up(tree)]
  <2>5. old \subseteq new
    BY <2>1
  <2>6. f \in [old -> S]
    BY <2>3 DEF IsComputed
  <2>7. \A tree \in new \ old : up(tree) \in S
    BY <2>2, <2>4, <2>6
  <2>8. g \in [new -> S]
    BY <2>6, <2>7
  <2>9. /\ \A tree \in old : g[tree] = f[tree]
        /\ \A tree \in new \ old : g[tree] = up(tree)
    BY <2>5
  <2> HIDE DEF g
  <2>10. ASSUME NEW tree \in new
         PROVE  g[tree] = IF tree \in Trees[0] THEN V[tree] ELSE H[tree][g[tree.left]][g[tree.right]]
    <3>1. CASE tree \in old
      <4>1. g[tree] = IF tree \in Trees[0] THEN V[tree] ELSE up(tree)
        BY <2>3, <2>9, <3>1 DEF IsComputed
      <4> QED
        BY <2>4, <2>9, <3>1, <4>1
    <3>2. CASE tree \notin old
      BY <2>4, <2>9, <3>2
    <3> QED
      BY <3>1, <3>2
  <2>11. IsComputed(S, V, H, new, g)
    BY <2>8, <2>10 DEF IsComputed
  <2> QED
    BY <2>11
<1> HIDE DEF T
<1>4. \A n \in 0 .. MaxDepth : n \in T
  BY <1>1, <1>2, <1>3, UpTo
<1> QED
  BY <1>1, <1>4 DEF T, Expressions

Tokens == Licenses \cup {"id", "OR", "AND"} \cup Parens

Enclosed(tree, operand, s) ==
  IF tree.op = "AND" /\ operand.op = "OR" THEN <<"(">> \o s \o <<")">> ELSE s

(* An expression is written as its operands, with the operator between.    *)
LEMMA WrittenParts ==
  \A tree \in Expressions :
    /\ Written[tree] \in Seq(Tokens)
    /\ IF tree \in Trees[0] THEN Written[tree] = <<tree.id>>
       ELSE Written[tree] = Enclosed(tree, tree.left, Written[tree.left]) \o <<tree.op>>
                              \o Enclosed(tree, tree.right, Written[tree.right])
<1> DEFINE S == Seq(Tokens)
           Join(tree, a, b) == Enclosed(tree, tree.left, a) \o <<tree.op>> \o Enclosed(tree, tree.right, b)
           Body(w) == [tree \in Expressions |->
                         IF IsLeaf(tree) THEN <<tree.id>> ELSE Join(tree, w[tree.left], w[tree.right])]
           V == [tree \in Trees[0] |-> <<tree.id>>]
           H == [tree \in Expressions |-> [a \in S |-> [b \in S |-> Join(tree, a, b)]]]
<1>1. Written = CHOOSE w : w = Body(w)
  BY DEF Written, Enclosed
<1>2. \A tree \in Expressions :
        /\ tree.op \in Tokens /\ (tree \in Trees[0] <=> IsLeaf(tree))
        /\ tree \in Trees[0] => tree.id \in Tokens
        /\ tree \notin Trees[0] => tree.left \in Expressions /\ tree.right \in Expressions
  <2>1. \A tree \in Trees[0] : tree.op = "id" /\ tree.id \in Licenses
    BY TreesGrow
  <2> QED
    BY <2>1, ExpressionsHaveParts DEF IsPair, Tokens, IsLeaf
<1>3. ASSUME NEW tree, NEW operand, NEW a \in S PROVE Enclosed(tree, operand, a) \in S
  <2>1. <<"(">> \in S /\ <<")">> \in S
    BY DEF Tokens, Parens
  <2> QED
    BY <2>1 DEF Enclosed
<1>4. ASSUME NEW tree \in Expressions, NEW a \in S, NEW b \in S PROVE Join(tree, a, b) \in S
  <2>1. <<tree.op>> \in S
    BY <1>2
  <2>2. Enclosed(tree, tree.left, a) \in S /\ Enclosed(tree, tree.right, b) \in S
    BY <1>3
  <2> QED
    BY <2>1, <2>2
<1> HIDE DEF Join
<1>5. \A tree \in Trees[0] : <<tree.id>> \in S
  BY <1>2, ExpressionsHaveParts
<1> HIDE DEF S
<1>6. PICK f : IsComputed(S, V, H, Expressions, f)
  <2>1. V \in [Trees[0] -> S]
    BY <1>5
  <2>2. H \in [Expressions -> [S -> [S -> S]]]
    BY <1>4
  <2> HIDE DEF V, H
  <2> QED
    BY <2>1, <2>2, TreesCompute
<1>7. f = Body(f)
  <2>1. f \in [Expressions -> S]
    BY <1>6 DEF IsComputed
  <2>2. ASSUME NEW tree \in Expressions
        PROVE  f[tree] = IF IsLeaf(tree) THEN <<tree.id>> ELSE Join(tree, f[tree.left], f[tree.right])
    <3>1. f[tree] = IF tree \in Trees[0] THEN V[tree] ELSE H[tree][f[tree.left]][f[tree.right]]
      BY <1>6 DEF IsComputed
    <3>2. tree \notin Trees[0] => f[tree.left] \in S /\ f[tree.right] \in S
      BY <1>2, <2>1
    <3> QED
      BY <1>2, <3>1, <3>2
  <2> QED
    BY <2>1, <2>2
<1>8. Written = Body(Written)
  <2> HIDE DEF Body
  <2> QED
    BY <1>1, <1>7
<1>9. ASSUME NEW tree \in Expressions
      PROVE  Written[tree] = IF IsLeaf(tree) THEN <<tree.id>>
                             ELSE Join(tree, Written[tree.left], Written[tree.right])
  BY <1>8
<1> DEFINE G == {tree \in Expressions : Written[tree] \in S}
<1>10. Trees[0] \subseteq G
  BY <1>2, <1>5, <1>9, ExpressionsHaveParts
<1>11. ASSUME NEW tree \in Expressions, IsPair(tree, Expressions \cap G) PROVE tree \in G
  <2>1. tree.left \in G /\ tree.right \in G /\ ~IsLeaf(tree)
    BY <1>11 DEF IsPair, IsLeaf
  <2> QED
    BY <1>4, <1>9, <2>1
<1> HIDE DEF G
<1>12. Expressions \subseteq G
  BY <1>10, <1>11, TreeByTree
<1> QED
  BY <1>2, <1>9, <1>12 DEF G, S, Join

-----------------------------------------------------------------------------
Classes == {"GREEN", "YELLOW", "UNKNOWN", "RED"}

(* A set of classes has a strictest one and a mildest one, and only one.   *)
LEMMA StrictestIs ==
  ASSUME NEW A \in SUBSET Classes, A # {}
  PROVE  /\ Strictest(A) \in A /\ \A d \in A : Severity(d) <= Severity(Strictest(A))
         /\ \A c \in A : (\A d \in A : Severity(d) <= Severity(c)) => Strictest(A) = c
<1>1. /\ Severity("GREEN") = 0 /\ Severity("YELLOW") = 1
      /\ Severity("UNKNOWN") = 2 /\ Severity("RED") = 3
  BY DEF Severity
<1>2. \E c \in A : \A d \in A : Severity(d) <= Severity(c)
  <2>1. \A d \in A : d \in {"GREEN", "YELLOW", "UNKNOWN", "RED"}
    BY DEF Classes
  <2>2. CASE "RED" \in A
    BY <1>1, <2>1, <2>2
  <2>3. CASE "UNKNOWN" \in A /\ "RED" \notin A
    BY <1>1, <2>1, <2>3
  <2>4. CASE "YELLOW" \in A /\ "RED" \notin A /\ "UNKNOWN" \notin A
    BY <1>1, <2>1, <2>4
  <2>5. CASE "GREEN" \in A /\ "RED" \notin A /\ "UNKNOWN" \notin A /\ "YELLOW" \notin A
    BY <1>1, <2>1, <2>5
  <2> QED
    BY <2>1, <2>2, <2>3, <2>4, <2>5
<1>3. Strictest(A) \in A /\ \A d \in A : Severity(d) <= Severity(Strictest(A))
  BY <1>2 DEF Strictest
<1>4. \A c, d \in Classes : Severity(c) <= Severity(d) /\ Severity(d) <= Severity(c) => c = d
  BY <1>1 DEF Classes
<1> QED
  BY <1>3, <1>4

LEMMA MildestIs ==
  ASSUME NEW A \in SUBSET Classes, A # {}
  PROVE  /\ Mildest(A) \in A /\ \A d \in A : Severity(Mildest(A)) <= Severity(d)
         /\ \A c \in A : (\A d \in A : Severity(c) <= Severity(d)) => Mildest(A) = c
<1>1. /\ Severity("GREEN") = 0 /\ Severity("YELLOW") = 1
      /\ Severity("UNKNOWN") = 2 /\ Severity("RED") = 3
  BY DEF Severity
<1>2. \E c \in A : \A d \in A : Severity(c) <= Severity(d)
  <2>1. \A d \in A : d \in {"GREEN", "YELLOW", "UNKNOWN", "RED"}
    BY DEF Classes
  <2>2. CASE "GREEN" \in A
    BY <1>1, <2>1, <2>2
  <2>3. CASE "YELLOW" \in A /\ "GREEN" \notin A
    BY <1>1, <2>1, <2>3
  <2>4. CASE "UNKNOWN" \in A /\ "GREEN" \notin A /\ "YELLOW" \notin A
    BY <1>1, <2>1, <2>4
  <2>5. CASE "RED" \in A /\ "GREEN" \notin A /\ "YELLOW" \notin A /\ "UNKNOWN" \notin A
    BY <1>1, <2>1, <2>5
  <2> QED
    BY <2>1, <2>2, <2>3, <2>4, <2>5
<1>3. Mildest(A) \in A /\ \A d \in A : Severity(Mildest(A)) <= Severity(d)
  BY <1>2 DEF Mildest
<1>4. \A c, d \in Classes : Severity(c) <= Severity(d) /\ Severity(d) <= Severity(c) => c = d
  BY <1>1 DEF Classes
<1> QED
  BY <1>3, <1>4

(* The strictest of two sets is the stricter of the strictest of each; so  *)
(* it is with the mildest.                                                 *)
LEMMA StrictestOfTwo ==
  ASSUME NEW A \in SUBSET Classes, A # {}, NEW B \in SUBSET Classes, B # {}
  PROVE  Strictest(A \cup B) = Strictest({Strictest(A), Strictest(B)})
<1> DEFINE a == Strictest(A)
           b == Strictest(B)
           c == Strictest({a, b})
<1>1. \A x \in Classes : Severity(x) \in Nat
  BY DEF Classes, Severity
<1>2. a \in A /\ b \in B /\ (\A d \in A : Severity(d) <= Severity(a))
                    /\ (\A d \in B : Severity(d) <= Severity(b))
  BY StrictestIs
<1> HIDE DEF a, b
<1>3. c \in {a, b} /\ \A d \in {a, b} : Severity(d) <= Severity(c)
  BY <1>2, StrictestIs
<1> HIDE DEF c
<1>4. c \in A \cup B /\ \A d \in A \cup B : Severity(d) <= Severity(c)
  BY <1>1, <1>2, <1>3
<1>5. Strictest(A \cup B) = c
  BY <1>4, StrictestIs
<1> QED
  BY <1>5 DEF a, b, c

LEMMA MildestOfTwo ==
  ASSUME NEW A \in SUBSET Classes, A # {}, NEW B \in SUBSET Classes, B # {}
  PROVE  Mildest(A \cup B) = Mildest({Mildest(A), Mildest(B)})
<1> DEFINE a == Mildest(A)
           b == Mildest(B)
           c == Mildest({a, b})
<1>1. \A x \in Classes : Severity(x) \in Nat
  BY DEF Classes, Severity
<1>2. a \in A /\ b \in B /\ (\A d \in A : Severity(a) <= Severity(d))
                    /\ (\A d \in B : Severity(b) <= Severity(d))
  BY MildestIs
<1> HIDE DEF a, b
<1>3. c \in {a, b} /\ \A d \in {a, b} : Severity(c) <= Severity(d)
  BY <1>2, MildestIs
<1> HIDE DEF c
<1>4. c \in A \cup B /\ \A d \in A \cup B : Severity(c) <= Severity(d)
  BY <1>1, <1>2, <1>3
<1>5. Mildest(A \cup B) = c
  BY <1>4, MildestIs
<1> QED
  BY <1>5 DEF a, b, c

(* A licence is looked up as one of the classes.                           *)
LEMMA LookedUp == \A s : LookUp(s) \in Classes
BY PolicyAssumption DEF LookUp, Classes

(* What an expression obliges to is a class, of a licence the one it is    *)
(* looked up as, of an operator the milder or stricter of its operands'.   *)
LEMMA ObligesParts ==
  \A tree \in Expressions :
    /\ Obliges[tree] \in Classes
    /\ tree \in Trees[0] => Obliges[tree] = LookUp(<<tree.id>>)
    /\ tree.op = "OR" => Obliges[tree] = Mildest({Obliges[tree.left], Obliges[tree.right]})
    /\ tree.op = "AND" => Obliges[tree] = Strictest({Obliges[tree.left], Obliges[tree.right]})
<1> DEFINE S == Classes
           Joined(tree, a, b) == IF tree.op = "OR" THEN Mildest({a, b}) ELSE Strictest({a, b})
           Body(w) == [tree \in Expressions |->
                         IF IsLeaf(tree) THEN LookUp(<<tree.id>>)
                         ELSE Joined(tree, w[tree.left], w[tree.right])]
           V == [tree \in Trees[0] |-> LookUp(<<tree.id>>)]
           H == [tree \in Expressions |-> [a \in S |-> [b \in S |-> Joined(tree, a, b)]]]
<1>1. Obliges = CHOOSE w : w = Body(w)
  BY DEF Obliges
<1>2. \A tree \in Expressions :
        \/ tree \in Trees[0] /\ IsLeaf(tree) /\ tree.op = "id"
        \/ tree \notin Trees[0] /\ ~IsLeaf(tree) /\ tree.op \in {"OR", "AND"}
             /\ tree.left \in Expressions /\ tree.right \in Expressions
  BY ExpressionsHaveParts DEF IsPair, IsLeaf
<1>3. ASSUME NEW a \in S, NEW b \in S
      PROVE  Mildest({a, b}) \in S /\ Strictest({a, b}) \in S
  <2>1. {a, b} \in SUBSET Classes /\ {a, b} # {}
    OBVIOUS
  <2> QED
    BY <2>1, MildestIs, StrictestIs
<1>4. \A tree \in Trees[0] : LookUp(<<tree.id>>) \in S
  BY LookedUp
<1> HIDE DEF S
<1>5. PICK f : IsComputed(S, V, H, Expressions, f)
  <2>1. V \in [Trees[0] -> S]
    BY <1>4
  <2>2. H \in [Expressions -> [S -> [S -> S]]]
    BY <1>3
  <2> HIDE DEF V, H
  <2> QED
    BY <2>1, <2>2, TreesCompute
<1>6. f = Body(f)
  <2>1. f \in [Expressions -> S]
    BY <1>5 DEF IsComputed
  <2>2. ASSUME NEW tree \in Expressions PROVE f[tree] = Body(f)[tree]
    <3>1. f[tree] = IF tree \in Trees[0] THEN V[tree] ELSE H[tree][f[tree.left]][f[tree.right]]
      BY <1>5 DEF IsComputed
    <3>2. tree \notin Trees[0] => f[tree.left] \in S /\ f[tree.right] \in S
      BY <1>2, <2>1
    <3>3. CASE tree \in Trees[0]
      BY <1>2, <3>1, <3>3
    <3>4. CASE tree \notin Trees[0]
      <4>1. f[tree] = Joined(tree, f[tree.left], f[tree.right])
        BY <3>1, <3>2, <3>4
      <4> QED
        BY <1>2, <3>4, <4>1
    <3> QED
      BY <3>3, <3>4
  <2> QED
    BY <2>1, <2>2
<1>7. Obliges = Body(Obliges)
  <2> HIDE DEF Body
  <2> QED
    BY <1>1, <1>6
<1>8. ASSUME NEW tree \in Expressions
      PROVE  Obliges[tree] = IF IsLeaf(tree) THEN LookUp(<<tree.id>>)
                               ELSE Joined(tree, Obliges[tree.left], Obliges[tree.right])
  BY <1>7
<1> DEFINE G == {tree \in Expressions : Obliges[tree] \in S}
<1>9. Trees[0] \subseteq G
  BY <1>2, <1>4, <1>8, ExpressionsHaveParts
<1>10. ASSUME NEW tree \in Expressions, IsPair(tree, Expressions \cap G) PROVE tree \in G
  <2>1. Obliges[tree.left] \in S /\ Obliges[tree.right] \in S /\ ~IsLeaf(tree)
    BY <1>10 DEF IsPair, IsLeaf
  <2> QED
    BY <1>3, <1>8, <2>1
<1> HIDE DEF G
<1>11. Expressions \subseteq G
  BY <1>9, <1>10, TreeByTree
<1> QED
  BY <1>2, <1>8, <1>11 DEF G, S
-----------------------------------------------------------------------------
(* Where an expression is cut at op, and two cuts next to one another with *)
(* something between them.                                                 *)
Cuts(s, op) == {0, Len(s) + 1} \cup {i \in DOMAIN s : s[i] = op}
IsPart(s, op, a, b) ==
  /\ a \in Cuts(s, op) /\ b \in Cuts(s, op) /\ a + 1 < b
  /\ \A k \in Cuts(s, op) : k <= a \/ b <= k

Bare == Licenses \cup {"id", "OR", "AND"}

(* The cuts are natural numbers, those of the ends among them.             *)
LEMMA CutsAreNumbers ==
  ASSUME NEW s \in Seq(Bare), NEW op
  PROVE  \A k : k \in Cuts(s, op) <=> k \in 0 .. Len(s) + 1
                                      /\ (k \in {0, Len(s) + 1} \/ s[k] = op)
<1>1. Len(s) \in Nat /\ DOMAIN s = 1 .. Len(s)
  OBVIOUS
<1> QED
  BY <1>1 DEF Cuts

(* An expression without parentheses has nothing to strip.                 *)
LEMMA NothingStripped ==
  ASSUME NEW s \in Seq(Bare), s # <<>>
  PROVE  Stripped(s) = s
<1> DEFINE kept == {i \in DOMAIN s : s[i] \notin Parens}
<1>1. Len(s) \in Nat /\ DOMAIN s = 1 .. Len(s) /\ 1 <= Len(s)
  OBVIOUS
<1>2. \A i \in DOMAIN s : s[i] \in Bare
  BY <1>1
<1>3. Bare \cap Parens = {}
  BY ExpressionsAssumption DEF Bare, Parens
<1>4. kept = 1 .. Len(s)
  BY <1>1, <1>2, <1>3
<1> DEFINE first == CHOOSE i \in kept : \A k \in kept : i <= k
           last == CHOOSE j \in kept : \A k \in kept : k <= j
<1>5. first = 1 /\ last = Len(s)
  BY <1>1, <1>4
<1>6. kept # {}
  BY <1>1, <1>4
<1>7. Stripped(s) = SubSeq(s, first, last)
  BY <1>6, Zenon DEF Stripped
<1> HIDE DEF first, last
<1> QED
  BY <1>1, <1>5, <1>7

(* The parts are what is between neighbouring cuts, and not empty.         *)
LEMMA PartsOf ==
  ASSUME NEW s \in Seq(Bare), NEW op
  PROVE  /\ Split(s, op) = {SubSeq(s, c[1] + 1, c[2] - 1) :
                              c \in {d \in Cuts(s, op) \X Cuts(s, op) : IsPart(s, op, d[1], d[2])}}
         /\ \A part \in Split(s, op) : part \in Seq(Bare) /\ part # <<>>
<1> DEFINE D == {d \in Cuts(s, op) \X Cuts(s, op) : IsPart(s, op, d[1], d[2])}
           piece(c) == SubSeq(s, c[1] + 1, c[2] - 1)
<1>1. Split(s, op) = {Stripped(piece(c)) : c \in D}
  BY DEF Split, Cuts, IsPart
<1>2. ASSUME NEW c \in D PROVE piece(c) \in Seq(Bare) /\ piece(c) # <<>>
  <2>1. c[1] \in 0 .. Len(s) + 1 /\ c[2] \in 0 .. Len(s) + 1 /\ c[1] + 1 < c[2]
    BY CutsAreNumbers DEF IsPart
  <2>2. Len(s) \in Nat /\ \A i \in 1 .. Len(s) : s[i] \in Bare
    OBVIOUS
  <2>3. ASSUME NEW i \in 0 .. Len(s) + 1, NEW j \in 0 .. Len(s) + 1, i + 1 < j
        PROVE  SubSeq(s, i + 1, j - 1) \in Seq(Bare) /\ SubSeq(s, i + 1, j - 1) # <<>>
    <3>1. SubSeq(s, i + 1, j - 1) \in Seq(Bare)
      BY <2>2, <2>3
    <3>2. Len(SubSeq(s, i + 1, j - 1)) = j - 1 - i
      BY <2>2, <2>3
    <3> QED
      BY <2>2, <2>3, <3>1, <3>2
  <2> HIDE DEF D
  <2> QED
    BY <2>1, <2>3
<1> HIDE DEF D, piece
<1>3. \A c \in D : Stripped(piece(c)) = piece(c)
  BY <1>2, NothingStripped
<1>4. Split(s, op) = {piece(c) : c \in D}
  BY <1>1, <1>3
<1> QED
  BY <1>2, <1>4 DEF D, piece

(* An expression op does not occur in is its only part.                    *)
LEMMA SplitNowhere ==
  ASSUME NEW s \in Seq(Bare), s # <<>>, NEW op, ~Has(s, op)
  PROVE  Split(s, op) = {s}
<1>1. Len(s) \in Nat /\ 1 <= Len(s) /\ DOMAIN s = 1 .. Len(s) /\ SubSeq(s, 1, Len(s)) = s
  OBVIOUS
<1>2. Cuts(s, op) = {0, Len(s) + 1}
  BY <1>1 DEF Cuts, Has
<1>3. \A a, b : IsPart(s, op, a, b) <=> a = 0 /\ b = Len(s) + 1
  BY <1>1, <1>2 DEF IsPart
<1> DEFINE D == {d \in Cuts(s, op) \X Cuts(s, op) : IsPart(s, op, d[1], d[2])}
<1>4. D = {<<0, Len(s) + 1>>}
  BY <1>2, <1>3
<1> HIDE DEF D
<1>5. Split(s, op) = {SubSeq(s, c[1] + 1, c[2] - 1) : c \in D}
  BY PartsOf DEF D
<1> DEFINE c0 == <<0, Len(s) + 1>>
<1>6. c0[1] = 0 /\ c0[2] = Len(s) + 1
  OBVIOUS
<1> HIDE DEF c0
<1>7. Split(s, op) = {SubSeq(s, c0[1] + 1, c0[2] - 1)}
  BY <1>4, <1>5 DEF c0
<1>8. c0[1] + 1 = 1 /\ c0[2] - 1 = Len(s)
  BY <1>1, <1>6
<1> QED
  BY <1>1, <1>7, <1>8

(* Sequences with the same elements at the same places are equal.          *)
LEMMA SameSequence ==
  ASSUME NEW s \in Seq(Bare), NEW t \in Seq(Bare),
         Len(s) = Len(t), \A i \in 1 .. Len(s) : s[i] = t[i]
  PROVE  s = t
OBVIOUS

(* The same tokens, from one place of a sequence and from another of a     *)
(* second.                                                                 *)
LEMMA SameSlice ==
  ASSUME NEW s \in Seq(Bare), NEW t \in Seq(Bare), NEW d \in Nat, NEW a \in Nat, NEW b \in Nat,
         a + 1 < b, b - 1 <= Len(t), d + b - 1 <= Len(s), \A k \in a + 1 .. b - 1 : s[d + k] = t[k]
  PROVE  SubSeq(s, d + a + 1, d + b - 1) = SubSeq(t, a + 1, b - 1)
<1> DEFINE x == SubSeq(s, d + a + 1, d + b - 1)
           y == SubSeq(t, a + 1, b - 1)
           n == b - 1 - a
<1>1. n \in Nat /\ Len(s) \in Nat /\ Len(t) \in Nat
  OBVIOUS
<1>2. x \in Seq(Bare) /\ Len(x) = n /\ \A i \in 1 .. n : x[i] = s[d + a + i]
  OBVIOUS
<1>3. y \in Seq(Bare) /\ Len(y) = n /\ \A i \in 1 .. n : y[i] = t[a + i]
  OBVIOUS
<1>4. ASSUME NEW i \in 1 .. n PROVE s[d + a + i] = t[a + i]
  <2>1. a + i \in a + 1 .. b - 1 /\ d + (a + i) = d + a + i
    BY <1>1
  <2> QED
    BY <2>1
<1> HIDE DEF x, y, n
<1>5. x \in Seq(Bare) /\ y \in Seq(Bare) /\ Len(x) = Len(y) /\ \A i \in 1 .. Len(x) : x[i] = y[i]
  BY <1>2, <1>3, <1>4
<1>6. x = y
  BY <1>5, SameSequence, Zenon
<1> QED
  BY <1>6 DEF x, y

(* Two expressions with op between them are split into the parts of both.  *)
LEMMA SplitJoin ==
  ASSUME NEW u \in Seq(Bare), NEW v \in Seq(Bare), NEW op \in Bare
  PROVE  Split(u \o <<op>> \o v, op) = Split(u, op) \cup Split(v, op)
<1> DEFINE w == u \o <<op>> \o v
           m == Len(u) + 1
<1>1. Len(u) \in Nat /\ Len(v) \in Nat /\ m \in Nat /\ m = Len(u) + 1
  OBVIOUS
<1>2. /\ w \in Seq(Bare) /\ Len(w) = m + Len(v)
      /\ \A i \in 1 .. Len(u) : w[i] = u[i]
      /\ w[m] = op
      /\ \A i \in 1 .. Len(v) : w[m + i] = v[i]
  OBVIOUS
<1> HIDE DEF w
<1>3. /\ \A k : k \in Cuts(u, op) <=> k \in 0 .. m /\ (k \in {0, m} \/ u[k] = op)
      /\ \A k : k \in Cuts(v, op) <=> k \in 0 .. Len(v) + 1 /\ (k \in {0, Len(v) + 1} \/ v[k] = op)
      /\ \A k : k \in Cuts(w, op) <=> k \in 0 .. Len(w) + 1 /\ (k \in {0, Len(w) + 1} \/ w[k] = op)
  BY <1>2, CutsAreNumbers
<1> HIDE DEF m
<1>4. ASSUME NEW k PROVE (k \in Cuts(w, op) /\ k <= m) <=> k \in Cuts(u, op)
  <2>1. k \in Cuts(u, op) => k \in 0 .. m
    BY <1>3
  <2>2. (k \in Cuts(w, op) /\ k <= m) => k \in 0 .. m
    BY <1>1, <1>2, <1>3
  <2>3. CASE k \in {0, m}
    BY <1>1, <1>2, <1>3, <2>3
  <2>4. CASE k \in 1 .. Len(u)
    <3>1. w[k] = u[k]
      BY <1>2, <2>4
    <3>2. /\ k \in 0 .. m /\ k <= m /\ k \in 0 .. Len(w) + 1
          /\ k # 0 /\ k # m /\ k # Len(w) + 1
      BY <1>1, <1>2, <2>4
    <3> QED
      BY <1>3, <3>1, <3>2
  <2> QED
    BY <1>1, <2>1, <2>2, <2>3, <2>4
<1>5. ASSUME NEW k \in Nat PROVE m + k \in Cuts(w, op) <=> k \in Cuts(v, op)
  <2>1. k \in Cuts(v, op) => k \in 0 .. Len(v) + 1
    BY <1>3
  <2>2. m + k \in Cuts(w, op) => k \in 0 .. Len(v) + 1
    BY <1>1, <1>2, <1>3
  <2>3. CASE k = 0
    BY <1>1, <1>2, <1>3, <2>3
  <2>4. CASE k = Len(v) + 1
    <3>1. m + k = Len(w) + 1 /\ Len(w) + 1 \in 0 .. Len(w) + 1 /\ k \in 0 .. Len(v) + 1
      BY <1>1, <1>2, <2>4
    <3> QED
      BY <1>3, <2>4, <3>1
  <2>5. CASE k \in 1 .. Len(v)
    <3>1. w[m + k] = v[k]
      BY <1>2, <2>5
    <3>2. /\ m + k \in 0 .. Len(w) + 1 /\ k \in 0 .. Len(v) + 1
          /\ k # 0 /\ k # Len(v) + 1 /\ m + k # 0 /\ m + k # Len(w) + 1
      BY <1>1, <1>2, <2>5
    <3> QED
      BY <1>3, <3>1, <3>2
  <2> QED
    BY <1>1, <2>1, <2>2, <2>3, <2>4, <2>5
<1>6. m \in Cuts(w, op) /\ \A k \in Cuts(w, op) : k \in Nat
  BY <1>1, <1>2, <1>3
<1>7. ASSUME NEW a \in 0 .. m, NEW b \in 0 .. m
      PROVE  IsPart(w, op, a, b) <=> IsPart(u, op, a, b)
  BY <1>1, <1>3, <1>4, <1>6, <1>7 DEF IsPart
<1>8. ASSUME NEW a \in 0 .. Len(v) + 1, NEW b \in 0 .. Len(v) + 1
      PROVE  IsPart(w, op, m + a, m + b) <=> IsPart(v, op, a, b)
  <2>1. ASSUME IsPart(w, op, m + a, m + b) PROVE IsPart(v, op, a, b)
    <3>1. a \in Cuts(v, op) /\ b \in Cuts(v, op) /\ a + 1 < b
      BY <1>1, <1>5, <2>1 DEF IsPart
    <3>2. ASSUME NEW k \in Cuts(v, op) PROVE k <= a \/ b <= k
      <4>1. k \in Nat /\ m + k \in Cuts(w, op)
        BY <1>1, <1>3, <1>5
      <4> QED
        BY <1>1, <2>1, <4>1 DEF IsPart
    <3> QED
      BY <3>1, <3>2 DEF IsPart
  <2>2. ASSUME IsPart(v, op, a, b) PROVE IsPart(w, op, m + a, m + b)
    <3>1. m + a \in Cuts(w, op) /\ m + b \in Cuts(w, op) /\ m + a + 1 < m + b
      BY <1>1, <1>5, <2>2 DEF IsPart
    <3>2. ASSUME NEW k \in Cuts(w, op) PROVE k <= m + a \/ m + b <= k
      <4>1. CASE k <= m
        BY <1>1, <1>6, <4>1
      <4>2. CASE k > m
        <5>1. k - m \in Nat /\ m + (k - m) = k
          BY <1>1, <1>6, <4>2
        <5>2. k - m \in Cuts(v, op)
          BY <1>5, <5>1
        <5>3. k - m <= a \/ b <= k - m
          BY <2>2, <5>2 DEF IsPart
        <5> QED
          BY <1>1, <1>6, <5>3
      <4> QED
        BY <1>1, <1>6, <4>1, <4>2
    <3> QED
      BY <3>1, <3>2 DEF IsPart
  <2> QED
    BY <2>1, <2>2
<1>9. ASSUME NEW a, NEW b, IsPart(w, op, a, b)
      PROVE  \/ a \in 0 .. m /\ b \in 0 .. m
             \/ \E i, j \in 0 .. Len(v) + 1 : a = m + i /\ b = m + j
  <2>1. a \in 0 .. Len(w) + 1 /\ b \in 0 .. Len(w) + 1 /\ a + 1 < b /\ (m <= a \/ b <= m)
    BY <1>3, <1>6, <1>9 DEF IsPart
  <2>2. CASE m <= a
    <3>1. a - m \in 0 .. Len(v) + 1 /\ b - m \in 0 .. Len(v) + 1 /\ a = m + (a - m) /\ b = m + (b - m)
      BY <1>1, <1>2, <2>1, <2>2
    <3> QED
      BY <3>1
  <2>3. CASE b <= m
    BY <1>1, <2>1, <2>3
  <2> QED
    BY <2>1, <2>2, <2>3
<1>10. ASSUME NEW a \in 0 .. m, NEW b \in 0 .. m, a + 1 < b
       PROVE  SubSeq(w, a + 1, b - 1) = SubSeq(u, a + 1, b - 1)
  <2>1. b - 1 <= Len(u) /\ 0 + b - 1 <= Len(w) /\ a \in Nat /\ b \in Nat
    BY <1>1, <1>2, <1>10
  <2>2. ASSUME NEW k \in a + 1 .. b - 1 PROVE w[0 + k] = u[k]
    <3>1. k \in 1 .. Len(u) /\ 0 + k = k
      BY <1>1, <2>1
    <3> QED
      BY <1>2, <3>1
  <2>3. SubSeq(w, 0 + a + 1, 0 + b - 1) = SubSeq(u, a + 1, b - 1)
    BY <1>2, <1>10, <2>1, <2>2, SameSlice
  <2>4. 0 + a + 1 = a + 1 /\ 0 + b - 1 = b - 1
    BY <2>1
  <2> QED
    BY <2>3, <2>4
<1>11. ASSUME NEW a \in 0 .. Len(v) + 1, NEW b \in 0 .. Len(v) + 1, a + 1 < b
       PROVE  SubSeq(w, m + a + 1, m + b - 1) = SubSeq(v, a + 1, b - 1)
  <2>1. b - 1 <= Len(v) /\ m + b - 1 <= Len(w) /\ a \in Nat /\ b \in Nat
    BY <1>1, <1>2, <1>11
  <2>2. ASSUME NEW k \in a + 1 .. b - 1 PROVE w[m + k] = v[k]
    <3>1. k \in 1 .. Len(v)
      BY <1>1, <2>1
    <3> QED
      BY <1>2, <3>1
  <2> QED
    <3>1. \A k \in a + 1 .. b - 1 : w[m + k] = v[k]
      BY <2>2
    <3>2. w \in Seq(Bare) /\ v \in Seq(Bare) /\ m \in Nat /\ a + 1 < b
      BY <1>1, <1>2, <1>11
    <3> QED
      BY <2>1, <3>1, <3>2, SameSlice
<1> DEFINE Piece(s, p) == \E a, b \in Nat : IsPart(s, op, a, b) /\ p = SubSeq(s, a + 1, b - 1)
<1>12. ASSUME NEW s \in Seq(Bare)
       PROVE  \A p : p \in Split(s, op) <=> Piece(s, p)
  <2>1. \A k \in Cuts(s, op) : k \in Nat
    BY CutsAreNumbers
  <2> DEFINE D == {d \in Cuts(s, op) \X Cuts(s, op) : IsPart(s, op, d[1], d[2])}
             piece(c) == SubSeq(s, c[1] + 1, c[2] - 1)
  <2>2. Split(s, op) = {piece(c) : c \in D}
    BY PartsOf
  <2>3. ASSUME NEW p \in Split(s, op) PROVE Piece(s, p)
    BY <2>1, <2>2
  <2>4. ASSUME NEW p, Piece(s, p) PROVE p \in Split(s, op)
    <3>1. PICK a, b \in Nat : IsPart(s, op, a, b) /\ p = SubSeq(s, a + 1, b - 1)
      BY <2>4
    <3>2. <<a, b>> \in D
      BY <3>1 DEF IsPart
    <3>3. piece(<<a, b>>) = p
      BY <3>1
    <3> HIDE DEF D, piece
    <3> QED
      BY <2>2, <3>2, <3>3
  <2> QED
    BY <2>3, <2>4
<1>13. ASSUME NEW p, Piece(w, p) PROVE Piece(u, p) \/ Piece(v, p)
  <2>1. PICK a, b \in Nat : IsPart(w, op, a, b) /\ p = SubSeq(w, a + 1, b - 1)
    BY <1>13
  <2>2. a + 1 < b
    BY <2>1 DEF IsPart
  <2>3. CASE a \in 0 .. m /\ b \in 0 .. m
    <3>1. IsPart(u, op, a, b) /\ p = SubSeq(u, a + 1, b - 1)
      BY <1>7, <1>10, <2>1, <2>2, <2>3
    <3> QED
      BY <3>1
  <2>4. ASSUME NEW i \in 0 .. Len(v) + 1, NEW j \in 0 .. Len(v) + 1, a = m + i, b = m + j
        PROVE  Piece(v, p)
    <3>1. i + 1 < j
      BY <1>1, <2>2, <2>4
    <3>2. IsPart(w, op, m + i, m + j) /\ p = SubSeq(w, m + i + 1, m + j - 1)
      <4>1. IsPart(w, op, a, b) /\ p = SubSeq(w, a + 1, b - 1)
        BY <2>1
      <4> HIDE DEF m
      <4> QED
        BY <1>1, <2>4, <4>1
    <3>3. IsPart(v, op, i, j)
      BY <1>8, <3>2
    <3>4. p = SubSeq(v, i + 1, j - 1)
      BY <1>11, <3>1, <3>2
    <3>5. i \in Nat /\ j \in Nat
      BY <1>1
    <3> QED
      BY <3>3, <3>4, <3>5
  <2>5. CASE \E i, j \in 0 .. Len(v) + 1 : a = m + i /\ b = m + j
    <3> HIDE DEF Piece
    <3> QED
      BY <2>4, <2>5
  <2>6. \/ a \in 0 .. m /\ b \in 0 .. m
        \/ \E i, j \in 0 .. Len(v) + 1 : a = m + i /\ b = m + j
    BY <1>9, <2>1
  <2> HIDE DEF Piece
  <2> QED
    BY <2>3, <2>5, <2>6
<1>14. ASSUME NEW p, Piece(u, p) PROVE Piece(w, p)
  <2>1. PICK a, b \in Nat : IsPart(u, op, a, b) /\ p = SubSeq(u, a + 1, b - 1)
    BY <1>14
  <2>2. a \in 0 .. m /\ b \in 0 .. m /\ a + 1 < b
    BY <1>3, <2>1 DEF IsPart
  <2>3. IsPart(w, op, a, b)
    BY <1>7, <2>1, <2>2
  <2>4. p = SubSeq(w, a + 1, b - 1)
    BY <1>10, <2>1, <2>2
  <2> QED
    BY <2>1, <2>3, <2>4
<1>15. ASSUME NEW p, Piece(v, p) PROVE Piece(w, p)
  <2>1. PICK a, b \in Nat : IsPart(v, op, a, b) /\ p = SubSeq(v, a + 1, b - 1)
    BY <1>15
  <2>2. a \in 0 .. Len(v) + 1 /\ b \in 0 .. Len(v) + 1 /\ a + 1 < b
    BY <1>3, <2>1 DEF IsPart
  <2>3. IsPart(w, op, m + a, m + b) /\ p = SubSeq(w, m + a + 1, m + b - 1)
    BY <1>8, <1>11, <2>1, <2>2
  <2> DEFINE i == m + a
             j == m + b
  <2>4. i \in Nat /\ j \in Nat
    BY <1>1
  <2>5. IsPart(w, op, i, j) /\ p = SubSeq(w, i + 1, j - 1)
    BY <1>1, <2>3
  <2> HIDE DEF i, j
  <2> QED
    BY <2>4, <2>5
<1> HIDE DEF Piece
<1>16. \A p : p \in Split(w, op) <=> p \in Split(u, op) \cup Split(v, op)
  BY <1>2, <1>12, <1>13, <1>14, <1>15
<1> QED
  BY <1>16 DEF w

-----------------------------------------------------------------------------
(* An operator written without parentheses is its operands, written        *)
(* without parentheses, around it; neither operand of an AND is an OR.     *)
LEMMA FlatParts ==
  ASSUME NEW tree \in Expressions, Flat(tree), tree \notin Trees[0]
  PROVE  /\ Written[tree] = Written[tree.left] \o <<tree.op>> \o Written[tree.right]
         /\ Flat(tree.left) /\ Flat(tree.right)
         /\ tree.op = "AND" => tree.left.op # "OR" /\ tree.right.op # "OR"
<1> DEFINE l == Enclosed(tree, tree.left, Written[tree.left])
           r == Enclosed(tree, tree.right, Written[tree.right])
           w == Written[tree]
<1>1. tree.op \in {"OR", "AND"} /\ tree.left \in Expressions /\ tree.right \in Expressions
  BY ExpressionsHaveParts DEF IsPair
<1>2. Written[tree.left] \in Seq(Tokens) /\ Written[tree.right] \in Seq(Tokens) /\ tree.op \in Tokens
  BY <1>1, WrittenParts DEF Tokens
<1>3. w = l \o <<tree.op>> \o r
  BY WrittenParts
<1>4. \A i \in DOMAIN w : w[i] \notin Parens
  BY DEF Flat
<1>5. "(" \in Tokens /\ ")" \in Tokens /\ "(" \in Parens
  BY DEF Tokens, Parens
<1>6. ASSUME NEW s \in Seq(Tokens), NEW operand
      PROVE  Enclosed(tree, operand, s) \in Seq(Tokens)
  BY <1>5 DEF Enclosed
<1>7. l \in Seq(Tokens) /\ r \in Seq(Tokens)
  BY <1>2, <1>6
<1> HIDE DEF l, r, w
<1>8. /\ DOMAIN w = 1 .. Len(l) + 1 + Len(r)
      /\ \A i \in 1 .. Len(l) : i \in DOMAIN w /\ w[i] = l[i]
      /\ \A i \in 1 .. Len(r) : Len(l) + 1 + i \in DOMAIN w /\ w[Len(l) + 1 + i] = r[i]
  BY <1>2, <1>3, <1>7
<1>9. (\A i \in 1 .. Len(l) : l[i] \notin Parens) /\ (\A i \in 1 .. Len(r) : r[i] \notin Parens)
  BY <1>4, <1>8
<1>10. ASSUME NEW operand, NEW s \in Seq(Tokens),
              \A i \in 1 .. Len(Enclosed(tree, operand, s)) : Enclosed(tree, operand, s)[i] \notin Parens
       PROVE  Enclosed(tree, operand, s) = s /\ ~(tree.op = "AND" /\ operand.op = "OR")
  <2>1. CASE tree.op = "AND" /\ operand.op = "OR"
    <3>1. Enclosed(tree, operand, s) = <<"(">> \o s \o <<")">>
      BY <2>1 DEF Enclosed
    <3>2. 1 \in 1 .. Len(<<"(">> \o s \o <<")">>) /\ (<<"(">> \o s \o <<")">>)[1] = "("
      BY <1>5
    <3> QED
      BY <1>5, <1>10, <3>1, <3>2
  <2>2. CASE ~(tree.op = "AND" /\ operand.op = "OR")
    BY <2>2 DEF Enclosed
  <2> QED
    BY <2>1, <2>2
<1>11. l = Written[tree.left] /\ ~(tree.op = "AND" /\ tree.left.op = "OR")
  BY <1>2, <1>9, <1>10 DEF l
<1>12. r = Written[tree.right] /\ ~(tree.op = "AND" /\ tree.right.op = "OR")
  BY <1>2, <1>9, <1>10 DEF r
<1>13. Flat(tree.left) /\ Flat(tree.right)
  BY <1>2, <1>9, <1>11, <1>12 DEF Flat
<1> QED
  BY <1>3, <1>11, <1>12, <1>13 DEF w

(* The classes of the parts at an AND, and at an OR.                       *)
AndClasses(s) == {LookUp(part) : part \in Split(s, "AND")}
OrClasses(s) == {ClassifyAnd(part) : part \in Split(s, "OR")}

(* The one class of a set is its strictest and its mildest.                *)
LEMMA OnlyClass == \A c \in Classes : Strictest({c}) = c /\ Mildest({c}) = c
<1> SUFFICES ASSUME NEW c \in Classes PROVE Strictest({c}) = c /\ Mildest({c}) = c
  OBVIOUS
<1>1. {c} \in SUBSET Classes /\ {c} # {}
  OBVIOUS
<1>2. Strictest({c}) \in {c} /\ Mildest({c}) \in {c}
  BY <1>1, StrictestIs, MildestIs
<1> QED
  BY <1>2

(* Whether an operator occurs or not, the class is that of the parts.      *)
LEMMA ClassifiedByParts ==
  ASSUME NEW s \in Seq(Bare), s # <<>>
  PROVE  /\ ClassifyAnd(s) = Strictest(AndClasses(s))
         /\ OrClasses(s) \subseteq Classes => Classify(s) = Mildest(OrClasses(s))
<1>1. ASSUME Has(s, "AND") PROVE ClassifyAnd(s) = Strictest(AndClasses(s))
  BY <1>1 DEF ClassifyAnd, AndClasses
<1>2. ASSUME ~Has(s, "AND") PROVE ClassifyAnd(s) = Strictest(AndClasses(s))
  <2>1. AndClasses(s) = {LookUp(s)}
    BY <1>2, SplitNowhere DEF AndClasses
  <2> QED
    BY <1>2, <2>1, LookedUp, OnlyClass DEF ClassifyAnd
<1>3. ASSUME Has(s, "OR") PROVE Classify(s) = Mildest(OrClasses(s))
  BY <1>3 DEF Classify, OrClasses
<1>4. ASSUME ~Has(s, "OR"), OrClasses(s) \subseteq Classes PROVE Classify(s) = Mildest(OrClasses(s))
  <2>1. OrClasses(s) = {ClassifyAnd(s)}
    BY <1>4, SplitNowhere DEF OrClasses
  <2> QED
    BY <1>4, <2>1, OnlyClass DEF Classify
<1>5. ClassifyAnd(s) = Strictest(AndClasses(s))
  BY <1>1, <1>2
<1> QED
  BY <1>3, <1>4, <1>5

(* What is said of a tree written as w: its class is the mildest of the    *)
(* parts at the ORs and, when it is no OR, the strictest of the parts at   *)
(* the ANDs.                                                               *)
ReadsAs(tree, w) ==
  /\ w \in Seq(Bare) /\ w # <<>>
  /\ OrClasses(w) # {} /\ OrClasses(w) \subseteq Classes /\ Mildest(OrClasses(w)) = Obliges[tree]
  /\ tree.op # "OR" =>
       ~Has(w, "OR") /\ AndClasses(w) # {} /\ Strictest(AndClasses(w)) = Obliges[tree]

(* A sequence without an OR is the only part at the ORs, so that the       *)
(* second half of what is said of a tree that is no OR gives the first.    *)
LEMMA NoOrReadsAs ==
  ASSUME NEW tree \in Expressions, NEW w \in Seq(Bare), w # <<>>, ~Has(w, "OR"),
         AndClasses(w) # {}, Strictest(AndClasses(w)) = Obliges[tree]
  PROVE  ReadsAs(tree, w)
<1>1. ClassifyAnd(w) = Obliges[tree]
  BY ClassifiedByParts
<1>2. OrClasses(w) = {Obliges[tree]}
  BY <1>1, SplitNowhere DEF OrClasses
<1>3. Obliges[tree] \in Classes
  BY ObligesParts
<1> QED
  BY <1>2, <1>3, OnlyClass DEF ReadsAs

(* Every expression written without parentheses reads as its tree.         *)
LEMMA FlatReadsAs ==
  \A tree \in Expressions : Flat(tree) => ReadsAs(tree, Written[tree])
<1> DEFINE G == {tree \in Expressions : Flat(tree) => ReadsAs(tree, Written[tree])}
<1>1. ASSUME NEW tree \in Trees[0] PROVE tree \in G
  <2>1. tree \in Expressions /\ tree.op = "id" /\ tree.id \in Licenses
    BY TreesGrow, ExpressionsHaveParts
  <2> DEFINE w == Written[tree]
  <2>2. w = <<tree.id>>
    BY <2>1, WrittenParts
  <2>3. w \in Seq(Bare) /\ w # <<>> /\ DOMAIN w = {1} /\ w[1] = tree.id
    BY <2>1, <2>2 DEF Bare
  <2> HIDE DEF w
  <2>4. ~Has(w, "OR") /\ ~Has(w, "AND")
    BY <2>1, <2>3, ExpressionsAssumption DEF Has
  <2>5. AndClasses(w) = {Obliges[tree]}
    <3>1. AndClasses(w) = {LookUp(w)}
      BY <2>3, <2>4, SplitNowhere DEF AndClasses
    <3>2. LookUp(w) = Obliges[tree]
      BY <2>1, <2>2, ObligesParts
    <3> QED
      BY <3>1, <3>2
  <2>6. Strictest(AndClasses(w)) = Obliges[tree]
    BY <2>1, <2>5, OnlyClass, ObligesParts
  <2>7. ReadsAs(tree, w)
    BY <2>1, <2>3, <2>4, <2>5, <2>6, NoOrReadsAs
  <2> QED
    BY <2>1, <2>7 DEF w
<1>2. ASSUME NEW tree \in Expressions, IsPair(tree, Expressions \cap G) PROVE tree \in G
  <2>1. SUFFICES ASSUME Flat(tree) PROVE ReadsAs(tree, Written[tree])
    OBVIOUS
  <2> DEFINE u == Written[tree.left]
             v == Written[tree.right]
             w == Written[tree]
  <2>2. /\ tree.op \in {"OR", "AND"} /\ tree.left \in Expressions /\ tree.right \in Expressions
        /\ tree.left \in G /\ tree.right \in G /\ tree \notin Trees[0]
    BY <1>2, ExpressionsHaveParts DEF IsPair
  <2>3. /\ w = u \o <<tree.op>> \o v
        /\ tree.op = "AND" => tree.left.op # "OR" /\ tree.right.op # "OR"
        /\ ReadsAs(tree.left, u) /\ ReadsAs(tree.right, v)
    BY <2>1, <2>2, FlatParts
  <2> HIDE DEF u, v, w, G
  <2>4. u \in Seq(Bare) /\ v \in Seq(Bare) /\ tree.op \in Bare
    BY <2>2, <2>3 DEF ReadsAs, Bare
  <2>5. w \in Seq(Bare) /\ w # <<>>
    BY <2>3, <2>4
  <2>6. Split(w, tree.op) = Split(u, tree.op) \cup Split(v, tree.op)
    BY <2>3, <2>4, SplitJoin
  <2>7. CASE tree.op = "AND"
    <3>1. /\ ~Has(u, "OR") /\ AndClasses(u) # {} /\ Strictest(AndClasses(u)) = Obliges[tree.left]
          /\ ~Has(v, "OR") /\ AndClasses(v) # {} /\ Strictest(AndClasses(v)) = Obliges[tree.right]
      BY <2>3, <2>7 DEF ReadsAs
    <3>2. ~Has(w, "OR")
      BY <2>3, <2>4, <2>7, <3>1 DEF Has
    <3>3. AndClasses(w) = AndClasses(u) \cup AndClasses(v)
      BY <2>6, <2>7 DEF AndClasses
    <3>4. AndClasses(u) \subseteq Classes /\ AndClasses(v) \subseteq Classes
      BY LookedUp DEF AndClasses
    <3>5. Strictest(AndClasses(w)) = Strictest({Obliges[tree.left], Obliges[tree.right]})
      BY <3>1, <3>3, <3>4, StrictestOfTwo
    <3>6. Strictest(AndClasses(w)) = Obliges[tree]
      BY <2>7, <3>5, ObligesParts
    <3>7. AndClasses(w) # {}
      BY <3>1, <3>3
    <3>8. ReadsAs(tree, w)
      BY <2>5, <3>2, <3>6, <3>7, NoOrReadsAs
    <3> QED
      BY <3>8 DEF w
  <2>8. CASE tree.op = "OR"
    <3>1. /\ OrClasses(u) # {} /\ OrClasses(u) \subseteq Classes /\ Mildest(OrClasses(u)) = Obliges[tree.left]
          /\ OrClasses(v) # {} /\ OrClasses(v) \subseteq Classes /\ Mildest(OrClasses(v)) = Obliges[tree.right]
      BY <2>3 DEF ReadsAs
    <3>2. OrClasses(w) = OrClasses(u) \cup OrClasses(v)
      BY <2>6, <2>8 DEF OrClasses
    <3>3. Mildest(OrClasses(w)) = Mildest({Obliges[tree.left], Obliges[tree.right]})
      BY <3>1, <3>2, MildestOfTwo
    <3>4. Mildest(OrClasses(w)) = Obliges[tree]
      BY <2>8, <3>3, ObligesParts
    <3>5. OrClasses(w) # {} /\ OrClasses(w) \subseteq Classes
      BY <3>1, <3>2
    <3>6. ReadsAs(tree, w)
      BY <2>5, <2>8, <3>4, <3>5 DEF ReadsAs
    <3> QED
      BY <3>6 DEF w
  <2> QED
    BY <2>2, <2>7, <2>8
<1> HIDE DEF G
<1>3. Expressions \subseteq G
  BY <1>1, <1>2, TreeByTree
<1> QED
  BY <1>3 DEF G

(* The class of an expression written without parentheses is its tree's.   *)
LEMMA FlatIsExact ==
  \A tree \in Expressions : Flat(tree) => Classify(Written[tree]) = Obliges[tree]
BY FlatReadsAs, ClassifiedByParts DEF ReadsAs

(* Of a component whose expression is so written, the gate reports nothing *)
(* but warnings exactly when the component may ship.                       *)
LEMMA GateOfOne ==
  ASSUME NEW inventory \in Inventories, NEW c \in inventory, Flat(c.license)
  PROVE  Report(Declared(c)) \subseteq Warnings <=> MayShip(c)
<1> DEFINE d == Declared(c)
<1>1. c.license \in Expressions /\ c.reference \in BOOLEAN /\ "license" \in DOMAIN c
  BY InventoriesAssumption
<1>2. /\ d.license = Written[c.license] /\ d.approval = c.approval
      /\ d.integration = c.integration /\ d.reference = c.reference
  BY <1>1 DEF Declared
<1> HIDE DEF d
<1>3. Classify(d.license) = Obliges[c.license]
  BY <1>1, <1>2, FlatIsExact
<1>4. Obliges[c.license] \in {"GREEN", "YELLOW", "UNKNOWN", "RED"}
  BY <1>1, ObligesParts DEF Classes
<1>5. CASE Obliges[c.license] = "UNKNOWN"
  BY <1>2, <1>3, <1>5 DEF Report, Warnings, MayShip, d
<1>6. CASE Obliges[c.license] = "RED"
  <2>1. Report(d) = IF c.integration \in Isolated /\ c.approval = "approved"
                    THEN {"license.red.arms_length_approved"} \cup
                         {x \in {"license.approval.no_reference"} : ~c.reference}
                    ELSE {"license.red.blocked"}
    BY <1>2, <1>3, <1>6 DEF Report
  <2> QED
    BY <1>1, <1>6, <2>1 DEF Warnings, MayShip, d
<1>7. CASE Obliges[c.license] = "YELLOW"
  <2>1. Report(d) = {x \in {"license.yellow.needs_review"} : ~(c.approval = "approved")}
    BY <1>2, <1>3, <1>7 DEF Report
  <2> QED
    BY <1>7, <2>1 DEF Warnings, MayShip, d
<1>8. CASE Obliges[c.license] = "GREEN"
  <2>1. Report(d) = {x \in {"component.rejected"} : c.approval = "rejected"}
    BY <1>2, <1>3, <1>8 DEF Report
  <2> QED
    BY <1>8, <2>1 DEF Warnings, MayShip, d
<1> QED
  BY <1>4, <1>5, <1>6, <1>7, <1>8

(* Spec => []LicencesAreExact: classify, which splits the text of an       *)
(* expression and never parses it, gives every expression written without  *)
(* parentheses the class its tree obliges to, and check_inventory lets an  *)
(* inventory of such expressions pass exactly when every component of it   *)
(* may ship, whatever the table of the policy says and however deep the    *)
(* expressions are.                                                        *)
THEOREM LicencesAreExactHolds == Spec => []LicencesAreExact
<1>1. AnswerInv => FlatExpressionsExact
  <2> SUFFICES ASSUME AnswerInv, Answers("classify"), Flat(call.tree)
               PROVE  answer = Obliges[call.tree]
    BY DEF FlatExpressionsExact
  <2>1. call.tree \in Expressions
    BY DEF AnswerInv, Answers, Calls
  <2>2. answer = Classify(Written[call.tree])
    BY DEF AnswerInv
  <2> QED
    BY <2>1, <2>2, FlatIsExact
<1>2. AnswerInv => GateIsExact
  <2> SUFFICES ASSUME AnswerInv, Answers("inventory"), \A c \in call.components : Flat(c.license)
               PROVE  answer.passes <=> \A c \in call.components : MayShip(c)
    BY DEF GateIsExact
  <2>1. call.components \in Inventories
    BY DEF AnswerInv, Answers, Calls
  <2>2. answer = [passes  |-> Passes({Declared(c) : c \in call.components}),
                  reports |-> [c \in call.components |-> Report(Declared(c))]]
    BY DEF AnswerInv
  <2>3. answer.passes = Passes({Declared(c) : c \in call.components})
    BY <2>2, Zenon
  <2>4. answer.passes <=> \A c \in call.components : Report(Declared(c)) \subseteq Warnings
    BY <2>3 DEF Passes
  <2>5. \A c \in call.components : Report(Declared(c)) \subseteq Warnings <=> MayShip(c)
    BY <2>1, GateOfOne
  <2> QED
    BY <2>4, <2>5
<1>3. AnswerInv => LicencesAreExact
  BY <1>1, <1>2 DEF LicencesAreExact
<1> QED
  BY <1>3, AnswerInvHolds, PTL
=============================================================================
