---------------------------- MODULE FindingRanking ---------------------------
(***************************************************************************)
(* How a unified finding comes about and is ranked: the correlation of its *)
(* observations (findings/correlation.py), its risk score (findings/       *)
(* risk.py) and the verdict of its proof (findings/proof.py).  The factors *)
(* are whole hundredths and the score is in tenths; a product half-way     *)
(* between two tenths is rounded up, where the code's floats may go either *)
(* way.                                                                    *)
(***************************************************************************)
EXTENDS Integers, FiniteSets, SequencesExt

Severities  == <<"info", "low", "medium", "high", "critical">>
Confidences == <<"false_positive", "tentative", "firm", "confirmed">>

(* _SEVERITY_BASE and _CONFIDENCE_FACTOR *)
SeverityBase ==
  [info |-> 5, low |-> 25, medium |-> 50, high |-> 75, critical |-> 95]
ConfidenceFactor ==
  [false_positive |-> 0, tentative |-> 60, firm |-> 85, confirmed |-> 100]

(* _EXPOSURE_BUMP and _EXPOSURE_DISCOUNT: no category is in both. *)
ExposureFactor(category) ==
  CASE category \in {"sql_injection", "command_injection", "code_injection",
                     "insecure_deserialization"}                      -> 110
    [] category = "ssrf"                                              -> 108
    [] category \in {"xxe", "broken_object_authz",
                     "broken_access_control"}                         -> 106
    [] category = "secret_exposure"                                   -> 105
    [] category = "xss"                                               -> 103
    [] category \in {"information_disclosure", "directory_listing"}   -> 92
    [] category \in {"missing_security_header", "clickjacking"}       -> 90
    [] OTHER                                                          -> 100

Corroboration(engines) ==
  IF engines >= 3 THEN 108 ELSE IF engines = 2 THEN 104 ELSE 100

MaxScore == 1000

(* Mutant: the score is not capped but wraps at the end of the scale. *)
RiskScoreWrapped(f) ==
  ((SeverityBase[f.severity] * ConfidenceFactor[f.confidence]
      * Corroboration(f.engines) * ExposureFactor(f.category)
      + 50000) \div 100000) % (MaxScore + 1)

(* RiskEngine.score *)
RiskScore(f) ==
  LET raw == (SeverityBase[f.severity] * ConfidenceFactor[f.confidence]
                * Corroboration(f.engines) * ExposureFactor(f.category)
                + 50000) \div 100000
  IN  IF raw > MaxScore THEN MaxScore ELSE raw

(* _verdict_for *)
VerdictFor(f) ==
  CASE f.confidence = "false_positive"              -> "disputed"
    [] f.confidence = "confirmed"                   -> "confirmed"
    [] f.confidence = "firm"                        -> "corroborated"
    [] f.confidence = "tentative" /\ f.engines >= 2 -> "corroborated"
    [] OTHER                                        -> "reported"

-----------------------------------------------------------------------------
(* correlation.py.  The group holds observations of one fingerprint, so of *)
(* one category: their engine, severity and confidence.                    *)

Highest(order, S) == order[SelectLastInSeq(order, LAMBDA x : x \in S)]

(* A group is disputed when every observation of it was refuted; else the  *)
(* engines are counted, those whose observations were refuted too.         *)
GroupConfidence(confidences, engines) ==
  IF confidences = {"false_positive"} THEN "false_positive"
  ELSE IF "confirmed" \in confidences THEN "confirmed"
  ELSE IF engines >= 2 THEN "firm" ELSE "tentative"

Merge(category, group) ==
  LET engines == Cardinality({o.engine : o \in group})
  IN  [category   |-> category,
       severity   |-> Highest(Severities, {o.severity : o \in group}),
       engines    |-> engines,
       confidence |-> GroupConfidence({o.confidence : o \in group}, engines)]
=============================================================================
