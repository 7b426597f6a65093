------------------------------- MODULE Reports -------------------------------
(***************************************************************************)
(* The reports of a scan (findings/reporting.py) and what vantage scan     *)
(* makes of them (cli/main.py).  A report is a record of its findings, in  *)
(* order, the proofs of them (Absent when none were built) and the AI's    *)
(* assessment; each format is abstracted to what it says of which finding. *)
(***************************************************************************)
EXTENDS AiAnalyst

CONSTANTS
  DetailLimit    \* how many findings the Markdown report details: 20

Ids(findings) == [i \in DOMAIN findings |-> findings[i].id]

Summarize(findings) ==
  [s \in ToSet(Severities) |-> Cardinality({i \in DOMAIN findings : findings[i].severity = s})]

Json(r) ==
  [count       |-> Len(r.findings),
   by_severity |-> Summarize(r.findings),
   findings    |-> Ids(r.findings),
   proofs      |-> IF r.proofs = Absent THEN Absent
                   ELSE [signed    |-> r.proofs.signed,
                         confirmed |-> Len(ConfirmedBundles(r.proofs)),
                         bundles   |-> r.proofs.bundles],
   annotated   |-> IF r.ai.enabled THEN DOMAIN r.ai.annotations ELSE Absent]

SarifLevel(severity) ==
  CASE severity \in {"info", "low"}      -> "note"
    [] severity = "medium"               -> "warning"
    [] severity \in {"high", "critical"} -> "error"

(* One rule for each category, one result for each finding. *)
Sarif(r) ==
  [rules   |-> {r.findings[i].category : i \in DOMAIN r.findings},
   results |-> [i \in DOMAIN r.findings |->
                  [rule  |-> r.findings[i].category,
                   level |-> SarifLevel(r.findings[i].severity),
                   finding |-> r.findings[i].id]]]

(* _proof_for: the first bundle that names the finding. *)
ProofFor(r, id) ==
  IF r.proofs = Absent THEN Absent
  ELSE LET i == SelectInSeq(r.proofs.bundles, LAMBDA p : p.finding = id)
       IN  IF i = 0 THEN Absent ELSE r.proofs.bundles[i]

Detail(r, f) ==
  [finding |-> f.id,
   verdict |-> IF ProofFor(r, f.id) = Absent THEN Absent ELSE ProofFor(r, f.id).verdict,
   annotated |-> r.ai.enabled /\ f.id \in DOMAIN r.ai.annotations]

Markdown(r) ==
  [counts  |-> Summarize(r.findings),
   proven  |-> IF r.proofs = Absent \/ r.findings = <<>> THEN Absent
               ELSE <<Len(ConfirmedBundles(r.proofs)), Len(r.findings)>>,
   table   |-> Ids(r.findings),
   details |-> [i \in 1..(IF Len(r.findings) < DetailLimit
                          THEN Len(r.findings) ELSE DetailLimit) |-> Detail(r, r.findings[i])]]

(* Mutant: the findings are chosen by their own confidence. *)
FilterConfirmedByConfidence(r) ==
  IF r.proofs = Absent THEN r
  ELSE [r EXCEPT
          !.findings = Selected(@, {i \in DOMAIN @ : @[i].confidence \in {"firm", "confirmed"}}),
          !.proofs.bundles = ConfirmedBundles(r.proofs)]

(* The assessment stays as it was, with annotations of what is left out.   *)
FilterConfirmed(r) ==
  IF r.proofs = Absent THEN r
  ELSE LET bundles == ConfirmedBundles(r.proofs)
           ids     == {bundles[i].finding : i \in DOMAIN bundles}
       IN  [r EXCEPT
              !.findings = Selected(@, {i \in DOMAIN @ : @[i].id \in ids}),
              !.proofs.bundles = Selected(@, {i \in DOMAIN @ : @[i].finding \in ids})]

(* scan_run: findings that are high or critical fail the command. *)
ExitCode(r) ==
  LET counts == Summarize(r.findings)
  IN  IF counts["critical"] > 0 \/ counts["high"] > 0 THEN 1 ELSE 0

Render(r) ==
  [json |-> Json(r), sarif |-> Sarif(r), markdown |-> Markdown(r), exit |-> ExitCode(r)]
=============================================================================
