---------------------------- MODULE ProofBundles ----------------------------
(***************************************************************************)
(* The proof bundle of a finding (findings/proof.py): what it is made of,  *)
(* its digest and signature, and who can verify it.  A finding is a record *)
(* with its id, category, severity, confidence, number of engines and the  *)
(* kinds of evidence it has: "exchange", "match", "recheck" (a validation  *)
(* with the answer it got) and "differential" (one without).  Wording is   *)
(* left out.                                                               *)
(***************************************************************************)
EXTENDS FindingRanking

CONSTANTS
  Absent         \* None: no key, no digest, no rank, no group

-----------------------------------------------------------------------------
(* The second step tells how to see the weakness oneself. *)
Reproduction(f) ==
  <<"send the request",
    CASE f.category \in {"missing_security_header", "insecure_cookie",
                         "cors_misconfiguration", "clickjacking"} -> "inspect the headers"
      [] f.category = "tls_weakness" -> "inspect the certificate"
      [] f.category \in {"xss", "open_redirect", "header_injection"} -> "look for the marker"
      [] OTHER -> "compare the answers",
    "compare with the baseline">>

Validated(f) == f.evidence \cap {"recheck", "differential"} # {}

Differential(f) ==
  IF Validated(f) THEN "what validation saw"
  ELSE IF f.confidence = "confirmed" THEN "reproduced"
  ELSE IF f.engines >= 2 THEN "engines agree"
  ELSE "one engine"

Baseline(f) ==
  IF "recheck" \in f.evidence THEN "answer to the recheck"
  ELSE IF "exchange" \in f.evidence THEN "request" ELSE Absent

Observed(f) ==
  IF "exchange" \in f.evidence THEN "answer"
  ELSE IF "match" \in f.evidence THEN "answer that matched" ELSE Absent

-----------------------------------------------------------------------------
(* The digest of a content is the pair of "sha" and the content, its       *)
(* signature the triple with the key: no two contents share one.           *)

Marks == {"integrity", "signature", "signed"}

(* Mutant: the verdict is not part of what is digested. *)
CanonicalUnjudged(proof) ==
  [x \in DOMAIN proof \ (Marks \cup {"verdict"}) |-> proof[x]]

Canonical(proof) == [x \in DOMAIN proof \ Marks |-> proof[x]]

Digest(proof)         == <<"sha", Canonical(proof)>>
Signature(key, proof) == <<"hmac", key, Canonical(proof)>>

(* The key that is passed wins over VANTAGE_EVIDENCE_KEY, the empty key    *)
(* too, with which nothing is signed.                                      *)
SigningKey(passed, environment) == IF passed # Absent THEN passed ELSE environment
Signs(key) == key \notin {Absent, ""}

Build(f, key) ==
  LET bare == [finding |-> f.id, category |-> f.category, verdict |-> VerdictFor(f),
               severity |-> f.severity, confidence |-> f.confidence,
               engines |-> f.engines, baseline |-> Baseline(f),
               observed |-> Observed(f), differential |-> Differential(f),
               reproduction |-> Reproduction(f),
               integrity |-> Absent, signature |-> Absent, signed |-> FALSE]
      digested == [bare EXCEPT !.integrity = Digest(bare)]
  IN  IF Signs(key)
      THEN [digested EXCEPT !.signature = Signature(key, bare), !.signed = TRUE]
      ELSE digested

Verify(proof, key) ==
  /\ proof.integrity = Digest(proof)
  /\ proof.signed => /\ Signs(key)
                     /\ proof.signature # Absent
                     /\ proof.signature = Signature(key, proof)

-----------------------------------------------------------------------------
ConfirmedVerdicts == {"confirmed", "corroborated"}

BuildProofs(findings, key) ==
  [bundles |-> [i \in DOMAIN findings |-> Build(findings[i], key)],
   signed  |-> Signs(key) /\ findings # <<>>]

(* The numbers of I, in ascending order, and the elements of s there.      *)
Places(I) ==
  [n \in 1..Cardinality(I) |->
     CHOOSE i \in I : Cardinality({j \in I : j < i}) = n - 1]

Selected(s, I) == LET at == Places(I) IN [n \in DOMAIN at |-> s[at[n]]]

(* ProofReport.confirmed *)
ConfirmedBundles(proofs) ==
  Selected(proofs.bundles,
           {i \in DOMAIN proofs.bundles : proofs.bundles[i].verdict \in ConfirmedVerdicts})
=============================================================================
