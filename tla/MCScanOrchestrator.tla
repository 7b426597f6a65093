------------------------ MODULE MCScanOrchestrator ------------------------
(***************************************************************************)
(* Instances of ScanOrchestrator for TLC: one scan with every kind of      *)
(* engine, task and verdict, and two scans of one target.                  *)
(***************************************************************************)
EXTENDS ScanOrchestratorInvariants

CONSTANTS r1, r2, s1, s2, t1, e1, e2, e3, f1, f2, u0, u1, u2

AllOneTarget == [s \in Scans |-> t1]
OneScan      == [r \in Runs |-> s1]
OwnScan      == [r \in Runs |-> IF r = r1 THEN s1 ELSE s2]

TaskOf(e, stage) == [engine |-> e, stage |-> stage]

(* e1 discovers and e2 validates, which is not fed; or e3, which has no    *)
(* adapter, is passed over and e1 discovers and audits, fed by itself.     *)
FeedingPlans == {<<TaskOf(e1, "discovery"), TaskOf(e2, "validation")>>,
                 <<TaskOf(e3, "fingerprint"), TaskOf(e1, "discovery"),
                   TaskOf(e1, "audit")>>}
AuditPlan    == {<<TaskOf(e1, "audit")>>}

(* e1 reports both weaknesses, the other engines the first only. *)
MixedFinds   == [e \in Engines |-> IF e = e1 THEN {f1, f2} ELSE {f1}]
AnyFinds     == [e \in Engines |-> Fps]

HeaderAndReflection == [f \in Fps |-> IF f = f1 THEN "absence" ELSE "reflection"]
ListingAndOther     == [f \in Fps |-> IF f = f1 THEN "presence" ELSE "other"]

UrlPerFinding == [f \in Fps |-> IF f = f1 THEN u1 ELSE u2]
=============================================================================
