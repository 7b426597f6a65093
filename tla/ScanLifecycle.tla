--------------------------- MODULE ScanLifecycle ---------------------------
(***************************************************************************)
(* What the orchestrator promises to a reader of the database, whatever    *)
(* engines, probes, other scans and crashes do: the row of a scan only     *)
(* moves along legal transitions, evidence is recorded once and only while *)
(* the scan runs, findings are published once and only while it reports,   *)
(* they account for exactly the recorded evidence, and a scan is complete  *)
(* only when its evidence is published.  Terminal scans never change.      *)
(***************************************************************************)
EXTENDS ScanStates

CONSTANTS
  Scans,        \* scan ids
  Evidence      \* observation ids

VARIABLES
  state,        \* state[s]: lifecycle state of scan s
  evidence,     \* evidence[s]: observations recorded for s
  published     \* published[s]: observations the findings of s stand on

lifeVars == <<state, evidence, published>>

LifeInit ==
  /\ state     = [s \in Scans |-> "created"]
  /\ evidence  = [s \in Scans |-> {}]
  /\ published = [s \in Scans |-> {}]

Move(s, dst) ==
  /\ CanTransition(state[s], dst)
  /\ dst = "completed" => published[s] = evidence[s]
  /\ state' = [state EXCEPT ![s] = dst]
  /\ UNCHANGED <<evidence, published>>

Record(s) ==
  /\ state[s] = "running"
  /\ evidence[s] = {}
  /\ evidence'[s] \subseteq Evidence
  /\ evidence' = [evidence EXCEPT ![s] = evidence'[s]]
  /\ UNCHANGED <<state, published>>

Publish(s) ==
  /\ state[s] = "reporting"
  /\ published[s] = {}
  /\ published' = [published EXCEPT ![s] = evidence[s]]
  /\ UNCHANGED <<state, evidence>>

LifeNext ==
  \E s \in Scans :
    \/ \E dst \in ScanState : Move(s, dst)
    \/ Record(s)
    \/ Publish(s)

LifeSpec == LifeInit /\ [][LifeNext]_lifeVars
=============================================================================
