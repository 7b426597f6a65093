--------------------- MODULE ScanOrchestratorInvariants ---------------------
(***************************************************************************)
(* The inductive strengthening of the properties of ScanOrchestrator: what *)
(* is true of a run at each of its steps.  Checked by TLC on the instances *)
(* of MCScanOrchestrator, proved in ScanOrchestratorProofs.                *)
(***************************************************************************)
EXTENDS ScanOrchestrator

Ids(O) == {ObsId(o) : o \in O}

(* The stages of a run. *)
BeforeRunning   == {"new", "submitted", "queued", "planning"}
InLoop          == {"task"} \cup EngineSteps
Correlated      == {"correlated", "validating", "reporting"}
FindingsStored  == {"assess", "complete", "raised"}
BeforeFindings  == BeforeRunning \cup InLoop \cup {"observed", "validate"} \cup Correlated

(* Every timestamp was handed out by the clock. *)
Stamped(f) == f.first <= f.last /\ f.last <= now
TimesPast ==
  /\ \A r \in Runs : \A o \in obs[r] \cup pending[r] : o.at <= now
  /\ \A r \in Runs : \A f \in findings[r] : Stamped(f)
  /\ \A f \in findingRows : Stamped(f)

(* The loop has accounted for the tasks before idx. *)
LoopProgress ==
  \A r \in Runs :
    /\ enginesRun[r] \cap enginesFailed[r] = {}
    /\ enginesRun[r] \cup enginesFailed[r] = 1 .. idx[r] - 1
    /\ pc[r] \in BeforeRunning => idx[r] = 1 /\ plan[r] = <<>>
    /\ idx[r] <= Len(plan[r]) + 1
    /\ pc[r] \in EngineSteps => idx[r] <= Len(plan[r])
    /\ pc[r] \notin InLoop \cup {"lost"} => idx[r] = Len(plan[r]) + 1

(* A run knows only its own observations, and stores only those. *)
OwnObservations ==
  /\ \A r \in Runs : \A o \in obs[r] \cup pending[r] \cup todo[r] : o.run = r
  /\ \A r \in Runs : pc[r] = "validate" => todo[r] \subseteq obs[r]

(* The grant is given as run begins; without it run stops before the loop. *)
GrantedRuns ==
  \A r \in Runs :
    /\ pc[r] \in {"new", "submitted"} => ~granted[r]
    /\ ~granted[r] =>
         /\ pc[r] \in BeforeRunning \cup {"returned", "lost"}
         /\ enginesRun[r] = {} /\ openTasks[r] = {} /\ obs[r] = {} /\ pending[r] = {}
         /\ \A o \in obsRows : o.run # r
         /\ pc[r] = "returned" => memState[r] = "failed"
    /\ granted[r] /\ pc[r] = "returned" => memState[r] = "completed"

(* Scoring precedes publication. *)
Scored ==
  /\ \A r \in Runs : pc[r] \in {"validating", "reporting"} =>
       \A f \in findings[r] : f.risk = f.conf
  /\ \A f \in findingRows : f.risk = f.conf

(* The in-memory state of the scan at each step of its run. *)
StatesAt(p) ==
  CASE p \in {"new", "submitted"}               -> {"created"}
    [] p = "queued"                             -> {"queued"}
    [] p = "planning"                           -> {"planning"}
    [] p \in InLoop \cup {"observed"}           -> {"running"}
    [] p \in {"validate", "correlated"}         -> {"correlating"}
    [] p = "validating"                         -> {"validating"}
    [] p \in {"reporting"} \cup FindingsStored  -> {"reporting"}
    [] p = "returned"                           -> {"completed", "failed"}
    [] p = "lost"                               -> ScanState
MemoryAtStep == \A r \in Runs : memState[r] \in StatesAt(pc[r])

(* With one run per scan, the row holds what the run has in memory. *)
RowIsMemory ==
  \A r \in Runs :
    rowState[ScanOf[r]] = IF memState[r] = "created" THEN "absent" ELSE memState[r]

(* The stored observations of a run are those it holds, from the step that *)
(* stores them on, up to their validation; before it there are none.       *)
Stored(r) == {o \in obsRows : o.run = r}
EvidenceStored ==
  \A r \in Runs :
    /\ pc[r] \in BeforeRunning \cup InLoop => Stored(r) = {}
    /\ pc[r] \notin BeforeRunning \cup InLoop \cup {"lost"} => Ids(Stored(r)) = Ids(obs[r])

(* The findings in memory partition the observations by fingerprint.       *)
FindingsPartition ==
  \A r \in Runs : pc[r] \in Correlated =>
    /\ \A f \in findings[r] :
         /\ f.scan = ScanOf[r]
         /\ f.obs # {}
         /\ f.obs = {i \in Ids(obs[r]) : i[3] = f.fp}
    /\ \A i \in Ids(obs[r]) : \E f \in findings[r] : f.fp = i[3]
    /\ \A f, g \in findings[r] : f.fp = g.fp => f = g

(* The stored findings of a scan partition its stored observations, and    *)
(* there are none before the step that stores them.                        *)
FindingsStoredPartition ==
  /\ \A f \in findingRows :
       /\ f.obs # {}
       /\ \A i \in f.obs : i[3] = f.fp
       /\ \E r \in Runs : ScanOf[r] = f.scan /\ f.obs \subseteq Ids(RowsOf(f.scan))
  /\ \A f, g \in findingRows : f.scan = g.scan /\ f.fp = g.fp => f = g
  /\ \A r \in Runs :
       /\ pc[r] \in BeforeFindings => FindingsOf(ScanOf[r]) = {}
       /\ pc[r] \in FindingsStored =>
            UNION {f.obs : f \in FindingsOf(ScanOf[r])} = Ids(RowsOf(ScanOf[r]))

(* How far the attempt at the current task has come: what it has open and  *)
(* in hand is of this task; what the run holds is of attempts that ended.  *)
AttemptAt(r) ==
  /\ raised[r] \subseteq enginesRun[r]
  /\ openTasks[r] \subseteq
       raised[r] \cup IF pc[r] \in {"execute", "collect", "cleanup", "lost"} THEN {idx[r]} ELSE {}
  /\ pending[r] # {} => pc[r] \in {"cleanup", "lost"}
  /\ \A o \in pending[r] : o.task = idx[r] /\ plan[r][o.task].engine = o.engine
  /\ \A o \in obs[r] :
       /\ o.task \in enginesRun[r] \ (raised[r] \cup openTasks[r])
       /\ plan[r][o.task].engine = o.engine
AttemptInvariant == \A r \in Runs : AttemptAt(r)

(* What is fed is in scope, and what an engine was given is still known.   *)
FeedbackAt(r) ==
  /\ discovered[r] \subseteq InScope
  /\ pc[r] \in EngineSteps =>
       \/ seeds[r] = BaseUrls
       \/ CurrentTask(r).stage = "audit" /\ seeds[r] \ BaseUrls \subseteq discovered[r]
BoundAt(r) ==
  /\ idx[r] = 1 => discovered[r] = {}
  /\ idx[r] > 1 => Cardinality(discovered[r]) <= MaxDiscovered + idx[r] - 2
  /\ \/ Cardinality(seeds[r]) <= MaxFedSeeds
     \/ Cardinality(seeds[r]) <= Cardinality(BaseUrls) + 1
FeedbackInvariant == \A r \in Runs : FeedbackAt(r) /\ BoundAt(r)

(* The audit trail from "queued" to the state of the row.                  *)
TrailAt(s) ==
  LET life == <<"created">> \o audit[s] IN
  /\ \A i \in 1 .. Len(life) - 1 : CanTransition(life[i], life[i + 1])
  /\ IF audit[s] = <<>> THEN rowState[s] = "absent"
                        ELSE rowState[s] = audit[s][Len(audit[s])]
TrailInvariant == \A s \in Scans : TrailAt(s)

(* Scan n is the only one created since s, and was when s had finished.    *)
Follows(s, n) ==
  /\ TargetOf[s] = TargetOf[n]
  /\ rowState[s] = "completed"
  /\ finishedAt[s] < createdAt[n]
  /\ \A q \in Scans : createdAt[q] > createdAt[s] => q = n

(* The clock tells the scans apart that were created, all those that have  *)
(* a row or a run among them.                                              *)
CreationOrdered ==
  /\ \A s \in Scans : createdAt[s] <= now
  /\ \A s, q \in Scans : createdAt[s] = createdAt[q] /\ createdAt[s] # 0 => s = q
  /\ \A r \in Runs : pc[r] # "new" => createdAt[ScanOf[r]] # 0
  /\ \A s \in Scans : rowState[s] # "absent" => createdAt[s] # 0

(* From correlation on, what a run holds carries the first_seen of the     *)
(* scan that it follows, and so do the findings it stores.                 *)
Carries(g) ==
  \A f \in findingRows : f.fp = g.fp /\ Follows(f.scan, g.scan) => g.first = f.first
HistoryInvariant ==
  /\ CreationOrdered
  /\ \A r \in Runs : pc[r] \in Correlated => \A g \in findings[r] : Carries(g)
  /\ \A g \in findingRows : Carries(g)

(* The part that holds of any runs, and the part that needs OneRunPerScan. *)
BasicInvariant == TypeOK /\ TimesPast /\ LoopProgress
RunInvariant ==
  BasicInvariant /\ OwnObservations /\ GrantedRuns /\ Scored /\ MemoryAtStep
StoreInvariant ==
  RowIsMemory /\ EvidenceStored /\ FindingsPartition /\ FindingsStoredPartition

InductiveInvariant ==
  /\ RunInvariant /\ AttemptInvariant /\ FeedbackInvariant
  /\ StoreInvariant /\ TrailInvariant /\ HistoryInvariant
=============================================================================
