-------------------------- MODULE ScanOrchestrator --------------------------
(***************************************************************************)
(* Orchestrator.run (scan/orchestrator.py) with everything it calls that   *)
(* decides what is stored: planning, the engine loop with its discovery    *)
(* feedback, validation, correlation, history, risk, the AI hook and the   *)
(* database transactions.  A run is one call of Orchestrator.run; several  *)
(* runs share one database.  Each step ends at an await or at a commit, so *)
(* runs interleave there (tasks of one event loop, or the CLI and the API  *)
(* on one database file), and a run may be lost there: a crash, a          *)
(* cancellation or a failed commit.                                        *)
(*                                                                         *)
(* An observation is known by the run and the task that made it and by its *)
(* fingerprint, the correlation key that is stable across scans.           *)
(***************************************************************************)
EXTENDS Integers, Sequences, FiniteSets, ScanStates

CONSTANTS
  Runs,             \* calls of Orchestrator.run
  Scans,            \* scan ids
  Targets,          \* target ids
  ScanOf,           \* ScanOf[r]: the scan object passed to run r
  TargetOf,         \* TargetOf[s]: the target of scan s
  MayExpire,        \* targets whose authorization record can expire
  Engines,          \* engine ids the planner may choose
  Bound,            \* engines with a bound adapter (adapter_for is not None)
  Plans,            \* task sequences the planner may produce, stages flattened
  Fps,              \* fingerprints
  Finds,            \* Finds[e]: fingerprints engine e can report
  EngineConfs,      \* confidences an engine can report
  KindOf,           \* KindOf[f]: how the validation engine treats f
  Urls,             \* URLs
  UrlOf,            \* UrlOf[f]: the URL in the evidence of an observation of f
  BaseUrls,         \* target.base_urls
  InScope,          \* URLs the scope engine allows
  MaxDiscovered,    \* MAX_DISCOVERED
  MaxFedSeeds,      \* MAX_FED_SEEDS
  ValidateFindings, \* validate_findings and a prober factory
  AiMayRaise,       \* the AI answer may be one that assess() cannot parse
  MaxLosses         \* bound on crashed, cancelled or failed runs

Stages == {"fingerprint", "discovery", "audit", "validation"}
Tasks  == [engine : Engines, stage : Stages]

(* "absence": missing_security_header, clickjacking, insecure_cookie;      *)
(* "presence": directory_listing, cors_misconfiguration; "reflection":     *)
(* xss, open_redirect, header_injection; "other": no strategy handles it.  *)
Kinds == {"absence", "presence", "reflection", "other"}

Confidences == {"tentative", "firm", "confirmed", "false_positive"}

ASSUME ConstantsAssumption ==
  /\ ScanOf \in [Runs -> Scans]
  /\ TargetOf \in [Scans -> Targets]
  /\ MayExpire \subseteq Targets
  /\ Bound \subseteq Engines
  /\ Plans # {} /\ Plans \subseteq Seq(Tasks)
  /\ Finds \in [Engines -> SUBSET Fps]
  /\ EngineConfs \subseteq Confidences
  /\ KindOf \in [Fps -> Kinds]
  /\ UrlOf \in [Fps -> Urls]
  /\ BaseUrls \subseteq Urls /\ InScope \subseteq Urls
  /\ MaxDiscovered \in Nat \ {0} /\ MaxFedSeeds \in Nat \ {0}
  /\ ValidateFindings \in BOOLEAN /\ AiMayRaise \in BOOLEAN
  /\ MaxLosses \in Nat

(* No two calls of run are given the same scan: what the API and the CLI   *)
(* do, each creating a Scan for the one call it makes.                     *)
OneRunPerScan == \A q, r \in Runs : ScanOf[q] = ScanOf[r] => q = r

VARIABLES
  (* the database *)
  rowState,      \* rowState[s]: state column of the scan row, or "absent"
  createdAt,     \* createdAt[s]: created_at, 0 before the scan exists
  finishedAt,    \* finishedAt[s]: finished_at, 0 while unset
  audit,         \* audit[s]: the "scan.state" records of s, in order
  obsRows,       \* observation rows
  findingRows,   \* finding rows
  (* the local variables of run and of _run_engine *)
  pc,            \* pc[r]: the step run r is about to take
  memState,      \* memState[r]: scan.state of the in-memory scan
  granted,       \* granted[r]: target.is_authorized() when run r began
  plan,          \* plan[r]: the tasks of the plan
  idx,           \* idx[r]: the task the loop is at
  seeds,         \* seeds[r]: seed_urls of the current engine
  discovered,    \* discovered[r]: URLs fed from one stage to the next
  pending,       \* pending[r]: normalized, not yet cleaned up and returned
  enginesRun,    \* enginesRun[r]: tasks listed in report.engines_run
  enginesFailed, \* enginesFailed[r]: tasks listed in report.engines_failed
  obs,           \* obs[r]: all_obs
  todo,          \* todo[r]: observations still to be validated
  scopeOk,       \* scopeOk[r]: run r's last scope engine has an authorization
  findings,      \* findings[r]: the correlated findings
  (* the world *)
  valid,         \* targets whose authorization is valid now
  now,           \* the clock: the latest timestamp handed out by utcnow()
  losses,        \* runs lost so far
  (* history, never read by an action *)
  openTasks,     \* openTasks[r]: tasks prepared and not cleaned up
  raised         \* raised[r]: tasks whose engine raised

dbVars    == <<rowState, createdAt, finishedAt, audit, obsRows, findingRows>>
loopVars  == <<idx, seeds, discovered, pending, enginesRun, enginesFailed,
               openTasks, raised>>
scanVars   == <<rowState, createdAt, finishedAt, audit>>
ctxVars    == <<granted, plan, scopeOk>>
reportVars == <<enginesRun, enginesFailed>>
resultVars == <<obs, todo, findings>>
worldVars  == <<valid, losses>>
vars == <<rowState, createdAt, finishedAt, audit, obsRows, findingRows,
          pc, memState, granted, plan, idx, seeds, discovered, pending,
          enginesRun, enginesFailed, obs, todo, scopeOk, findings,
          valid, now, losses, openTasks, raised>>

-----------------------------------------------------------------------------
(* Data *)

Task == Nat \ {0}

Observations ==
  [run : Runs, task : Task, engine : Engines, fp : Fps, conf : Confidences,
   at : Nat, probe : {"none", "answered", "failed"}]

ObsId(o) == <<o.run, o.task, o.fp>>
ObsIds   == Runs \X Task \X Fps

(* A finding as correlation builds it: the observations it stands on, when *)
(* it was first and last seen, and the confidence risk_score was computed  *)
(* with ("unscored": still the default 0.0).                               *)
Findings ==
  [scan : Scans, fp : Fps, conf : Confidences, obs : SUBSET ObsIds,
   first : Nat, last : Nat, risk : Confidences \cup {"unscored"}]

CurrentTask(r) == plan[r][idx[r]]

EngineSteps == {"health", "prepare", "execute", "collect", "cleanup"}
PCs == {"new", "submitted", "queued", "planning", "task", "observed",
        "validate", "correlated", "validating", "reporting", "assess",
        "complete", "returned", "raised", "lost"} \cup EngineSteps
Over == {"returned", "raised", "lost"}

-----------------------------------------------------------------------------
(* The discovery feedback.  The lists are modelled as sets: which new URLs *)
(* come first in them is left open.                                        *)

(* _collect_discovered: the cap is tested after an append only, so a full  *)
(* list still takes one more URL from each call that has a new one.        *)
CollectDiscovered(into, allowed) ==
  LET new  == allowed \ into
      room == MaxDiscovered - Cardinality(into)
      take == IF room > 0 THEN room ELSE 1
  IN  IF Cardinality(new) <= take
      THEN {into \cup new}
      ELSE {into \cup X : X \in {Y \in SUBSET new : Cardinality(Y) = take}}

(* _merge_seeds: likewise, one URL is looked at even when the seeds alone  *)
(* reach the cap; if it is a seed itself the list stays as it is.          *)
MergeSeeds(base, extra) ==
  LET new  == extra \ base
      room == MaxFedSeeds - Cardinality(base)
      take == IF room > 0 THEN room ELSE 1
      some == IF Cardinality(new) <= take
              THEN {base \cup new}
              ELSE {base \cup X : X \in {Y \in SUBSET new : Cardinality(Y) = take}}
  IN  some \cup {base : u \in IF room > 0 THEN {} ELSE extra \cap base}

(* Mutant: every stage is fed, not the audit stage only. *)
SeedChoicesAnyStage(r) ==
  IF discovered[r] # {} THEN MergeSeeds(BaseUrls, discovered[r]) ELSE {BaseUrls}

(* The seeds a task is run with: discovered URLs go to audit tasks only.   *)
SeedChoices(r) ==
  IF CurrentTask(r).stage = "audit" /\ discovered[r] # {}
  THEN MergeSeeds(BaseUrls, discovered[r])
  ELSE {BaseUrls}

-----------------------------------------------------------------------------
(* Validation: what ValidationEngine.validate makes of one observation.  A *)
(* probe that failed or was refused reaches the strategies as an empty     *)
(* answer (status 0, no headers, no body).                                 *)
Verdicts(kind, probe) ==
  CASE kind = "absence"    -> IF probe = "failed" THEN {"confirmed"}
                              ELSE {"confirmed", "false_positive"}
    [] kind = "presence"   -> IF probe = "failed" THEN {"false_positive"}
                              ELSE {"confirmed", "false_positive"}
    [] kind = "reflection" -> IF probe = "failed" THEN {"firm"}
                              ELSE {"firm", "false_positive"}

(* Never downgrade a CONFIRMED except to FALSE_POSITIVE. *)
Revised(o, verdict, probe, t) ==
  [o EXCEPT !.conf  = IF o.conf = "confirmed" /\ verdict # "false_positive"
                      THEN "confirmed" ELSE verdict,
            !.at    = t,
            !.probe = probe]

-----------------------------------------------------------------------------
(* Correlation and history *)

Earliest(T) == CHOOSE t \in T : \A u \in T : t <= u
Latest(T)   == CHOOSE t \in T : \A u \in T : u <= t

MergedConfidence(G) ==
  IF \A o \in G : o.conf = "false_positive" THEN "false_positive"
  ELSE IF \E o \in G : o.conf = "confirmed" THEN "confirmed"
  ELSE IF \E o, p \in G : o.engine # p.engine THEN "firm"
  ELSE "tentative"

(* CorrelationEngine._merge: one finding per group of observations. *)
MergeGroup(s, f, G) ==
  [scan  |-> s,
   fp    |-> f,
   conf  |-> MergedConfidence(G),
   obs   |-> {ObsId(o) : o \in G},
   first |-> Earliest({o.at : o \in G}),
   last  |-> Latest({o.at : o \in G}),
   risk  |-> "unscored"]

Correlate(s, O) ==
  {MergeGroup(s, f, {o \in O : o.fp = f}) : f \in {o.fp : o \in O}}

(* The completed scans of the same target that _merge_history finds, and   *)
(* the one it takes: the first by created_at, descending.                  *)
PreviousScans(s) ==
  {q \in Scans : q # s /\ rowState[q] = "completed" /\ TargetOf[q] = TargetOf[s]}

LastScan(s) ==
  CHOOSE q \in PreviousScans(s) :
    \A p \in PreviousScans(s) : createdAt[p] <= createdAt[q]

PreviousFindings(s) ==
  IF PreviousScans(s) = {} THEN {}
  ELSE {g \in findingRows : g.scan = LastScan(s)}

(* Mutants: the evidence of the old finding is carried as well; only       *)
(* last_seen is updated.                                                   *)
CarryEvidence(previous, f, t) ==
  IF \E g \in previous : g.fp = f.fp
  THEN LET g == CHOOSE g \in previous : g.fp = f.fp
       IN  [f EXCEPT !.first = g.first, !.last = t, !.obs = @ \cup g.obs]
  ELSE f
CarryLastOnly(previous, f, t) ==
  IF \E g \in previous : g.fp = f.fp THEN [f EXCEPT !.last = t] ELSE f

(* merge_across_scans *)
CarryForward(previous, f, t) ==
  IF \E g \in previous : g.fp = f.fp
  THEN [f EXCEPT !.first = (CHOOSE g \in previous : g.fp = f.fp).first,
                 !.last  = t]
  ELSE f

-----------------------------------------------------------------------------
Init ==
  /\ rowState      = [s \in Scans |-> "absent"]
  /\ createdAt     = [s \in Scans |-> 0]
  /\ finishedAt    = [s \in Scans |-> 0]
  /\ audit         = [s \in Scans |-> <<>>]
  /\ obsRows       = {}
  /\ findingRows   = {}
  /\ pc            = [r \in Runs |-> "new"]
  /\ memState      = [r \in Runs |-> "created"]
  /\ granted       = [r \in Runs |-> FALSE]
  /\ plan          = [r \in Runs |-> <<>>]
  /\ idx           = [r \in Runs |-> 1]
  /\ seeds         = [r \in Runs |-> {}]
  /\ discovered    = [r \in Runs |-> {}]
  /\ pending       = [r \in Runs |-> {}]
  /\ enginesRun    = [r \in Runs |-> {}]
  /\ enginesFailed = [r \in Runs |-> {}]
  /\ obs           = [r \in Runs |-> {}]
  /\ todo          = [r \in Runs |-> {}]
  /\ scopeOk      = [r \in Runs |-> FALSE]
  /\ findings      = [r \in Runs |-> {}]
  /\ valid         \in SUBSET Targets
  /\ now           = 0
  /\ losses        = 0
  /\ openTasks     = [r \in Runs |-> {}]
  /\ raised        = [r \in Runs |-> {}]

Goto(r, from, to) ==
  /\ pc[r] = from
  /\ pc' = [pc EXCEPT ![r] = to]

(* Mutant: an end of the scan is not recorded in the audit trail. *)
SetStateEndUnrecorded(r, dst) ==
  LET s == ScanOf[r] IN
  /\ CanTransition(memState[r], dst)
  /\ memState' = [memState EXCEPT ![r] = dst]
  /\ rowState' = [rowState EXCEPT ![s] = dst]
  /\ IF dst \in TerminalStates
     THEN /\ now' = now + 1
          /\ finishedAt' = [finishedAt EXCEPT ![s] = now + 1]
          /\ UNCHANGED audit
     ELSE /\ audit' = [audit EXCEPT ![s] = Append(@, dst)]
          /\ UNCHANGED <<now, finishedAt>>
  /\ UNCHANGED <<createdAt, obsRows, findingRows>>

(* _set_state: the guard reads the in-memory scan; one transaction writes  *)
(* the scan row and its audit record.  No run asks for the state it is in, *)
(* so the early return for that case is never taken.                       *)
SetState(r, dst) ==
  LET s == ScanOf[r] IN
  /\ CanTransition(memState[r], dst)
  /\ memState' = [memState EXCEPT ![r] = dst]
  /\ rowState' = [rowState EXCEPT ![s] = dst]
  /\ audit'    = [audit EXCEPT ![s] = Append(@, dst)]
  /\ IF dst \in TerminalStates
     THEN /\ now' = now + 1
          /\ finishedAt' = [finishedAt EXCEPT ![s] = now + 1]
     ELSE UNCHANGED <<now, finishedAt>>
  /\ UNCHANGED <<createdAt, obsRows, findingRows>>

(* A caller creates the scan, if it has not, and calls run with it. *)
Submit(r) ==
  LET s == ScanOf[r] IN
  /\ Goto(r, "new", "submitted")
  /\ IF createdAt[s] = 0
     THEN /\ now' = now + 1
          /\ createdAt' = [createdAt EXCEPT ![s] = now + 1]
     ELSE UNCHANGED <<now, createdAt>>
  /\ UNCHANGED <<ctxVars, resultVars, rowState, finishedAt, audit, obsRows,
                 findingRows, memState, loopVars, worldVars>>

(* run begins: the authorization is read here, once. *)
EnterQueued(r) ==
  /\ Goto(r, "submitted", "queued")
  /\ granted' = [granted EXCEPT ![r] = TargetOf[ScanOf[r]] \in valid]
  /\ SetState(r, "queued")
  /\ UNCHANGED <<resultVars, plan, loopVars, scopeOk, worldVars>>

EnterPlanning(r) ==
  /\ Goto(r, "queued", "planning")
  /\ SetState(r, "planning")
  /\ UNCHANGED <<ctxVars, resultVars, loopVars, worldVars>>

RefuseUnauthorized(r) ==
  /\ ~granted[r]
  /\ Goto(r, "planning", "returned")
  /\ SetState(r, "failed")
  /\ UNCHANGED <<ctxVars, resultVars, loopVars, worldVars>>

(* Mutant: the authorization is not looked at before the scan runs. *)
EnterRunningUnchecked(r) ==
  /\ Goto(r, "planning", "task")
  /\ \E p \in Plans : plan' = [plan EXCEPT ![r] = p]
  /\ SetState(r, "running")
  /\ scopeOk' = [scopeOk EXCEPT ![r] = TargetOf[ScanOf[r]] \in valid]
  /\ UNCHANGED <<resultVars, granted, loopVars, worldVars>>

(* The plan, and the scope engine of the discovery feedback, which reads   *)
(* the authorization for itself.                                           *)
EnterRunning(r) ==
  /\ granted[r]
  /\ Goto(r, "planning", "task")
  /\ \E p \in Plans : plan' = [plan EXCEPT ![r] = p]
  /\ SetState(r, "running")
  /\ scopeOk' = [scopeOk EXCEPT ![r] = TargetOf[ScanOf[r]] \in valid]
  /\ UNCHANGED <<resultVars, granted, loopVars, worldVars>>

-----------------------------------------------------------------------------
(* The engine loop.  In each step of _run_engine the adapter is awaited.   *)

AtTask(r) == pc[r] = "task" /\ idx[r] <= Len(plan[r])

(* Mutant: the task of an unbound engine is passed over silently. *)
SkipUnboundSilently(r) ==
  /\ AtTask(r)
  /\ CurrentTask(r).engine \notin Bound
  /\ idx' = [idx EXCEPT ![r] = @ + 1]
  /\ UNCHANGED <<ctxVars, reportVars, resultVars, dbVars, pc, memState, seeds,
                 discovered, pending, openTasks, raised, now, worldVars>>

SkipUnbound(r) ==
  /\ AtTask(r)
  /\ CurrentTask(r).engine \notin Bound
  /\ enginesFailed' = [enginesFailed EXCEPT ![r] = @ \cup {idx[r]}]
  /\ idx' = [idx EXCEPT ![r] = @ + 1]
  /\ UNCHANGED <<ctxVars, resultVars, dbVars, pc, memState, seeds, discovered,
                 pending, enginesRun, openTasks, raised, now, worldVars>>

StartEngine(r) ==
  /\ AtTask(r)
  /\ CurrentTask(r).engine \in Bound
  /\ Goto(r, "task", "health")
  /\ \E S \in SeedChoices(r) : seeds' = [seeds EXCEPT ![r] = S]
  /\ UNCHANGED <<ctxVars, reportVars, resultVars, dbVars, memState, idx,
                 discovered, pending, openTasks, raised, now, worldVars>>

(* The engine returned O: it is listed as run whatever happened to it.     *)
EngineReturns(r, O) ==
  /\ pc'         = [pc EXCEPT ![r] = "task"]
  /\ enginesRun' = [enginesRun EXCEPT ![r] = @ \cup {idx[r]}]
  /\ idx'        = [idx EXCEPT ![r] = @ + 1]
  /\ obs'        = [obs EXCEPT ![r] = @ \cup O]
  /\ pending'    = [pending EXCEPT ![r] = {}]
  /\ LET allowed == {UrlOf[o.fp] : o \in {p \in O : scopeOk[r]}} \cap InScope
     IN  \E D \in CollectDiscovered(discovered[r], allowed) :
           discovered' = [discovered EXCEPT ![r] = D]
  /\ UNCHANGED <<ctxVars, dbVars, memState, seeds, enginesFailed, todo,
                 findings, now, worldVars>>

Advance(r, from, to) ==
  /\ Goto(r, from, to)
  /\ UNCHANGED <<ctxVars, reportVars, resultVars, dbVars, memState, idx, seeds,
                 discovered, raised, worldVars>>

EngineHealthy(r) ==
  Advance(r, "health", "prepare") /\ UNCHANGED <<pending, openTasks, now>>

EngineUnavailable(r) ==
  /\ pc[r] = "health"
  /\ EngineReturns(r, {})
  /\ UNCHANGED <<openTasks, raised>>

EnginePrepare(r) ==
  /\ Advance(r, "prepare", "execute")
  /\ openTasks' = [openTasks EXCEPT ![r] = @ \cup {idx[r]}]
  /\ UNCHANGED <<pending, now>>

EngineExecute(r) ==
  Advance(r, "execute", "collect") /\ UNCHANGED <<pending, openTasks, now>>

(* collect_results and normalize_results: any findings the engine can make *)
(* with any confidence it can report.                                      *)
EngineCollect(r) ==
  LET e == CurrentTask(r).engine IN
  /\ Advance(r, "collect", "cleanup")
  /\ \E F \in SUBSET Finds[e] : \E c \in [F -> EngineConfs] :
       pending' = [pending EXCEPT ![r] =
         {[run |-> r, task |-> idx[r], engine |-> e, fp |-> f, conf |-> c[f],
           at |-> now + 1, probe |-> "none"] : f \in F}]
  /\ now' = now + 1
  /\ UNCHANGED openTasks

EngineCleanup(r) ==
  /\ pc[r] = "cleanup"
  /\ EngineReturns(r, pending[r])
  /\ openTasks' = [openTasks EXCEPT ![r] = @ \ {idx[r]}]
  /\ UNCHANGED raised

(* Mutant: the exception is not caught. *)
EngineRaisesOut(r) ==
  /\ pc[r] \in EngineSteps
  /\ pc' = [pc EXCEPT ![r] = "raised"]
  /\ raised' = [raised EXCEPT ![r] = @ \cup {idx[r]}]
  /\ UNCHANGED <<ctxVars, reportVars, resultVars, dbVars, memState, idx, seeds,
                 discovered, pending, openTasks, now, worldVars>>

(* Mutant: what was normalized before the exception is kept. *)
EngineRaisesKeeping(r) ==
  /\ pc[r] \in EngineSteps
  /\ EngineReturns(r, pending[r])
  /\ raised' = [raised EXCEPT ![r] = @ \cup {idx[r]}]
  /\ UNCHANGED openTasks

(* Any exception of the adapter, cleanup included: the engine contributes  *)
(* nothing and cleanup is not called.                                      *)
EngineRaises(r) ==
  /\ pc[r] \in EngineSteps
  /\ EngineReturns(r, {})
  /\ raised' = [raised EXCEPT ![r] = @ \cup {idx[r]}]
  /\ UNCHANGED openTasks

(* Mutant: candidates are not stored. *)
PersistFirmObservations(r) ==
  /\ idx[r] > Len(plan[r])
  /\ Goto(r, "task", "observed")
  /\ obsRows' = obsRows \cup {o \in obs[r] : o.conf # "tentative"}
  /\ UNCHANGED <<scanVars, ctxVars, resultVars, findingRows, memState,
                 loopVars, now, worldVars>>

(* One transaction, none when there is nothing to store. *)
PersistObservations(r) ==
  /\ idx[r] > Len(plan[r])
  /\ Goto(r, "task", "observed")
  /\ obsRows' = obsRows \cup obs[r]
  /\ UNCHANGED <<scanVars, ctxVars, resultVars, findingRows, memState,
                 loopVars, now, worldVars>>

-----------------------------------------------------------------------------
(* Validation, correlation, risk, reporting *)

(* The prober is built after the commit, with a scope engine of its own    *)
(* that reads the authorization again.                                     *)
EnterCorrelating(r) ==
  /\ Goto(r, "observed", "validate")
  /\ SetState(r, "correlating")
  /\ todo' = [todo EXCEPT ![r] = IF ValidateFindings THEN obs[r] ELSE {}]
  /\ scopeOk' = [scopeOk EXCEPT ![r] = TargetOf[ScanOf[r]] \in valid]
  /\ UNCHANGED <<granted, plan, loopVars, obs, findings, worldVars>>

ValidateOne(r) ==
  /\ pc[r] = "validate"
  /\ \E o \in todo[r] :
       /\ todo' = [todo EXCEPT ![r] = @ \ {o}]
       /\ \/ /\ KindOf[o.fp] = "other"
             /\ UNCHANGED <<obs, now>>
          \/ /\ KindOf[o.fp] # "other"
             /\ \E probe \in IF scopeOk[r] THEN {"answered", "failed"}
                                            ELSE {"failed"} :
                \E verdict \in Verdicts(KindOf[o.fp], probe) :
                  obs' = [obs EXCEPT ![r] =
                            (@ \ {o}) \cup {Revised(o, verdict, probe, now + 1)}]
             /\ now' = now + 1
  /\ UNCHANGED <<ctxVars, dbVars, pc, memState, loopVars, findings, worldVars>>

(* validate() raised: the observation is kept as the engine reported it. *)
ValidateRaises(r) ==
  /\ pc[r] = "validate"
  /\ \E o \in todo[r] :
       /\ KindOf[o.fp] # "other"
       /\ todo' = [todo EXCEPT ![r] = @ \ {o}]
  /\ UNCHANGED <<ctxVars, dbVars, pc, memState, loopVars, obs, findings, now,
                 worldVars>>

(* correlate, then _merge_history in a transaction that only reads. *)
CorrelateAndCarry(r) ==
  LET s == ScanOf[r] IN
  /\ todo[r] = {}
  /\ Goto(r, "validate", "correlated")
  /\ findings' = [findings EXCEPT ![r] =
       {CarryForward(PreviousFindings(s), f, now + 1) : f \in Correlate(s, obs[r])}]
  /\ now' = now + 1
  /\ UNCHANGED <<ctxVars, dbVars, memState, loopVars, obs, todo, worldVars>>

(* Mutant: false positives are left with the default score. *)
EnterValidatingUnscored(r) ==
  /\ Goto(r, "correlated", "validating")
  /\ SetState(r, "validating")
  /\ findings' = [findings EXCEPT ![r] =
       {IF f.conf = "false_positive" THEN f ELSE [f EXCEPT !.risk = f.conf] : f \in @}]
  /\ UNCHANGED <<ctxVars, loopVars, obs, todo, worldVars>>

EnterValidating(r) ==
  /\ Goto(r, "correlated", "validating")
  /\ SetState(r, "validating")
  /\ findings' = [findings EXCEPT ![r] = {[f EXCEPT !.risk = f.conf] : f \in @}]
  /\ UNCHANGED <<ctxVars, loopVars, obs, todo, worldVars>>

EnterReporting(r) ==
  /\ Goto(r, "validating", "reporting")
  /\ SetState(r, "reporting")
  /\ UNCHANGED <<ctxVars, resultVars, loopVars, worldVars>>

(* Mutant: the upsert ignores the scan. *)
PersistByFingerprint(r) ==
  /\ Goto(r, "reporting", "assess")
  /\ findingRows' = {g \in findingRows : \A f \in findings[r] : f.fp # g.fp}
                      \cup findings[r]
  /\ UNCHANGED <<scanVars, ctxVars, resultVars, obsRows, memState, loopVars,
                 now, worldVars>>

(* FindingRepository.upsert, keyed by scan and fingerprint. *)
PersistFindings(r) ==
  /\ Goto(r, "reporting", "assess")
  /\ findingRows' =
       {g \in findingRows :
          \A f \in findings[r] : f.scan # g.scan \/ f.fp # g.fp}
       \cup findings[r]
  /\ UNCHANGED <<scanVars, ctxVars, resultVars, obsRows, memState, loopVars,
                 now, worldVars>>

(* The analyst answers, or is disabled, or failed inside its own handler. *)
Assess(r) ==
  /\ Goto(r, "assess", "complete")
  /\ UNCHANGED <<ctxVars, resultVars, dbVars, memState, loopVars, now,
                 worldVars>>

(* An answer whose priority_rank int() rejects raises out of assess, and   *)
(* out of run.                                                             *)
AssessRaises(r) ==
  /\ AiMayRaise
  /\ findings[r] # {}
  /\ Goto(r, "assess", "raised")
  /\ UNCHANGED <<ctxVars, resultVars, dbVars, memState, loopVars, now,
                 worldVars>>

Complete(r) ==
  /\ Goto(r, "complete", "returned")
  /\ SetState(r, "completed")
  /\ UNCHANGED <<ctxVars, resultVars, loopVars, worldVars>>

-----------------------------------------------------------------------------
(* The world *)

(* The process dies, the task is cancelled, or a commit fails and run      *)
(* raises: the local variables are gone, the rows stay.                    *)
LoseRun(r) ==
  /\ losses < MaxLosses
  /\ pc[r] \notin Over \cup {"new"}
  /\ pc' = [pc EXCEPT ![r] = "lost"]
  /\ losses' = losses + 1
  /\ UNCHANGED <<ctxVars, resultVars, dbVars, memState, loopVars, now, valid>>

AuthorizationExpires(t) ==
  /\ t \in valid \cap MayExpire
  /\ valid' = valid \ {t}
  /\ UNCHANGED <<ctxVars, resultVars, dbVars, pc, memState, loopVars, now,
                 losses>>

EngineStep(r) ==
  \/ EngineHealthy(r) \/ EngineUnavailable(r) \/ EnginePrepare(r)
  \/ EngineExecute(r) \/ EngineCollect(r) \/ EngineCleanup(r)
  \/ EngineRaises(r)

(* What run r does once it has been called. *)
Step(r) ==
  \/ EnterQueued(r) \/ EnterPlanning(r) \/ RefuseUnauthorized(r)
  \/ EnterRunning(r) \/ SkipUnbound(r) \/ StartEngine(r) \/ EngineStep(r)
  \/ PersistObservations(r) \/ EnterCorrelating(r) \/ ValidateOne(r)
  \/ ValidateRaises(r) \/ CorrelateAndCarry(r) \/ EnterValidating(r)
  \/ EnterReporting(r) \/ PersistFindings(r) \/ Assess(r) \/ AssessRaises(r)
  \/ Complete(r)

(* Every call there was has ended. *)
AllOver == (\A r \in Runs : pc[r] \in Over) /\ UNCHANGED vars

Next ==
  \/ \E r \in Runs : Submit(r) \/ Step(r) \/ LoseRun(r)
  \/ \E t \in Targets : AuthorizationExpires(t)
  \/ AllOver

(* Each call makes progress while it can: adapters, probes and the AI      *)
(* provider return or raise (their subprocesses and HTTP calls have time   *)
(* limits) and the event loop runs every ready task.  Nobody has to submit *)
(* a scan, and nothing has to fail.                                        *)
Fairness == \A r \in Runs : WF_vars(Step(r))

Spec     == Init /\ [][Next]_vars
FairSpec == Spec /\ Fairness

-----------------------------------------------------------------------------
(* Types *)

(* Every variable holds a value of the kind the code gives it. *)
TypeOK ==
  /\ rowState \in [Scans -> ScanState \cup {"absent"}]
  /\ createdAt \in [Scans -> Nat] /\ finishedAt \in [Scans -> Nat]
  /\ audit \in [Scans -> Seq(ScanState)]
  /\ obsRows \subseteq Observations
  /\ findingRows \subseteq Findings
  /\ pc \in [Runs -> PCs]
  /\ memState \in [Runs -> ScanState]
  /\ granted \in [Runs -> BOOLEAN] /\ scopeOk \in [Runs -> BOOLEAN]
  /\ plan \in [Runs -> Seq(Tasks)]
  /\ idx \in [Runs -> Task]
  /\ seeds \in [Runs -> SUBSET Urls] /\ discovered \in [Runs -> SUBSET Urls]
  /\ pending \in [Runs -> SUBSET Observations]
  /\ enginesRun \in [Runs -> SUBSET Task]
  /\ enginesFailed \in [Runs -> SUBSET Task]
  /\ obs \in [Runs -> SUBSET Observations]
  /\ todo \in [Runs -> SUBSET Observations]
  /\ findings \in [Runs -> SUBSET Findings]
  /\ valid \subseteq Targets
  /\ now \in Nat /\ losses \in Nat
  /\ openTasks \in [Runs -> SUBSET Task] /\ raised \in [Runs -> SUBSET Task]

-----------------------------------------------------------------------------
(* What the database and the reports may be trusted for *)

RowsOf(s)     == {o \in obsRows : ScanOf[o.run] = s}
FindingsOf(s) == {f \in findingRows : f.scan = s}

(* The abstract life of a scan, as a reader of the database sees it. *)
Life == INSTANCE ScanLifecycle WITH
          Evidence  <- ObsIds,
          state     <- [s \in Scans |-> IF rowState[s] = "absent" THEN "created"
                                                                  ELSE rowState[s]],
          evidence  <- [s \in Scans |-> {ObsId(o) : o \in RowsOf(s)}],
          published <- [s \in Scans |-> UNION {f.obs : f \in FindingsOf(s)}]

(* The rows of every scan live the life ScanLifecycle allows: legal        *)
(* transitions only, evidence before findings, nothing added or rewritten  *)
(* later, completed only with all evidence published (orchestrator.py:9,   *)
(* "the only component that mutates scan state and writes findings").      *)
LifecycleRefined == Life!LifeSpec

(* A finding row cites only observations that are stored, of its own scan  *)
(* and with its own fingerprint, at least one, and no observation is cited *)
(* by two findings: what correlate groups is what add_many has stored,     *)
(* whatever was lost or interleaved between the two transactions.          *)
FindingsStandOnStoredEvidence ==
  /\ \A f \in findingRows :
       /\ f.obs # {}
       /\ \A i \in f.obs : \E o \in RowsOf(f.scan) : ObsId(o) = i /\ o.fp = f.fp
  /\ \A f, g \in findingRows : f.obs \cap g.obs # {} => f = g

(* A published finding was scored, with the confidence it is published     *)
(* with: risk is applied after history and before the findings are stored. *)
PublishedFindingsAreScored == \A f \in findingRows : f.risk = f.conf

(* first_seen is never after last_seen, and last_seen never in the future, *)
(* although both are overwritten from another scan's rows.                 *)
SeenInOrder ==
  \A f \in findingRows : f.first <= f.last /\ f.last <= now

(* first_seen is carried from a completed scan into the same finding of    *)
(* the target's next scan, when that one was created after the first had   *)
(* finished and no third scan was created after the first.                 *)
FirstSeenCarried ==
  \A f, g \in findingRows :
    LET s == f.scan
        n == g.scan
    IN  (/\ f.fp = g.fp
         /\ TargetOf[s] = TargetOf[n]
         /\ rowState[s] = "completed"
         /\ finishedAt[s] < createdAt[n]
         /\ \A q \in Scans : createdAt[q] > createdAt[s] => q = n)
        => g.first = f.first

(* The times of the findings, over all scans of a target (orchestrator.py: *)
(* 313, _merge_history).                                                   *)
HistoryIsConsistent == SeenInOrder /\ FirstSeenCarried

(* When the loop is over every task of the plan is reported exactly once,  *)
(* as run or as failed, whatever its engine did ("degrades coverage but    *)
(* never aborts the scan", orchestrator.py:11).                            *)
TasksAccountedOnce ==
  \A r \in Runs :
    /\ enginesRun[r] \cap enginesFailed[r] = {}
    /\ pc[r] \notin EngineSteps \cup {"task", "lost"} =>
         enginesRun[r] \cup enginesFailed[r] = 1 .. Len(plan[r])

(* A scan whose target had no valid authorization when run began never     *)
(* reaches an engine and leaves nothing behind but its failed row.         *)
UnauthorizedIsInert ==
  \A r \in Runs :
    ~granted[r] =>
      /\ pc[r] \notin EngineSteps
      /\ enginesRun[r] = {} /\ openTasks[r] = {}
      /\ \A o \in obsRows : o.run # r
      /\ pc[r] = "returned" => rowState[ScanOf[r]] = "failed"

(* Engines are handed the base URLs and, in the audit stage only, URLs     *)
(* that an earlier engine reported and the scope engine allowed.           *)
OnlyAuditIsFed ==
  \A r \in Runs :
    pc[r] \in EngineSteps =>
      \/ seeds[r] = BaseUrls
      \/ /\ CurrentTask(r).stage = "audit"
         /\ seeds[r] \ BaseUrls \subseteq discovered[r] \cap InScope

(* What an engine prepared is released when its attempt is over, unless    *)
(* its adapter raised: the except branch of _run_engine skips cleanup().   *)
OnlyFailuresAreLeftOpen ==
  \A r \in Runs :
    openTasks[r] \subseteq
      raised[r] \cup (IF pc[r] \in EngineSteps \cup {"lost"} THEN {idx[r]} ELSE {})

(* The feedback loop is bounded (orchestrator.py:46, "keep traffic sane"): *)
(* the caps are tested late, so the list of discovered URLs may outgrow    *)
(* MAX_DISCOVERED, but by one URL per task after the first, and the seeds  *)
(* outgrow both MAX_FED_SEEDS and the base URLs by none or one.            *)
FeedbackIsBounded ==
  \A r \in Runs :
    /\ idx[r] = 1 => discovered[r] = {}
    /\ idx[r] > 1 => Cardinality(discovered[r]) <= MaxDiscovered + idx[r] - 2
    /\ \/ Cardinality(seeds[r]) <= MaxFedSeeds
       \/ Cardinality(seeds[r]) <= Cardinality(BaseUrls) + 1

(* What engines discover is fed back to later ones, within these limits.   *)
FeedbackIsContained == OnlyAuditIsFed /\ FeedbackIsBounded

(* The audit trail of a scan tells its life: it shows legal transitions    *)
(* only, from "queued" on, and its last record is the state of the row,    *)
(* wherever the run was interrupted.  It needs OneRunPerScan: the guard of *)
(* _set_state reads the scan object it is given, not the row.              *)
AuditTellsTheLife ==
  \A s \in Scans :
    LET life == <<"created">> \o audit[s] IN
    /\ \A i \in 1 .. Len(life) - 1 : CanTransition(life[i], life[i + 1])
    /\ audit[s] # <<>> => rowState[s] = audit[s][Len(audit[s])]

(* What a run holds was returned by an engine attempt that ended well: an  *)
(* engine that raised, even in cleanup after normalizing its findings,     *)
(* contributes nothing, although its task is listed as run.                *)
EvidenceOfEndedAttempts ==
  \A r \in Runs : \A o \in obs[r] :
    /\ o.task \in enginesRun[r] \ (raised[r] \cup openTasks[r])
    /\ plan[r][o.task].engine = o.engine

(* Both sides of an attempt at an engine that may fail at any await: what  *)
(* it leaves behind in the engine and in the scan.                         *)
AttemptsAccounted == OnlyFailuresAreLeftOpen /\ EvidenceOfEndedAttempts

(* A run never raises IllegalTransition: at each commit the in-memory      *)
(* state allows the next one.                                              *)
CommitTo ==
  [submitted |-> "queued", queued |-> "planning", observed |-> "correlating",
   correlated |-> "validating", validating |-> "reporting",
   complete |-> "completed"]
NoIllegalTransition ==
  \A r \in Runs :
    /\ pc[r] \in DOMAIN CommitTo => CanTransition(memState[r], CommitTo[pc[r]])
    /\ pc[r] = "planning" => {"running", "failed"} \subseteq Transitions(memState[r])

(* A scan that was queued ends, completed or failed, whatever its engines  *)
(* and probes do: an engine that raises, is unavailable or has no adapter  *)
(* costs coverage, not the scan (orchestrator.py:11).  Nobody takes up a   *)
(* run whose process is lost, and assess lets a rank that is no number     *)
(* out of run when the findings are stored.                                *)
EveryScanSettles ==
  \A r \in Runs :
    rowState[ScanOf[r]] = "queued" ~>
      \/ rowState[ScanOf[r]] \in {"completed", "failed"}
      \/ pc[r] = "lost"
      \/ AiMayRaise /\ pc[r] = "raised" /\ rowState[ScanOf[r]] = "reporting"

-----------------------------------------------------------------------------
(* A claim of the repository that the code does not keep; the run that     *)
(* checks it ends in a counterexample.                                     *)

(* scan/validation.py:92, CONFIRMED by re-verification means the condition *)
(* still holds on a fresh request: some answer to the probe showed it.     *)
ConfirmedWasReproduced ==
  \A r \in Runs : \A o \in obs[r] :
    o.conf = "confirmed" /\ o.probe # "none" => o.probe = "answered"
=============================================================================
