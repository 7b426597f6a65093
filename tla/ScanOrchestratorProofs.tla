----------------------- MODULE ScanOrchestratorProofs -----------------------
(***************************************************************************)
(* Proofs about the orchestrator, for any number of runs, scans, engines,  *)
(* plans and observations: first about single runs, whether or not two of  *)
(* them are given the same scan, then about the rows of the database when  *)
(* every scan is run by one call of run.                                   *)
(***************************************************************************)
EXTENDS ScanOrchestratorInvariants, FiniteSetTheorems, TLAPS, WellFoundedInduction

-----------------------------------------------------------------------------
(* Facts about the operators *)

(* Earliest: the min() that correlation takes of the collection times of a *)
(* group is one of these times, and the least.                             *)
LEMMA EarliestIsLeast ==
  ASSUME NEW T \in SUBSET Nat, T # {}
  PROVE  Earliest(T) \in T /\ \A u \in T : Earliest(T) <= u
<1>1. PICK t \in T : \A u \in T : <<u, t>> \notin OpToRel(<, Nat)
  BY NatLessThanWellFounded, WFMin
<1>2. \A u \in T : t <= u
  <2> SUFFICES ASSUME NEW u \in T, u < t PROVE FALSE
    OBVIOUS
  <2>1. <<u, t>> \in Nat \X Nat /\ <<u, t>>[1] < <<u, t>>[2]
    OBVIOUS
  <2>2. <<u, t>> \in OpToRel(<, Nat)
    BY <2>1 DEF OpToRel
  <2> QED
    BY <1>1, <2>2
<1> QED
  BY <1>2 DEF Earliest

(* Latest: likewise for max(), when the times are those of the past.       *)
LEMMA LatestIsGreatest ==
  ASSUME NEW T \in SUBSET Nat, T # {}, NEW n \in Nat, \A t \in T : t <= n
  PROVE  Latest(T) \in T /\ \A u \in T : u <= Latest(T)
<1> DEFINE D == {d \in Nat : \E t \in T : d = n - t}
<1>1. D \in SUBSET Nat /\ D # {}
  <2>1. PICK t \in T : TRUE
    OBVIOUS
  <2>2. n - t \in D
    BY <2>1
  <2> QED
    BY <2>2
<1>2. PICK d \in D : \A e \in D : d <= e
  <2> HIDE DEF D
  <2> QED
    BY <1>1, EarliestIsLeast
<1>3. PICK t \in T : d = n - t
  OBVIOUS
<1>4. \A u \in T : u <= t
  <2> SUFFICES ASSUME NEW u \in T PROVE u <= t
    OBVIOUS
  <2>1. u \in Nat /\ t \in Nat /\ u <= n /\ t <= n
    OBVIOUS
  <2>2. n - u \in D
    BY <2>1
  <2>3. n - t <= n - u
    BY <1>2, <1>3, <2>2
  <2> QED
    BY <2>1, <2>3
<1> QED
  BY <1>4 DEF Latest

(* _collect_discovered only adds allowed URLs to the list.                 *)
LEMMA CollectDiscoveredAdds ==
  ASSUME NEW into, NEW allowed, NEW D \in CollectDiscovered(into, allowed)
  PROVE  into \subseteq D /\ D \subseteq into \cup allowed
BY DEF CollectDiscovered

(* _merge_seeds keeps every base URL and only adds discovered ones.        *)
LEMMA MergeSeedsAdds ==
  ASSUME NEW base, NEW extra, NEW S \in MergeSeeds(base, extra)
  PROVE  base \subseteq S /\ S \subseteq base \cup extra
BY DEF MergeSeeds

(* What correlation and history make of past observations is a set of      *)
(* findings that were seen in order, in the past.                          *)
LEMMA MergeGroupType ==
  ASSUME NEW s \in Scans, NEW f \in Fps, NEW G \in SUBSET Observations, G # {},
         NEW n \in Nat, \A o \in G : o.at <= n
  PROVE  /\ MergeGroup(s, f, G) \in Findings
         /\ MergeGroup(s, f, G).first <= MergeGroup(s, f, G).last
         /\ MergeGroup(s, f, G).last <= n
<1> DEFINE T == {o.at : o \in G}
<1>1. T \in SUBSET Nat /\ T # {} /\ \A t \in T : t <= n
  BY DEF Observations
<1> HIDE DEF T
<1>2. Earliest(T) \in T /\ \A u \in T : Earliest(T) <= u
  BY <1>1, EarliestIsLeast
<1>3. Latest(T) \in T /\ \A u \in T : u <= Latest(T)
  BY <1>1, LatestIsGreatest
<1>4. MergedConfidence(G) \in Confidences
  BY DEF MergedConfidence, Confidences
<1>5. {ObsId(o) : o \in G} \in SUBSET ObsIds
  BY DEF ObsId, ObsIds, Observations
<1>6. MergeGroup(s, f, G) =
        [scan |-> s, fp |-> f, conf |-> MergedConfidence(G),
         obs |-> {ObsId(o) : o \in G}, first |-> Earliest(T),
         last |-> Latest(T), risk |-> "unscored"]
  BY DEF MergeGroup, T
<1>7. Earliest(T) \in Nat /\ Latest(T) \in Nat /\ Earliest(T) <= Latest(T) /\ Latest(T) <= n
  BY <1>1, <1>2, <1>3
<1> HIDE DEF MergedConfidence
<1> QED
  BY <1>4, <1>5, <1>6, <1>7 DEF Findings

(* Correlation yields one finding per fingerprint, seen in the past.       *)
LEMMA CorrelateType ==
  ASSUME NEW s \in Scans, NEW O \in SUBSET Observations,
         NEW n \in Nat, \A o \in O : o.at <= n, NEW f \in Correlate(s, O)
  PROVE  f \in Findings /\ f.first <= f.last /\ f.last <= n
<1>1. PICK p \in {o.fp : o \in O} : f = MergeGroup(s, p, {o \in O : o.fp = p})
  BY DEF Correlate
<1> DEFINE G == {o \in O : o.fp = p}
<1>2. p \in Fps /\ G \in SUBSET Observations /\ G # {} /\ \A o \in G : o.at <= n
  BY DEF Observations
<1> HIDE DEF G
<1> QED
  BY <1>1, <1>2, MergeGroupType DEF G

(* The carried finding has the first_seen of the old one and is seen now.  *)
LEMMA CarryForwardType ==
  ASSUME NEW P \in SUBSET Findings, NEW f \in Findings, NEW n \in Nat,
         NEW t \in Nat, n <= t,
         \A g \in P \cup {f} : g.first <= g.last /\ g.last <= n
  PROVE  /\ CarryForward(P, f, t) \in Findings
         /\ CarryForward(P, f, t).first <= CarryForward(P, f, t).last
         /\ CarryForward(P, f, t).last <= t
         /\ CarryForward(P, f, t).scan = f.scan
         /\ CarryForward(P, f, t).fp = f.fp
         /\ CarryForward(P, f, t).obs = f.obs
<1> DEFINE old == CHOOSE g \in P : g.fp = f.fp
           c   == [f EXCEPT !.first = old.first, !.last = t]
<1>1. CASE \E g \in P : g.fp = f.fp
  <2>1. old \in P
    BY <1>1
  <2>2. CarryForward(P, f, t) = c
    BY <1>1 DEF CarryForward
  <2> HIDE DEF old
  <2>3. old.first \in Nat /\ old.last \in Nat /\ old.first <= old.last /\ old.last <= n
    BY <2>1 DEF Findings
  <2>4. c \in Findings
    BY <2>3 DEF Findings
  <2>5. c.first = old.first /\ c.last = t /\ c.scan = f.scan /\ c.fp = f.fp /\ c.obs = f.obs
    BY DEF Findings
  <2>6. old.first <= t
    BY <2>3
  <2> HIDE DEF c
  <2> QED
    BY <2>2, <2>4, <2>5, <2>6
<1>2. CASE ~ \E g \in P : g.fp = f.fp
  <2>1. CarryForward(P, f, t) = f
    BY <1>2 DEF CarryForward
  <2>2. f.first <= f.last /\ f.last <= n /\ f.last \in Nat
    BY DEF Findings
  <2>3. f.last <= t
    BY <2>2
  <2> QED
    BY <2>1, <2>2, <2>3
<1> QED
  BY <1>1, <1>2

-----------------------------------------------------------------------------
(* Types, clock and loop *)

(* Timestamps stay in the past as long as the clock does not go back.      *)
LEMMA TimesKept ==
  ASSUME TypeOK, TimesPast, now' \in Nat, now <= now',
         UNCHANGED <<obs, pending, findings, findingRows>>
  PROVE  TimesPast'
<1>1. \A r \in Runs : \A o \in obs[r] \cup pending[r] : o.at <= now'
  <2> SUFFICES ASSUME NEW r \in Runs, NEW o \in obs[r] \cup pending[r]
               PROVE  o.at <= now'
    OBVIOUS
  <2>1. o \in Observations /\ o.at <= now
    BY DEF TypeOK, TimesPast
  <2> QED
    BY <2>1 DEF Observations, TypeOK
<1>2. ASSUME NEW f \in Findings, Stamped(f) PROVE f.first <= f.last /\ f.last <= now'
  BY <1>2 DEF Stamped, Findings, TypeOK
<1>3. \A r \in Runs : \A f \in findings[r] : f.first <= f.last /\ f.last <= now'
  BY <1>2 DEF TimesPast, TypeOK
<1>4. \A f \in findingRows : f.first <= f.last /\ f.last <= now'
  BY <1>2 DEF TimesPast, TypeOK
<1> QED
  BY <1>1, <1>3, <1>4 DEF TimesPast, Stamped

(* _set_state keeps the types, and the clock never goes back.              *)
LEMMA SetStateTypes ==
  ASSUME TypeOK, NEW r \in Runs, NEW dst \in ScanState, SetState(r, dst)
  PROVE  /\ memState' \in [Runs -> ScanState]
         /\ rowState' \in [Scans -> ScanState \cup {"absent"}]
         /\ audit' \in [Scans -> Seq(ScanState)]
         /\ createdAt' \in [Scans -> Nat] /\ finishedAt' \in [Scans -> Nat]
         /\ now' \in Nat /\ now <= now'
         /\ UNCHANGED <<obsRows, findingRows>>
<1>1. ScanOf[r] \in Scans
  BY ConstantsAssumption DEF ConstantsAssumption
<1>2. now' \in Nat /\ now <= now' /\ finishedAt' \in [Scans -> Nat]
  <2>0. now \in Nat /\ now + 1 \in Nat /\ now <= now + 1
    BY DEF TypeOK
  <2>1. CASE dst \in TerminalStates
    <3>1. now' = now + 1 /\ finishedAt' = [finishedAt EXCEPT ![ScanOf[r]] = now + 1]
      BY <2>1 DEF SetState
    <3> QED
      BY <1>1, <2>0, <3>1 DEF TypeOK
  <2>2. CASE dst \notin TerminalStates
    BY <2>2 DEF SetState, TypeOK
  <2> QED
    BY <2>1, <2>2
<1>3. /\ memState' = [memState EXCEPT ![r] = dst]
      /\ rowState' = [rowState EXCEPT ![ScanOf[r]] = dst]
      /\ audit' = [audit EXCEPT ![ScanOf[r]] = Append(@, dst)]
      /\ UNCHANGED <<createdAt, obsRows, findingRows>>
  BY DEF SetState
<1>4. audit' \in [Scans -> Seq(ScanState)]
  <2>1. Append(audit[ScanOf[r]], dst) \in Seq(ScanState)
    BY <1>1 DEF TypeOK
  <2> QED
    BY <1>1, <1>3, <2>1 DEF TypeOK
<1> QED
  BY <1>1, <1>2, <1>3, <1>4 DEF TypeOK

(* A revised observation is the observation, with another confidence.      *)
LEMMA RevisedType ==
  ASSUME NEW o \in Observations, NEW verdict \in Confidences,
         NEW probe \in {"answered", "failed"}, NEW t \in Nat
  PROVE  LET v == Revised(o, verdict, probe, t)
         IN  v \in Observations /\ v.at = t /\ ObsId(v) = ObsId(o) /\ v.run = o.run
<1> DEFINE c == IF o.conf = "confirmed" /\ verdict # "false_positive"
                THEN "confirmed" ELSE verdict
<1>1. c \in Confidences
  BY DEF Confidences
<1> HIDE DEF c
<1>2. [o EXCEPT !.conf = c, !.at = t, !.probe = probe] \in Observations
  BY <1>1 DEF Observations
<1>3. Revised(o, verdict, probe, t) = [o EXCEPT !.conf = c, !.at = t, !.probe = probe]
  BY DEF Revised, c
<1> QED
  BY <1>2, <1>3 DEF Observations, ObsId

(* The two facts about it that the types of the steps need.                *)
LEMMA RevisedIsObservation ==
  ASSUME NEW o \in Observations, NEW verdict \in Confidences,
         NEW probe \in {"answered", "failed"}, NEW t \in Nat
  PROVE  /\ Revised(o, verdict, probe, t) \in Observations
         /\ Revised(o, verdict, probe, t).at = t
BY RevisedType

(* Whatever an engine returned, its task is done and accounted for.        *)
LEMMA EngineReturnsBasic ==
  ASSUME BasicInvariant, NEW r \in Runs, pc[r] \in EngineSteps,
         NEW O \in SUBSET pending[r], EngineReturns(r, O),
         openTasks' \in [Runs -> SUBSET Task], raised' \in [Runs -> SUBSET Task]
  PROVE  BasicInvariant'
<1> USE DEF BasicInvariant
<1>1. O \subseteq Observations /\ idx[r] \in Task
  BY DEF TypeOK
<1>2. discovered' \in [Runs -> SUBSET Urls]
  <2> DEFINE allowed == {UrlOf[o.fp] : o \in {p \in O : scopeOk[r]}} \cap InScope
  <2>1. PICK D \in CollectDiscovered(discovered[r], allowed) :
          discovered' = [discovered EXCEPT ![r] = D]
    BY DEF EngineReturns
  <2>2. allowed \subseteq Urls
    BY ConstantsAssumption DEF ConstantsAssumption
  <2>3. D \subseteq discovered[r] \cup allowed
    BY CollectDiscoveredAdds
  <2> HIDE DEF allowed
  <2> QED
    BY <2>1, <2>2, <2>3 DEF TypeOK
<1>3. /\ pc' = [pc EXCEPT ![r] = "task"]
      /\ enginesRun' = [enginesRun EXCEPT ![r] = @ \cup {idx[r]}]
      /\ idx' = [idx EXCEPT ![r] = @ + 1]
      /\ obs' = [obs EXCEPT ![r] = @ \cup O]
      /\ pending' = [pending EXCEPT ![r] = {}]
      /\ UNCHANGED <<ctxVars, dbVars, memState, seeds, enginesFailed, todo,
                     findings, now, worldVars>>
  BY DEF EngineReturns
<1>4. TypeOK'
  BY <1>1, <1>2, <1>3 DEF TypeOK, PCs, Task, ctxVars, dbVars, worldVars
<1>5. TimesPast'
  BY <1>1, <1>3 DEF TypeOK, TimesPast, Stamped, ctxVars, dbVars
<1>6. LoopProgress'
  <2>1. /\ idx[r] \in Nat \ {0} /\ idx[r] <= Len(plan[r]) /\ Len(plan[r]) \in Nat
        /\ enginesRun[r] \cup enginesFailed[r] = 1 .. idx[r] - 1
        /\ enginesRun[r] \cap enginesFailed[r] = {}
    BY DEF TypeOK, LoopProgress, Task
  <2>2. (1 .. idx[r] - 1) \cup {idx[r]} = 1 .. (idx[r] + 1) - 1
    BY <2>1
  <2>3. idx[r] \notin 1 .. idx[r] - 1 /\ idx[r] + 1 <= Len(plan[r]) + 1
    BY <2>1
  <2>4. /\ pc'[r] = "task" /\ idx'[r] = idx[r] + 1 /\ plan'[r] = plan[r]
        /\ enginesRun'[r] = enginesRun[r] \cup {idx[r]}
        /\ enginesFailed'[r] = enginesFailed[r]
    BY <1>3 DEF TypeOK, ctxVars
  <2>5. \A q \in Runs \ {r} :
          /\ pc'[q] = pc[q] /\ idx'[q] = idx[q] /\ plan'[q] = plan[q]
          /\ enginesRun'[q] = enginesRun[q] /\ enginesFailed'[q] = enginesFailed[q]
    BY <1>3 DEF TypeOK, ctxVars
  <2> DEFINE P(q) ==
        /\ enginesRun'[q] \cap enginesFailed'[q] = {}
        /\ enginesRun'[q] \cup enginesFailed'[q] = 1 .. idx'[q] - 1
        /\ pc'[q] \in BeforeRunning => idx'[q] = 1 /\ plan'[q] = <<>>
        /\ idx'[q] <= Len(plan'[q]) + 1
        /\ pc'[q] \in EngineSteps => idx'[q] <= Len(plan'[q])
        /\ pc'[q] \notin InLoop \cup {"lost"} => idx'[q] = Len(plan'[q]) + 1
  <2>6. P(r)
    <3>1. enginesRun'[r] \cup enginesFailed'[r] = 1 .. idx'[r] - 1
      BY <2>1, <2>2, <2>4
    <3>2. enginesRun'[r] \cap enginesFailed'[r] = {}
      BY <2>1, <2>3, <2>4
    <3> QED
      BY <3>1, <3>2, <2>3, <2>4 DEF BeforeRunning, EngineSteps, InLoop
  <2>7. \A q \in Runs \ {r} : P(q)
    BY <2>5 DEF LoopProgress
  <2> QED
    BY <2>6, <2>7 DEF LoopProgress
<1> QED
  BY <1>4, <1>5, <1>6

(* Types, timestamps and the progress of the loop are kept by every step.  *)
LEMMA BasicStep ==
  ASSUME BasicInvariant, [Next]_vars
  PROVE  BasicInvariant'
<1> USE ConstantsAssumption DEF ConstantsAssumption, BasicInvariant, dbVars, scanVars,
      ctxVars, loopVars, reportVars, resultVars, worldVars
<1>1. ASSUME NEW r \in Runs, Submit(r) PROVE BasicInvariant'
  <2>0. ScanOf[r] \in Scans /\ now' \in Nat /\ now <= now' /\ createdAt' \in [Scans -> Nat]
    <3>0. ScanOf[r] \in Scans /\ now \in Nat /\ now + 1 \in Nat /\ now <= now + 1
      BY DEF TypeOK
    <3>1. CASE createdAt[ScanOf[r]] = 0
      <4>1. now' = now + 1 /\ createdAt' = [createdAt EXCEPT ![ScanOf[r]] = now + 1]
        BY <1>1, <3>1 DEF Submit
      <4> QED
        BY <3>0, <4>1 DEF TypeOK
    <3>2. CASE createdAt[ScanOf[r]] # 0
      BY <1>1, <3>0, <3>2 DEF Submit, TypeOK
    <3> QED
      BY <3>1, <3>2
  <2>1. TypeOK'
    BY <1>1, <2>0 DEF Submit, Goto, TypeOK, PCs
  <2>2. TimesPast'
    BY <1>1, <2>0, TimesKept DEF Submit
  <2>3. LoopProgress'
    BY <1>1 DEF Submit, Goto, TypeOK, LoopProgress, Task, InLoop, EngineSteps, BeforeRunning
  <2> QED
    BY <2>1, <2>2, <2>3
<1>2. ASSUME NEW r \in Runs, EnterQueued(r) PROVE BasicInvariant'
  <2>0. SetState(r, "queued") /\ "queued" \in ScanState
    BY <1>2 DEF EnterQueued, ScanState
  <2>a. granted' \in [Runs -> BOOLEAN]
    BY <1>2 DEF EnterQueued, TypeOK
  <2>1. TypeOK'
    BY <1>2, <2>0, <2>a, SetStateTypes DEF EnterQueued, Goto, TypeOK, PCs
  <2>2. TimesPast'
    BY <1>2, <2>0, SetStateTypes, TimesKept DEF EnterQueued
  <2>3. LoopProgress'
    BY <1>2 DEF EnterQueued, Goto, SetState, TypeOK, LoopProgress, Task, InLoop, EngineSteps, BeforeRunning
  <2> QED
    BY <2>1, <2>2, <2>3
<1>3. ASSUME NEW r \in Runs, EnterPlanning(r) PROVE BasicInvariant'
  <2>0. SetState(r, "planning") /\ "planning" \in ScanState
    BY <1>3 DEF EnterPlanning, ScanState
  <2>1. TypeOK'
    BY <1>3, <2>0, SetStateTypes DEF EnterPlanning, Goto, TypeOK, PCs
  <2>2. TimesPast'
    BY <1>3, <2>0, SetStateTypes, TimesKept DEF EnterPlanning
  <2>3. LoopProgress'
    BY <1>3 DEF EnterPlanning, Goto, SetState, TypeOK, LoopProgress, Task, InLoop, EngineSteps, BeforeRunning
  <2> QED
    BY <2>1, <2>2, <2>3
<1>4. ASSUME NEW r \in Runs, RefuseUnauthorized(r) PROVE BasicInvariant'
  <2>0. SetState(r, "failed") /\ "failed" \in ScanState
    BY <1>4 DEF RefuseUnauthorized, ScanState
  <2>1. TypeOK'
    BY <1>4, <2>0, SetStateTypes DEF RefuseUnauthorized, Goto, TypeOK, PCs
  <2>2. TimesPast'
    BY <1>4, <2>0, SetStateTypes, TimesKept DEF RefuseUnauthorized
  <2>3. LoopProgress'
    BY <1>4 DEF RefuseUnauthorized, Goto, SetState, TypeOK, LoopProgress, Task, InLoop, EngineSteps, BeforeRunning
  <2> QED
    BY <2>1, <2>2, <2>3
<1>5. ASSUME NEW r \in Runs, EnterRunning(r) PROVE BasicInvariant'
  <2>0. SetState(r, "running") /\ "running" \in ScanState
    BY <1>5 DEF EnterRunning, ScanState
  <2>a. scopeOk' \in [Runs -> BOOLEAN] /\ plan' \in [Runs -> Seq(Tasks)]
    BY <1>5 DEF EnterRunning, TypeOK
  <2>1. TypeOK'
    BY <1>5, <2>0, <2>a, SetStateTypes DEF EnterRunning, Goto, TypeOK, PCs
  <2>2. TimesPast'
    BY <1>5, <2>0, SetStateTypes, TimesKept DEF EnterRunning
  <2>3. LoopProgress'
    <3>1. PICK p \in Plans : plan' = [plan EXCEPT ![r] = p]
      BY <1>5 DEF EnterRunning
    <3>2. Len(p) \in Nat
      <4>1. p \in Seq(Tasks)
        OBVIOUS
      <4> QED
        BY <4>1
    <3>3. 1 <= Len(p) + 1
      BY <3>2
    <3> QED
      BY <1>5, <3>1, <3>2, <3>3 DEF EnterRunning, Goto, TypeOK, LoopProgress, Task, InLoop, EngineSteps, BeforeRunning
  <2> QED
    BY <2>1, <2>2, <2>3
<1>6. ASSUME NEW r \in Runs, SkipUnbound(r) PROVE BasicInvariant'
  <2>1. TypeOK'
    BY <1>6 DEF SkipUnbound, AtTask, TypeOK, PCs, EngineSteps, Task
  <2>2. TimesPast'
    BY <1>6 DEF SkipUnbound, AtTask, TypeOK, TimesPast, Stamped
  <2>3. LoopProgress'
    BY <1>6 DEF SkipUnbound, AtTask, TypeOK, LoopProgress, Task, InLoop, EngineSteps, BeforeRunning
  <2> QED
    BY <2>1, <2>2, <2>3
<1>7. ASSUME NEW r \in Runs, StartEngine(r) PROVE BasicInvariant'
  <2>1. TypeOK'
    <3>1. PICK S \in SeedChoices(r) : seeds' = [seeds EXCEPT ![r] = S]
      BY <1>7 DEF StartEngine
    <3>2. S \subseteq BaseUrls \cup discovered[r]
      BY MergeSeedsAdds DEF SeedChoices
    <3>3. S \subseteq Urls
      BY <3>2 DEF TypeOK
    <3> QED
      BY <1>7, <3>1, <3>3 DEF StartEngine, Goto, TypeOK, PCs, EngineSteps
  <2>2. TimesPast'
    BY <1>7 DEF StartEngine, AtTask, Goto, TypeOK, TimesPast, Stamped
  <2>3. LoopProgress'
    BY <1>7 DEF StartEngine, AtTask, Goto, TypeOK, LoopProgress, Task, InLoop, EngineSteps, BeforeRunning
  <2> QED
    BY <2>1, <2>2, <2>3
<1>8. ASSUME NEW r \in Runs, EngineHealthy(r) PROVE BasicInvariant'
  <2>1. TypeOK'
    BY <1>8 DEF EngineHealthy, Advance, Goto, TypeOK, PCs, EngineSteps, Task
  <2>2. TimesPast'
    BY <1>8 DEF EngineHealthy, Advance, Goto, TypeOK, TimesPast, Stamped
  <2>3. LoopProgress'
    BY <1>8 DEF EngineHealthy, Advance, Goto, TypeOK, LoopProgress, Task, InLoop, EngineSteps, BeforeRunning
  <2> QED
    BY <2>1, <2>2, <2>3
<1>9. ASSUME NEW r \in Runs, EngineUnavailable(r) PROVE BasicInvariant'
  <2>1. pc[r] \in EngineSteps /\ EngineReturns(r, {}) /\ {} \in SUBSET pending[r]
    BY <1>9 DEF EngineUnavailable, EngineSteps
  <2>2. openTasks' \in [Runs -> SUBSET Task] /\ raised' \in [Runs -> SUBSET Task]
    BY <1>9 DEF EngineUnavailable, TypeOK
  <2> QED
    BY <2>1, <2>2, EngineReturnsBasic
<1>10. ASSUME NEW r \in Runs, EnginePrepare(r) PROVE BasicInvariant'
  <2>1. TypeOK'
    BY <1>10 DEF EnginePrepare, Advance, Goto, TypeOK, PCs, EngineSteps, Task
  <2>2. TimesPast'
    BY <1>10 DEF EnginePrepare, Advance, Goto, TypeOK, TimesPast, Stamped
  <2>3. LoopProgress'
    BY <1>10 DEF EnginePrepare, Advance, Goto, TypeOK, LoopProgress, Task, InLoop, EngineSteps, BeforeRunning
  <2> QED
    BY <2>1, <2>2, <2>3
<1>11. ASSUME NEW r \in Runs, EngineExecute(r) PROVE BasicInvariant'
  <2>1. TypeOK'
    BY <1>11 DEF EngineExecute, Advance, Goto, TypeOK, PCs, EngineSteps, Task
  <2>2. TimesPast'
    BY <1>11 DEF EngineExecute, Advance, Goto, TypeOK, TimesPast, Stamped
  <2>3. LoopProgress'
    BY <1>11 DEF EngineExecute, Advance, Goto, TypeOK, LoopProgress, Task, InLoop, EngineSteps, BeforeRunning
  <2> QED
    BY <2>1, <2>2, <2>3
<1>12. ASSUME NEW r \in Runs, EngineCollect(r) PROVE BasicInvariant'
  <2>0. /\ CurrentTask(r).engine \in Engines /\ idx[r] \in Task
        /\ now + 1 \in Nat /\ now' = now + 1 /\ now <= now'
    <3>1. idx[r] \in 1 .. Len(plan[r]) /\ plan[r] \in Seq(Tasks)
      BY <1>12 DEF EngineCollect, Advance, Goto, TypeOK, LoopProgress, EngineSteps, Task
    <3>2. plan[r][idx[r]] \in Tasks
      BY <3>1
    <3> QED
      BY <1>12, <3>2 DEF EngineCollect, CurrentTask, Tasks, TypeOK
  <2> DEFINE Made(F, c) ==
        {[run |-> r, task |-> idx[r], engine |-> CurrentTask(r).engine, fp |-> f,
          conf |-> c[f], at |-> now + 1, probe |-> "none"] : f \in F}
  <2>a. PICK F \in SUBSET Finds[CurrentTask(r).engine] : \E c \in [F -> EngineConfs] :
          pending' = [pending EXCEPT ![r] = Made(F, c)]
    BY <1>12 DEF EngineCollect
  <2>b. PICK c \in [F -> EngineConfs] : pending' = [pending EXCEPT ![r] = Made(F, c)]
    BY <2>a
  <2>c. F \subseteq Fps /\ \A f \in F : c[f] \in Confidences
    BY <2>0
  <2>d. Made(F, c) \subseteq Observations /\ \A o \in Made(F, c) : o.at = now + 1
    BY <2>0, <2>c DEF Observations
  <2> HIDE DEF Made
  <2>1. TypeOK'
    BY <1>12, <2>0, <2>b, <2>d DEF EngineCollect, Advance, Goto, TypeOK, PCs, EngineSteps
  <2>2. TimesPast'
    <3>1. \A q \in Runs : \A o \in obs'[q] \cup pending'[q] : o.at <= now'
      <4> SUFFICES ASSUME NEW q \in Runs, NEW o \in obs[q] \cup pending'[q] PROVE o.at <= now'
        BY <1>12 DEF EngineCollect, Advance
      <4>1. CASE o \in obs[q] \cup pending[q]
        <5>1. o \in Observations /\ o.at <= now
          BY <4>1 DEF TypeOK, TimesPast
        <5> QED
          BY <5>1, <2>0 DEF Observations, TypeOK
      <4>2. CASE o \in Made(F, c)
        BY <4>2, <2>0, <2>d
      <4> QED
        BY <4>1, <4>2, <2>b DEF TypeOK
    <3>2. ASSUME NEW f \in Findings, Stamped(f) PROVE f.first <= f.last /\ f.last <= now'
      BY <3>2, <2>0 DEF Stamped, Findings, TypeOK
    <3>3. /\ \A q \in Runs : \A f \in findings[q] : f.first <= f.last /\ f.last <= now'
          /\ \A f \in findingRows : f.first <= f.last /\ f.last <= now'
      BY <3>2 DEF TimesPast, TypeOK
    <3> QED
      BY <1>12, <3>1, <3>3 DEF EngineCollect, Advance, TimesPast, Stamped
  <2>3. LoopProgress'
    BY <1>12 DEF EngineCollect, Advance, Goto, TypeOK, LoopProgress, Task, InLoop, EngineSteps, BeforeRunning
  <2> QED
    BY <2>1, <2>2, <2>3
<1>13. ASSUME NEW r \in Runs, EngineCleanup(r) PROVE BasicInvariant'
  <2>1. pc[r] \in EngineSteps /\ EngineReturns(r, pending[r]) /\ pending[r] \in SUBSET pending[r]
    BY <1>13 DEF EngineCleanup, EngineSteps
  <2>2. openTasks' \in [Runs -> SUBSET Task] /\ raised' \in [Runs -> SUBSET Task]
    BY <1>13 DEF EngineCleanup, TypeOK
  <2> QED
    BY <2>1, <2>2, EngineReturnsBasic
<1>14. ASSUME NEW r \in Runs, EngineRaises(r) PROVE BasicInvariant'
  <2>1. pc[r] \in EngineSteps /\ EngineReturns(r, {}) /\ {} \in SUBSET pending[r]
    BY <1>14 DEF EngineRaises, EngineSteps
  <2>2. openTasks' \in [Runs -> SUBSET Task] /\ raised' \in [Runs -> SUBSET Task]
    BY <1>14 DEF EngineRaises, TypeOK
  <2> QED
    BY <2>1, <2>2, EngineReturnsBasic
<1>15. ASSUME NEW r \in Runs, PersistObservations(r) PROVE BasicInvariant'
  <2>1. TypeOK'
    BY <1>15 DEF PersistObservations, Goto, TypeOK, PCs, EngineSteps, Task
  <2>2. TimesPast'
    BY <1>15 DEF PersistObservations, Goto, TypeOK, TimesPast, Stamped
  <2>3. LoopProgress'
    BY <1>15 DEF PersistObservations, Goto, TypeOK, LoopProgress, Task, InLoop, EngineSteps, BeforeRunning
  <2> QED
    BY <2>1, <2>2, <2>3
<1>16. ASSUME NEW r \in Runs, EnterCorrelating(r) PROVE BasicInvariant'
  <2>0. SetState(r, "correlating") /\ "correlating" \in ScanState
    BY <1>16 DEF EnterCorrelating, ScanState
  <2>1. TypeOK'
    <3>1. /\ pc' = [pc EXCEPT ![r] = "validate"]
          /\ todo' \in [Runs -> SUBSET Observations] /\ scopeOk' \in [Runs -> BOOLEAN]
          /\ UNCHANGED <<granted, plan, loopVars, obs, findings, worldVars>>
      BY <1>16 DEF EnterCorrelating, Goto, TypeOK
    <3> QED
      BY <2>0, <3>1, SetStateTypes DEF TypeOK, PCs
  <2>2. TimesPast'
    BY <1>16, <2>0, SetStateTypes, TimesKept DEF EnterCorrelating
  <2>3. LoopProgress'
    BY <1>16 DEF EnterCorrelating, Goto, SetState, TypeOK, LoopProgress, Task, InLoop, EngineSteps, BeforeRunning
  <2> QED
    BY <2>1, <2>2, <2>3
<1>17. ASSUME NEW r \in Runs, ValidateOne(r) PROVE BasicInvariant'
  <2>0. PICK o \in todo[r] :
          /\ todo' = [todo EXCEPT ![r] = @ \ {o}]
          /\ \/ UNCHANGED <<obs, now>>
             \/ /\ KindOf[o.fp] # "other" /\ now' = now + 1
                /\ \E probe \in {"answered", "failed"} :
                   \E verdict \in Verdicts(KindOf[o.fp], probe) :
                     obs' = [obs EXCEPT ![r] =
                               (@ \ {o}) \cup {Revised(o, verdict, probe, now + 1)}]
    BY <1>17 DEF ValidateOne
  <2>a. o \in Observations
    BY DEF TypeOK
  <2>b. now' \in Nat /\ now <= now'
    BY <2>0 DEF TypeOK
  <2>c. obs' \in [Runs -> SUBSET Observations] /\ \A q \in Runs : \A p \in obs'[q] : p.at <= now'
    <3>1. CASE UNCHANGED <<obs, now>>
      BY <3>1 DEF TypeOK, TimesPast
    <3>2. ASSUME NEW probe \in {"answered", "failed"},
                 NEW verdict \in Verdicts(KindOf[o.fp], probe),
                 KindOf[o.fp] # "other", now' = now + 1,
                 obs' = [obs EXCEPT ![r] =
                           (@ \ {o}) \cup {Revised(o, verdict, probe, now + 1)}]
          PROVE  obs' \in [Runs -> SUBSET Observations]
                 /\ \A q \in Runs : \A p \in obs'[q] : p.at <= now'
      <4>1. KindOf[o.fp] \in {"absence", "presence", "reflection"}
        BY <2>a, <3>2 DEF Observations, Kinds
      <4>2. verdict \in Confidences
        BY <3>2, <4>1 DEF Verdicts, Confidences
      <4> DEFINE v == Revised(o, verdict, probe, now + 1)
      <4>3. v \in Observations /\ v.at = now + 1
        <5>1. now + 1 \in Nat
          BY DEF TypeOK
        <5> QED
          BY <2>a, <4>2, <5>1, RevisedIsObservation, Zenon
      <4> HIDE DEF v
      <4>4. \A q \in Runs : \A p \in obs'[q] : p \in obs[q] \/ p = v
        BY <3>2 DEF v, TypeOK
      <4>5. ASSUME NEW q \in Runs, NEW p \in obs[q] PROVE p.at <= now'
        <5>1. p \in Observations /\ p.at <= now
          BY DEF TypeOK, TimesPast
        <5> QED
          BY <5>1, <2>b DEF Observations, TypeOK
      <4>6. v.at <= now'
        BY <2>b, <3>2, <4>3
      <4>7. obs' \in [Runs -> SUBSET Observations]
        BY <3>2, <4>3 DEF v, TypeOK
      <4> QED
        BY <4>4, <4>5, <4>6, <4>7
    <3> QED
      BY <2>0, <3>1, <3>2
  <2>1. TypeOK'
    BY <1>17, <2>0, <2>b, <2>c DEF ValidateOne, TypeOK
  <2>2. TimesPast'
    <3>1. \A q \in Runs : \A p \in pending[q] : p.at <= now'
      <4> SUFFICES ASSUME NEW q \in Runs, NEW p \in pending[q] PROVE p.at <= now'
        OBVIOUS
      <4>1. p \in Observations /\ p.at <= now
        BY DEF TypeOK, TimesPast
      <4> QED
        BY <4>1, <2>b DEF Observations, TypeOK
    <3>2. ASSUME NEW f \in Findings, Stamped(f) PROVE f.first <= f.last /\ f.last <= now'
      BY <3>2, <2>b DEF Stamped, Findings, TypeOK
    <3>3. /\ \A q \in Runs : \A f \in findings[q] : f.first <= f.last /\ f.last <= now'
          /\ \A f \in findingRows : f.first <= f.last /\ f.last <= now'
      BY <3>2 DEF TimesPast, TypeOK
    <3> QED
      BY <1>17, <2>c, <3>1, <3>3 DEF ValidateOne, TimesPast, Stamped
  <2>3. LoopProgress'
    BY <1>17 DEF ValidateOne, TypeOK, LoopProgress, Task, InLoop, EngineSteps, BeforeRunning
  <2> QED
    BY <2>1, <2>2, <2>3
<1>18. ASSUME NEW r \in Runs, ValidateRaises(r) PROVE BasicInvariant'
  <2>1. TypeOK'
    BY <1>18 DEF ValidateRaises, TypeOK, PCs, EngineSteps, Task
  <2>2. TimesPast'
    BY <1>18 DEF ValidateRaises, TypeOK, TimesPast, Stamped
  <2>3. LoopProgress'
    BY <1>18 DEF ValidateRaises, TypeOK, LoopProgress, Task, InLoop, EngineSteps, BeforeRunning
  <2> QED
    BY <2>1, <2>2, <2>3
<1>19. ASSUME NEW r \in Runs, CorrelateAndCarry(r) PROVE BasicInvariant'
  <2> DEFINE P == PreviousFindings(ScanOf[r])
             C == Correlate(ScanOf[r], obs[r])
             new == {CarryForward(P, f, now + 1) : f \in C}
  <2>0. /\ findings' = [findings EXCEPT ![r] = new]
        /\ pc' = [pc EXCEPT ![r] = "correlated"] /\ now' = now + 1
        /\ now \in Nat /\ now + 1 \in Nat /\ now <= now + 1 /\ ScanOf[r] \in Scans
    BY <1>19 DEF CorrelateAndCarry, Goto, TypeOK
  <2>a. P \in SUBSET Findings /\ \A g \in P : g.first <= g.last /\ g.last <= now
    BY DEF PreviousFindings, TypeOK, TimesPast, Stamped
  <2>b. \A f \in C : f \in Findings /\ f.first <= f.last /\ f.last <= now
    <3>1. obs[r] \in SUBSET Observations /\ \A o \in obs[r] : o.at <= now
      BY DEF TypeOK, TimesPast
    <3> QED
      BY <2>0, <3>1, CorrelateType
  <2> HIDE DEF P, C
  <2>c. ASSUME NEW f \in C
        PROVE  LET c == CarryForward(P, f, now + 1)
               IN  c \in Findings /\ c.first <= c.last /\ c.last <= now + 1
    <3>1. \A g \in P \cup {f} : g.first <= g.last /\ g.last <= now
      BY <2>a, <2>b
    <3> QED
      BY <2>0, <2>a, <2>b, <3>1, CarryForwardType
  <2>d. new \subseteq Findings /\ \A f \in new : f.first <= f.last /\ f.last <= now'
    BY <2>0, <2>c
  <2> HIDE DEF new
  <2>1. TypeOK'
    BY <1>19, <2>0, <2>d DEF CorrelateAndCarry, TypeOK, PCs
  <2>2. TimesPast'
    <3>1. \A q \in Runs : \A p \in obs[q] \cup pending[q] : p.at <= now'
      <4> SUFFICES ASSUME NEW q \in Runs, NEW p \in obs[q] \cup pending[q] PROVE p.at <= now'
        OBVIOUS
      <4>1. p \in Observations /\ p.at <= now
        BY DEF TypeOK, TimesPast
      <4> QED
        BY <4>1, <2>0 DEF Observations
    <3>2. ASSUME NEW f \in Findings, Stamped(f) PROVE f.first <= f.last /\ f.last <= now'
      BY <3>2, <2>0 DEF Stamped, Findings
    <3>3. \A f \in findingRows : f.first <= f.last /\ f.last <= now'
      BY <3>2 DEF TimesPast, TypeOK
    <3>4. ASSUME NEW q \in Runs, NEW f \in findings'[q] PROVE f.first <= f.last /\ f.last <= now'
      <4>1. CASE q = r
        BY <2>0, <2>d, <3>4, <4>1 DEF TypeOK
      <4>2. CASE q # r
        <5>1. f \in findings[q]
          BY <2>0, <3>4, <4>2 DEF TypeOK
        <5> QED
          BY <3>2, <5>1 DEF TimesPast, TypeOK
      <4> QED
        BY <4>1, <4>2
    <3> QED
      BY <1>19, <3>1, <3>3, <3>4 DEF CorrelateAndCarry, TimesPast, Stamped
  <2>3. LoopProgress'
    BY <1>19 DEF CorrelateAndCarry, Goto, TypeOK, LoopProgress, Task, InLoop, EngineSteps, BeforeRunning
  <2> QED
    BY <2>1, <2>2, <2>3
<1>20. ASSUME NEW r \in Runs, EnterValidating(r) PROVE BasicInvariant'
  <2>0. SetState(r, "validating") /\ "validating" \in ScanState
    BY <1>20 DEF EnterValidating, ScanState
  <2> DEFINE new == {[f EXCEPT !.risk = f.conf] : f \in findings[r]}
  <2>a. /\ findings' = [findings EXCEPT ![r] = new]
        /\ pc' = [pc EXCEPT ![r] = "validating"]
        /\ UNCHANGED <<now, findingRows>>
    BY <1>20 DEF EnterValidating, Goto, SetState, TerminalStates
  <2>b. ASSUME NEW f \in Findings, Stamped(f)
        PROVE  [f EXCEPT !.risk = f.conf] \in Findings /\ Stamped([f EXCEPT !.risk = f.conf])
    BY <2>b DEF Findings, Stamped
  <2>c. new \subseteq Findings /\ \A f \in new : Stamped(f)
    BY <2>b DEF TypeOK, TimesPast
  <2> HIDE DEF new
  <2>1. TypeOK'
    BY <1>20, <2>0, <2>a, <2>c, SetStateTypes DEF EnterValidating, TypeOK, PCs
  <2>2. TimesPast'
    BY <1>20, <2>a, <2>c DEF EnterValidating, TimesPast, Stamped, TypeOK
  <2>3. LoopProgress'
    BY <1>20 DEF EnterValidating, Goto, SetState, TypeOK, LoopProgress, Task, InLoop, EngineSteps, BeforeRunning
  <2> QED
    BY <2>1, <2>2, <2>3
<1>21. ASSUME NEW r \in Runs, EnterReporting(r) PROVE BasicInvariant'
  <2>0. SetState(r, "reporting") /\ "reporting" \in ScanState
    BY <1>21 DEF EnterReporting, ScanState
  <2>1. TypeOK'
    BY <1>21, <2>0, SetStateTypes DEF EnterReporting, Goto, TypeOK, PCs
  <2>2. TimesPast'
    BY <1>21, <2>0, SetStateTypes, TimesKept DEF EnterReporting
  <2>3. LoopProgress'
    BY <1>21 DEF EnterReporting, Goto, SetState, TypeOK, LoopProgress, Task, InLoop, EngineSteps, BeforeRunning
  <2> QED
    BY <2>1, <2>2, <2>3
<1>22. ASSUME NEW r \in Runs, PersistFindings(r) PROVE BasicInvariant'
  <2>1. TypeOK'
    BY <1>22 DEF PersistFindings, Goto, TypeOK, PCs, EngineSteps, Task
  <2>2. TimesPast'
    BY <1>22 DEF PersistFindings, Goto, TypeOK, TimesPast, Stamped
  <2>3. LoopProgress'
    BY <1>22 DEF PersistFindings, Goto, TypeOK, LoopProgress, Task, InLoop, EngineSteps, BeforeRunning
  <2> QED
    BY <2>1, <2>2, <2>3
<1>23. ASSUME NEW r \in Runs, Assess(r) PROVE BasicInvariant'
  <2>1. TypeOK'
    BY <1>23 DEF Assess, Goto, TypeOK, PCs, EngineSteps, Task
  <2>2. TimesPast'
    BY <1>23 DEF Assess, Goto, TypeOK, TimesPast, Stamped
  <2>3. LoopProgress'
    BY <1>23 DEF Assess, Goto, TypeOK, LoopProgress, Task, InLoop, EngineSteps, BeforeRunning
  <2> QED
    BY <2>1, <2>2, <2>3
<1>24. ASSUME NEW r \in Runs, AssessRaises(r) PROVE BasicInvariant'
  <2>1. TypeOK'
    BY <1>24 DEF AssessRaises, Goto, TypeOK, PCs, EngineSteps, Task
  <2>2. TimesPast'
    BY <1>24 DEF AssessRaises, Goto, TypeOK, TimesPast, Stamped
  <2>3. LoopProgress'
    BY <1>24 DEF AssessRaises, Goto, TypeOK, LoopProgress, Task, InLoop, EngineSteps, BeforeRunning
  <2> QED
    BY <2>1, <2>2, <2>3
<1>25. ASSUME NEW r \in Runs, Complete(r) PROVE BasicInvariant'
  <2>0. SetState(r, "completed") /\ "completed" \in ScanState
    BY <1>25 DEF Complete, ScanState
  <2>1. TypeOK'
    BY <1>25, <2>0, SetStateTypes DEF Complete, Goto, TypeOK, PCs
  <2>2. TimesPast'
    BY <1>25, <2>0, SetStateTypes, TimesKept DEF Complete
  <2>3. LoopProgress'
    BY <1>25 DEF Complete, Goto, SetState, TypeOK, LoopProgress, Task, InLoop, EngineSteps, BeforeRunning
  <2> QED
    BY <2>1, <2>2, <2>3
<1>26. ASSUME NEW r \in Runs, LoseRun(r) PROVE BasicInvariant'
  <2>1. TypeOK'
    BY <1>26 DEF LoseRun, TypeOK, PCs, EngineSteps, Task
  <2>2. TimesPast'
    BY <1>26 DEF LoseRun, TypeOK, TimesPast, Stamped
  <2>3. LoopProgress'
    BY <1>26 DEF LoseRun, TypeOK, LoopProgress, Task, InLoop, EngineSteps, BeforeRunning, Over
  <2> QED
    BY <2>1, <2>2, <2>3
<1>27. ASSUME NEW t \in Targets, AuthorizationExpires(t) PROVE BasicInvariant'
  BY <1>27 DEF AuthorizationExpires, TypeOK, TimesPast, Stamped, LoopProgress
<1>28. CASE UNCHANGED vars
  BY <1>28 DEF vars, TypeOK, TimesPast, Stamped, LoopProgress
<1> QED
  BY <1>1, <1>2, <1>3, <1>4, <1>5, <1>6, <1>7, <1>8, <1>9, <1>10,
     <1>11, <1>12, <1>13, <1>14, <1>15, <1>16, <1>17, <1>18, <1>19, <1>20,
     <1>21, <1>22, <1>23, <1>24, <1>25, <1>26, <1>27, <1>28 DEF Next, Step, EngineStep, AllOver

(* BasicInvariant holds initially.                                         *)
LEMMA BasicInit == Init => BasicInvariant
<1> SUFFICES ASSUME Init PROVE BasicInvariant
  OBVIOUS
<1>1. TypeOK
  BY DEF Init, TypeOK, ScanState, PCs, Task
<1>2. TimesPast
  BY DEF Init, TimesPast
<1>3. LoopProgress
  BY DEF Init, LoopProgress, BeforeRunning, EngineSteps, InLoop
<1> QED
  BY <1>1, <1>2, <1>3 DEF BasicInvariant

(* Every variable of a run and every row keeps the type the code gives it, *)
(* over any number of interleaved, failing and lost runs.                  *)
THEOREM TypeCorrect == Spec => []TypeOK
<1>1. BasicInvariant => TypeOK
  BY DEF BasicInvariant
<1> QED
  BY BasicInit, BasicStep, <1>1, PTL DEF Spec

-----------------------------------------------------------------------------
(* Own observations, grants, scores and states *)

(* The in-memory states at each place, one by one.                         *)
LEMMA StatesAtPlaces ==
  /\ StatesAt("new") = {"created"} /\ StatesAt("submitted") = {"created"}
  /\ StatesAt("queued") = {"queued"} /\ StatesAt("planning") = {"planning"}
  /\ StatesAt("task") = {"running"} /\ StatesAt("observed") = {"running"}
  /\ StatesAt("health") = {"running"} /\ StatesAt("prepare") = {"running"}
  /\ StatesAt("execute") = {"running"} /\ StatesAt("collect") = {"running"}
  /\ StatesAt("cleanup") = {"running"}
  /\ StatesAt("validate") = {"correlating"} /\ StatesAt("correlated") = {"correlating"}
  /\ StatesAt("validating") = {"validating"} /\ StatesAt("reporting") = {"reporting"}
  /\ StatesAt("assess") = {"reporting"} /\ StatesAt("complete") = {"reporting"}
  /\ StatesAt("raised") = {"reporting"} /\ StatesAt("returned") = {"completed", "failed"}
  /\ StatesAt("lost") = ScanState
  BY DEF StatesAt, InLoop, EngineSteps, FindingsStored

(* Each run keeps to its own observations, runs engines only when granted, *)
(* scores before it publishes, and knows the state of its scan.            *)
LEMMA RunStep ==
  ASSUME RunInvariant, [Next]_vars
  PROVE  RunInvariant'
<1> USE ConstantsAssumption DEF RunInvariant, dbVars, scanVars,
      ctxVars, loopVars, reportVars, resultVars, worldVars
<1>0. BasicInvariant' /\ TypeOK
  BY BasicStep DEF BasicInvariant
<1>a. pc \in [Runs -> PCs] /\ memState \in [Runs -> ScanState]
  BY <1>0 DEF TypeOK
<1>1. ASSUME NEW r \in Runs, Submit(r) PROVE RunInvariant'
  <2>1. OwnObservations'
    BY <1>0, <1>1 DEF Submit, Goto, TypeOK, OwnObservations
  <2>2. GrantedRuns'
    BY <1>0, <1>1 DEF Submit, Goto, TypeOK, GrantedRuns, BeforeRunning, EngineSteps, InLoop
  <2>3. Scored'
    BY <1>0, <1>1 DEF Submit, Goto, TypeOK, Scored, EngineSteps
  <2>4. MemoryAtStep'
    BY <1>a, <1>1, StatesAtPlaces DEF Submit, Goto, MemoryAtStep
  <2> QED
    BY <1>0, <2>1, <2>2, <2>3, <2>4
<1>2. ASSUME NEW r \in Runs, EnterQueued(r) PROVE RunInvariant'
  <2>1. OwnObservations'
    BY <1>0, <1>2 DEF EnterQueued, Goto, SetState, TypeOK, OwnObservations
  <2>2. GrantedRuns'
    BY <1>0, <1>2 DEF EnterQueued, Goto, SetState, TypeOK, GrantedRuns, BeforeRunning, EngineSteps, InLoop
  <2>3. Scored'
    BY <1>0, <1>2 DEF EnterQueued, Goto, SetState, TypeOK, Scored, EngineSteps
  <2>4. MemoryAtStep'
    BY <1>a, <1>2, StatesAtPlaces DEF EnterQueued, Goto, SetState, MemoryAtStep
  <2> QED
    BY <1>0, <2>1, <2>2, <2>3, <2>4
<1>3. ASSUME NEW r \in Runs, EnterPlanning(r) PROVE RunInvariant'
  <2>1. OwnObservations'
    BY <1>0, <1>3 DEF EnterPlanning, Goto, SetState, TypeOK, OwnObservations
  <2>2. GrantedRuns'
    BY <1>0, <1>3 DEF EnterPlanning, Goto, SetState, TypeOK, GrantedRuns, BeforeRunning, EngineSteps, InLoop
  <2>3. Scored'
    BY <1>0, <1>3 DEF EnterPlanning, Goto, SetState, TypeOK, Scored, EngineSteps
  <2>4. MemoryAtStep'
    BY <1>a, <1>3, StatesAtPlaces DEF EnterPlanning, Goto, SetState, MemoryAtStep
  <2> QED
    BY <1>0, <2>1, <2>2, <2>3, <2>4
<1>4. ASSUME NEW r \in Runs, RefuseUnauthorized(r) PROVE RunInvariant'
  <2>1. OwnObservations'
    BY <1>0, <1>4 DEF RefuseUnauthorized, Goto, SetState, TypeOK, OwnObservations
  <2>2. GrantedRuns'
    BY <1>0, <1>4 DEF RefuseUnauthorized, Goto, SetState, TypeOK, GrantedRuns, BeforeRunning, EngineSteps, InLoop
  <2>3. Scored'
    BY <1>0, <1>4 DEF RefuseUnauthorized, Goto, SetState, TypeOK, Scored, EngineSteps
  <2>4. MemoryAtStep'
    BY <1>a, <1>4, StatesAtPlaces DEF RefuseUnauthorized, Goto, SetState, MemoryAtStep
  <2> QED
    BY <1>0, <2>1, <2>2, <2>3, <2>4
<1>5. ASSUME NEW r \in Runs, EnterRunning(r) PROVE RunInvariant'
  <2>1. OwnObservations'
    BY <1>0, <1>5 DEF EnterRunning, Goto, SetState, TypeOK, OwnObservations
  <2>2. GrantedRuns'
    BY <1>0, <1>5 DEF EnterRunning, Goto, SetState, TypeOK, GrantedRuns, BeforeRunning, EngineSteps, InLoop
  <2>3. Scored'
    BY <1>0, <1>5 DEF EnterRunning, Goto, SetState, TypeOK, Scored, EngineSteps
  <2>4. MemoryAtStep'
    BY <1>a, <1>5, StatesAtPlaces DEF EnterRunning, Goto, SetState, MemoryAtStep
  <2> QED
    BY <1>0, <2>1, <2>2, <2>3, <2>4
<1>6. ASSUME NEW r \in Runs, SkipUnbound(r) PROVE RunInvariant'
  <2>1. OwnObservations'
    BY <1>0, <1>6 DEF SkipUnbound, AtTask, TypeOK, OwnObservations
  <2>2. GrantedRuns'
    BY <1>0, <1>6 DEF SkipUnbound, AtTask, TypeOK, GrantedRuns, BeforeRunning, EngineSteps, InLoop
  <2>3. Scored'
    BY <1>0, <1>6 DEF SkipUnbound, AtTask, TypeOK, Scored, EngineSteps
  <2>4. MemoryAtStep'
    BY <1>a, <1>6, StatesAtPlaces DEF SkipUnbound, AtTask, MemoryAtStep
  <2> QED
    BY <1>0, <2>1, <2>2, <2>3, <2>4
<1>7. ASSUME NEW r \in Runs, StartEngine(r) PROVE RunInvariant'
  <2>1. OwnObservations'
    BY <1>0, <1>7 DEF StartEngine, AtTask, Goto, TypeOK, OwnObservations
  <2>2. GrantedRuns'
    BY <1>0, <1>7 DEF StartEngine, AtTask, Goto, TypeOK, GrantedRuns, BeforeRunning, EngineSteps, InLoop
  <2>3. Scored'
    BY <1>0, <1>7 DEF StartEngine, AtTask, Goto, TypeOK, Scored, EngineSteps
  <2>4. MemoryAtStep'
    BY <1>a, <1>7, StatesAtPlaces DEF StartEngine, AtTask, Goto, MemoryAtStep
  <2> QED
    BY <1>0, <2>1, <2>2, <2>3, <2>4
<1>8. ASSUME NEW r \in Runs, EngineHealthy(r) PROVE RunInvariant'
  <2>1. OwnObservations'
    BY <1>0, <1>8 DEF EngineHealthy, Advance, Goto, TypeOK, OwnObservations
  <2>2. GrantedRuns'
    BY <1>0, <1>8 DEF EngineHealthy, Advance, Goto, TypeOK, GrantedRuns, BeforeRunning, EngineSteps, InLoop
  <2>3. Scored'
    BY <1>0, <1>8 DEF EngineHealthy, Advance, Goto, TypeOK, Scored, EngineSteps
  <2>4. MemoryAtStep'
    BY <1>a, <1>8, StatesAtPlaces DEF EngineHealthy, Advance, Goto, MemoryAtStep
  <2> QED
    BY <1>0, <2>1, <2>2, <2>3, <2>4
<1>9. ASSUME NEW r \in Runs, EngineUnavailable(r) PROVE RunInvariant'
  <2>1. OwnObservations'
    <3>1. /\ obs' = [obs EXCEPT ![r] = @ \cup {}]
          /\ pending' = [pending EXCEPT ![r] = {}]
          /\ pc' = [pc EXCEPT ![r] = "task"] /\ UNCHANGED todo
      BY <1>9 DEF EngineUnavailable, EngineReturns
    <3> QED
      BY <1>0, <3>1 DEF TypeOK, OwnObservations
  <2>2. GrantedRuns'
    BY <1>0, <1>9 DEF EngineUnavailable, EngineReturns, TypeOK, GrantedRuns, BeforeRunning, EngineSteps, InLoop
  <2>3. Scored'
    BY <1>0, <1>9 DEF EngineUnavailable, EngineReturns, TypeOK, Scored, EngineSteps
  <2>4. MemoryAtStep'
    BY <1>a, <1>9, StatesAtPlaces DEF EngineUnavailable, EngineReturns, MemoryAtStep
  <2> QED
    BY <1>0, <2>1, <2>2, <2>3, <2>4
<1>10. ASSUME NEW r \in Runs, EnginePrepare(r) PROVE RunInvariant'
  <2>1. OwnObservations'
    BY <1>0, <1>10 DEF EnginePrepare, Advance, Goto, TypeOK, OwnObservations
  <2>2. GrantedRuns'
    BY <1>0, <1>10 DEF EnginePrepare, Advance, Goto, TypeOK, GrantedRuns, BeforeRunning, EngineSteps, InLoop
  <2>3. Scored'
    BY <1>0, <1>10 DEF EnginePrepare, Advance, Goto, TypeOK, Scored, EngineSteps
  <2>4. MemoryAtStep'
    BY <1>a, <1>10, StatesAtPlaces DEF EnginePrepare, Advance, Goto, MemoryAtStep
  <2> QED
    BY <1>0, <2>1, <2>2, <2>3, <2>4
<1>11. ASSUME NEW r \in Runs, EngineExecute(r) PROVE RunInvariant'
  <2>1. OwnObservations'
    BY <1>0, <1>11 DEF EngineExecute, Advance, Goto, TypeOK, OwnObservations
  <2>2. GrantedRuns'
    BY <1>0, <1>11 DEF EngineExecute, Advance, Goto, TypeOK, GrantedRuns, BeforeRunning, EngineSteps, InLoop
  <2>3. Scored'
    BY <1>0, <1>11 DEF EngineExecute, Advance, Goto, TypeOK, Scored, EngineSteps
  <2>4. MemoryAtStep'
    BY <1>a, <1>11, StatesAtPlaces DEF EngineExecute, Advance, Goto, MemoryAtStep
  <2> QED
    BY <1>0, <2>1, <2>2, <2>3, <2>4
<1>12. ASSUME NEW r \in Runs, EngineCollect(r) PROVE RunInvariant'
  <2>1. OwnObservations'
    BY <1>0, <1>12 DEF EngineCollect, Advance, Goto, TypeOK, OwnObservations
  <2>2. GrantedRuns'
    BY <1>0, <1>12 DEF EngineCollect, Advance, Goto, TypeOK, GrantedRuns, BeforeRunning, EngineSteps, InLoop
  <2>3. Scored'
    BY <1>0, <1>12 DEF EngineCollect, Advance, Goto, TypeOK, Scored, EngineSteps
  <2>4. MemoryAtStep'
    BY <1>a, <1>12, StatesAtPlaces DEF EngineCollect, Advance, Goto, MemoryAtStep
  <2> QED
    BY <1>0, <2>1, <2>2, <2>3, <2>4
<1>13. ASSUME NEW r \in Runs, EngineCleanup(r) PROVE RunInvariant'
  <2>1. OwnObservations'
    <3>1. /\ obs' = [obs EXCEPT ![r] = @ \cup pending[r]]
          /\ pending' = [pending EXCEPT ![r] = {}]
          /\ pc' = [pc EXCEPT ![r] = "task"] /\ UNCHANGED todo
      BY <1>13 DEF EngineCleanup, EngineReturns
    <3> QED
      BY <1>0, <3>1 DEF TypeOK, OwnObservations
  <2>2. GrantedRuns'
    BY <1>0, <1>13 DEF EngineCleanup, EngineReturns, TypeOK, GrantedRuns, BeforeRunning, EngineSteps, InLoop
  <2>3. Scored'
    BY <1>0, <1>13 DEF EngineCleanup, EngineReturns, TypeOK, Scored, EngineSteps
  <2>4. MemoryAtStep'
    BY <1>a, <1>13, StatesAtPlaces DEF EngineCleanup, EngineReturns, MemoryAtStep
  <2> QED
    BY <1>0, <2>1, <2>2, <2>3, <2>4
<1>14. ASSUME NEW r \in Runs, EngineRaises(r) PROVE RunInvariant'
  <2>1. OwnObservations'
    <3>1. /\ obs' = [obs EXCEPT ![r] = @ \cup {}]
          /\ pending' = [pending EXCEPT ![r] = {}]
          /\ pc' = [pc EXCEPT ![r] = "task"] /\ UNCHANGED todo
      BY <1>14 DEF EngineRaises, EngineReturns
    <3> QED
      BY <1>0, <3>1 DEF TypeOK, OwnObservations
  <2>2. GrantedRuns'
    BY <1>0, <1>14 DEF EngineRaises, EngineReturns, TypeOK, GrantedRuns, BeforeRunning, EngineSteps, InLoop
  <2>3. Scored'
    BY <1>0, <1>14 DEF EngineRaises, EngineReturns, TypeOK, Scored, EngineSteps
  <2>4. MemoryAtStep'
    BY <1>a, <1>14, StatesAtPlaces DEF EngineRaises, EngineReturns, MemoryAtStep, EngineSteps
  <2> QED
    BY <1>0, <2>1, <2>2, <2>3, <2>4
<1>15. ASSUME NEW r \in Runs, PersistObservations(r) PROVE RunInvariant'
  <2>1. OwnObservations'
    BY <1>0, <1>15 DEF PersistObservations, Goto, TypeOK, OwnObservations
  <2>2. GrantedRuns'
    <3>1. /\ pc[r] = "task" /\ pc' = [pc EXCEPT ![r] = "observed"]
          /\ obsRows' = obsRows \cup obs[r]
          /\ UNCHANGED <<granted, enginesRun, openTasks, obs, pending, memState>>
      BY <1>15 DEF PersistObservations, Goto
    <3>2. granted[r]
      BY <3>1 DEF GrantedRuns, BeforeRunning
    <3>3. \A q \in Runs \ {r} : \A o \in obs[r] : o.run # q
      BY DEF OwnObservations
    <3> QED
      BY <1>0, <3>1, <3>2, <3>3 DEF GrantedRuns, BeforeRunning, TypeOK
  <2>3. Scored'
    BY <1>0, <1>15 DEF PersistObservations, Goto, TypeOK, Scored, EngineSteps
  <2>4. MemoryAtStep'
    BY <1>a, <1>15, StatesAtPlaces DEF PersistObservations, Goto, MemoryAtStep
  <2> QED
    BY <1>0, <2>1, <2>2, <2>3, <2>4
<1>16. ASSUME NEW r \in Runs, EnterCorrelating(r) PROVE RunInvariant'
  <2>1. OwnObservations'
    BY <1>0, <1>16 DEF EnterCorrelating, Goto, SetState, TypeOK, OwnObservations
  <2>2. GrantedRuns'
    BY <1>0, <1>16 DEF EnterCorrelating, Goto, SetState, TypeOK, GrantedRuns, BeforeRunning, EngineSteps, InLoop
  <2>3. Scored'
    BY <1>0, <1>16 DEF EnterCorrelating, Goto, SetState, TypeOK, Scored, EngineSteps
  <2>4. MemoryAtStep'
    BY <1>a, <1>16, StatesAtPlaces DEF EnterCorrelating, Goto, SetState, MemoryAtStep
  <2> QED
    BY <1>0, <2>1, <2>2, <2>3, <2>4
<1>17. ASSUME NEW r \in Runs, ValidateOne(r) PROVE RunInvariant'
  <2>1. OwnObservations'
    <3>1. /\ pc[r] = "validate" /\ UNCHANGED <<pc, pending>>
          /\ \E o \in todo[r] :
               /\ todo' = [todo EXCEPT ![r] = @ \ {o}]
               /\ \/ UNCHANGED obs
                  \/ \E probe, verdict : obs' = [obs EXCEPT ![r] =
                       (@ \ {o}) \cup {Revised(o, verdict, probe, now + 1)}]
      BY <1>17 DEF ValidateOne
    <3>2. PICK o \in todo[r] :
               /\ todo' = [todo EXCEPT ![r] = @ \ {o}]
               /\ \/ UNCHANGED obs
                  \/ \E probe, verdict : obs' = [obs EXCEPT ![r] =
                       (@ \ {o}) \cup {Revised(o, verdict, probe, now + 1)}]
      BY <3>1
    <3>3. o \in Observations /\ o.run = r
      BY <1>0 DEF TypeOK, OwnObservations
    <3>4. \A probe, verdict : Revised(o, verdict, probe, now + 1).run = r
      BY <3>3 DEF Revised, Observations
    <3>5. \A q \in Runs : \A p \in obs'[q] \cup pending'[q] \cup todo'[q] : p.run = q
      BY <1>0, <3>1, <3>2, <3>4 DEF OwnObservations, TypeOK
    <3>6. \A q \in Runs : pc'[q] = "validate" => todo'[q] \subseteq obs'[q]
      BY <1>0, <3>1, <3>2 DEF OwnObservations, TypeOK
    <3> QED
      BY <3>5, <3>6 DEF OwnObservations
  <2>2. GrantedRuns'
    <3>1. /\ pc[r] = "validate"
          /\ \A q \in Runs \ {r} : obs'[q] = obs[q]
          /\ UNCHANGED <<pc, granted, enginesRun, openTasks, pending, obsRows, memState>>
      BY <1>0, <1>17 DEF ValidateOne, TypeOK
    <3>2. granted[r]
      BY <3>1 DEF GrantedRuns, BeforeRunning
    <3> QED
      BY <3>1, <3>2 DEF GrantedRuns, BeforeRunning
  <2>3. Scored'
    BY <1>0, <1>17 DEF ValidateOne, TypeOK, Scored, EngineSteps
  <2>4. MemoryAtStep'
    BY <1>a, <1>17, StatesAtPlaces DEF ValidateOne, MemoryAtStep
  <2> QED
    BY <1>0, <2>1, <2>2, <2>3, <2>4
<1>18. ASSUME NEW r \in Runs, ValidateRaises(r) PROVE RunInvariant'
  <2>1. OwnObservations'
    BY <1>0, <1>18 DEF ValidateRaises, TypeOK, OwnObservations
  <2>2. GrantedRuns'
    BY <1>0, <1>18 DEF ValidateRaises, TypeOK, GrantedRuns, BeforeRunning, EngineSteps, InLoop
  <2>3. Scored'
    BY <1>0, <1>18 DEF ValidateRaises, TypeOK, Scored, EngineSteps
  <2>4. MemoryAtStep'
    BY <1>a, <1>18, StatesAtPlaces DEF ValidateRaises, MemoryAtStep
  <2> QED
    BY <1>0, <2>1, <2>2, <2>3, <2>4
<1>19. ASSUME NEW r \in Runs, CorrelateAndCarry(r) PROVE RunInvariant'
  <2>1. OwnObservations'
    BY <1>0, <1>19 DEF CorrelateAndCarry, Goto, TypeOK, OwnObservations
  <2>2. GrantedRuns'
    BY <1>0, <1>19 DEF CorrelateAndCarry, Goto, TypeOK, GrantedRuns, BeforeRunning, EngineSteps, InLoop
  <2>3. Scored'
    BY <1>0, <1>19 DEF CorrelateAndCarry, Goto, TypeOK, Scored, EngineSteps
  <2>4. MemoryAtStep'
    BY <1>a, <1>19, StatesAtPlaces DEF CorrelateAndCarry, Goto, MemoryAtStep
  <2> QED
    BY <1>0, <2>1, <2>2, <2>3, <2>4
<1>20. ASSUME NEW r \in Runs, EnterValidating(r) PROVE RunInvariant'
  <2>1. OwnObservations'
    BY <1>0, <1>20 DEF EnterValidating, Goto, SetState, TypeOK, OwnObservations
  <2>2. GrantedRuns'
    BY <1>0, <1>20 DEF EnterValidating, Goto, SetState, TypeOK, GrantedRuns, BeforeRunning, EngineSteps, InLoop
  <2>3. Scored'
    <3> DEFINE new == {[f EXCEPT !.risk = f.conf] : f \in findings[r]}
    <3>1. /\ findings' = [findings EXCEPT ![r] = new]
          /\ pc' = [pc EXCEPT ![r] = "validating"] /\ findingRows' = findingRows
      BY <1>20 DEF EnterValidating, Goto, SetState
    <3>2. ASSUME NEW f \in Findings
          PROVE  [f EXCEPT !.risk = f.conf].risk = [f EXCEPT !.risk = f.conf].conf
      BY DEF Findings
    <3>3. \A f \in new : f.risk = f.conf
      <4>1. findings[r] \subseteq Findings
        BY <1>0 DEF TypeOK
      <4> QED
        BY <3>2, <4>1
    <3> HIDE DEF new
    <3> QED
      BY <1>0, <3>1, <3>3 DEF Scored, TypeOK
  <2>4. MemoryAtStep'
    BY <1>a, <1>20, StatesAtPlaces DEF EnterValidating, Goto, SetState, MemoryAtStep
  <2> QED
    BY <1>0, <2>1, <2>2, <2>3, <2>4
<1>21. ASSUME NEW r \in Runs, EnterReporting(r) PROVE RunInvariant'
  <2>1. OwnObservations'
    BY <1>0, <1>21 DEF EnterReporting, Goto, SetState, TypeOK, OwnObservations
  <2>2. GrantedRuns'
    BY <1>0, <1>21 DEF EnterReporting, Goto, SetState, TypeOK, GrantedRuns, BeforeRunning, EngineSteps, InLoop
  <2>3. Scored'
    BY <1>0, <1>21 DEF EnterReporting, Goto, SetState, TypeOK, Scored, EngineSteps
  <2>4. MemoryAtStep'
    BY <1>a, <1>21, StatesAtPlaces DEF EnterReporting, Goto, SetState, MemoryAtStep
  <2> QED
    BY <1>0, <2>1, <2>2, <2>3, <2>4
<1>22. ASSUME NEW r \in Runs, PersistFindings(r) PROVE RunInvariant'
  <2>1. OwnObservations'
    BY <1>0, <1>22 DEF PersistFindings, Goto, TypeOK, OwnObservations
  <2>2. GrantedRuns'
    BY <1>0, <1>22 DEF PersistFindings, Goto, TypeOK, GrantedRuns, BeforeRunning, EngineSteps, InLoop
  <2>3. Scored'
    BY <1>0, <1>22 DEF PersistFindings, Goto, TypeOK, Scored, EngineSteps
  <2>4. MemoryAtStep'
    BY <1>a, <1>22, StatesAtPlaces DEF PersistFindings, Goto, MemoryAtStep
  <2> QED
    BY <1>0, <2>1, <2>2, <2>3, <2>4
<1>23. ASSUME NEW r \in Runs, Assess(r) PROVE RunInvariant'
  <2>1. OwnObservations'
    BY <1>0, <1>23 DEF Assess, Goto, TypeOK, OwnObservations
  <2>2. GrantedRuns'
    BY <1>0, <1>23 DEF Assess, Goto, TypeOK, GrantedRuns, BeforeRunning, EngineSteps, InLoop
  <2>3. Scored'
    BY <1>0, <1>23 DEF Assess, Goto, TypeOK, Scored, EngineSteps
  <2>4. MemoryAtStep'
    BY <1>a, <1>23, StatesAtPlaces DEF Assess, Goto, MemoryAtStep
  <2> QED
    BY <1>0, <2>1, <2>2, <2>3, <2>4
<1>24. ASSUME NEW r \in Runs, AssessRaises(r) PROVE RunInvariant'
  <2>1. OwnObservations'
    BY <1>0, <1>24 DEF AssessRaises, Goto, TypeOK, OwnObservations
  <2>2. GrantedRuns'
    BY <1>0, <1>24 DEF AssessRaises, Goto, TypeOK, GrantedRuns, BeforeRunning, EngineSteps, InLoop
  <2>3. Scored'
    BY <1>0, <1>24 DEF AssessRaises, Goto, TypeOK, Scored, EngineSteps
  <2>4. MemoryAtStep'
    BY <1>a, <1>24, StatesAtPlaces DEF AssessRaises, Goto, MemoryAtStep
  <2> QED
    BY <1>0, <2>1, <2>2, <2>3, <2>4
<1>25. ASSUME NEW r \in Runs, Complete(r) PROVE RunInvariant'
  <2>1. OwnObservations'
    BY <1>0, <1>25 DEF Complete, Goto, SetState, TypeOK, OwnObservations
  <2>2. GrantedRuns'
    BY <1>0, <1>25 DEF Complete, Goto, SetState, TypeOK, GrantedRuns, BeforeRunning, EngineSteps, InLoop
  <2>3. Scored'
    BY <1>0, <1>25 DEF Complete, Goto, SetState, TypeOK, Scored, EngineSteps
  <2>4. MemoryAtStep'
    BY <1>a, <1>25, StatesAtPlaces DEF Complete, Goto, SetState, MemoryAtStep
  <2> QED
    BY <1>0, <2>1, <2>2, <2>3, <2>4
<1>26. ASSUME NEW r \in Runs, LoseRun(r) PROVE RunInvariant'
  <2>1. OwnObservations'
    BY <1>0, <1>26 DEF LoseRun, TypeOK, OwnObservations, Over
  <2>2. GrantedRuns'
    BY <1>0, <1>26 DEF LoseRun, TypeOK, GrantedRuns, BeforeRunning, EngineSteps, InLoop, Over
  <2>3. Scored'
    BY <1>0, <1>26 DEF LoseRun, TypeOK, Scored, EngineSteps, Over
  <2>4. MemoryAtStep'
    BY <1>a, <1>26, StatesAtPlaces DEF LoseRun, MemoryAtStep, Over
  <2> QED
    BY <1>0, <2>1, <2>2, <2>3, <2>4
<1>27. ASSUME NEW t \in Targets, AuthorizationExpires(t) PROVE RunInvariant'
  BY <1>0, <1>27 DEF AuthorizationExpires, OwnObservations, GrantedRuns, Scored, MemoryAtStep
<1>28. CASE UNCHANGED vars
  BY <1>0, <1>28 DEF vars, OwnObservations, GrantedRuns, Scored, MemoryAtStep
<1> QED
  BY <1>1, <1>2, <1>3, <1>4, <1>5, <1>6, <1>7, <1>8, <1>9, <1>10,
     <1>11, <1>12, <1>13, <1>14, <1>15, <1>16, <1>17, <1>18, <1>19, <1>20,
     <1>21, <1>22, <1>23, <1>24, <1>25, <1>26, <1>27, <1>28 DEF Next, Step, EngineStep, AllOver

(* RunInvariant holds initially.                                           *)
LEMMA RunInit == Init => RunInvariant
<1> SUFFICES ASSUME Init PROVE RunInvariant
  OBVIOUS
<1>1. OwnObservations /\ Scored
  BY DEF Init, OwnObservations, Scored
<1>2. GrantedRuns
  BY DEF Init, GrantedRuns, BeforeRunning
<1>3. MemoryAtStep
  BY DEF Init, MemoryAtStep, StatesAt, InLoop, EngineSteps, FindingsStored
<1> QED
  BY BasicInit, <1>1, <1>2, <1>3 DEF RunInvariant

(* The inductive invariant of single runs.                                 *)
LEMMA RunInvariantHolds == Spec => []RunInvariant
<1>1. RunInvariant /\ [Next]_vars => RunInvariant'
  BY RunStep
<1> QED
  BY RunInit, <1>1, PTL DEF Spec

-----------------------------------------------------------------------------
(* What follows for any number of runs *)

(* first_seen and last_seen of a stored finding are in order and not in    *)
(* the future, whichever scans they were carried over from.                *)
THEOREM SeenInOrderHolds == Spec => []SeenInOrder
<1>1. RunInvariant => SeenInOrder
  BY DEF RunInvariant, BasicInvariant, TimesPast, Stamped, SeenInOrder
<1> QED
  BY RunInvariantHolds, <1>1, PTL

(* Once the loop is over each task of the plan is reported exactly once,   *)
(* as run or as failed, for every plan and every failure of its engines.   *)
THEOREM TasksAccountedOnceHolds == Spec => []TasksAccountedOnce
<1>1. RunInvariant => TasksAccountedOnce
  <2> SUFFICES ASSUME RunInvariant, NEW r \in Runs
               PROVE  /\ enginesRun[r] \cap enginesFailed[r] = {}
                      /\ pc[r] \notin EngineSteps \cup {"task", "lost"} =>
                           enginesRun[r] \cup enginesFailed[r] = 1 .. Len(plan[r])
    BY DEF TasksAccountedOnce
  <2>1. Len(plan[r]) \in Nat
    BY DEF RunInvariant, BasicInvariant, TypeOK
  <2>2. LoopProgress
    BY DEF RunInvariant, BasicInvariant
  <2>3. pc[r] \notin InLoop \cup {"lost"} =>
          enginesRun[r] \cup enginesFailed[r] = 1 .. (Len(plan[r]) + 1) - 1
    BY <2>2 DEF LoopProgress
  <2>4. (Len(plan[r]) + 1) - 1 = Len(plan[r])
    BY <2>1
  <2> QED
    BY <2>2, <2>3, <2>4 DEF LoopProgress, InLoop
<1> QED
  BY RunInvariantHolds, <1>1, PTL

(* A finding is never stored before its risk is computed, with the         *)
(* confidence it is stored with.                                           *)
THEOREM PublishedFindingsAreScoredHolds == Spec => []PublishedFindingsAreScored
<1>1. RunInvariant => PublishedFindingsAreScored
  BY DEF RunInvariant, Scored, PublishedFindingsAreScored
<1> QED
  BY RunInvariantHolds, <1>1, PTL

(* IllegalTransition is never raised: the scan object is always in a state *)
(* that the next commit of run may leave.                                  *)
THEOREM NoIllegalTransitionHolds == Spec => []NoIllegalTransition
<1>1. RunInvariant => NoIllegalTransition
  <2> SUFFICES ASSUME RunInvariant, NEW r \in Runs
               PROVE  /\ pc[r] \in DOMAIN CommitTo => CanTransition(memState[r], CommitTo[pc[r]])
                      /\ pc[r] = "planning" => {"running", "failed"} \subseteq Transitions(memState[r])
    BY DEF NoIllegalTransition
  <2>1. memState[r] \in StatesAt(pc[r])
    BY DEF RunInvariant, MemoryAtStep
  <2> QED
    BY <2>1 DEF StatesAt, InLoop, EngineSteps, FindingsStored, CommitTo, CanTransition, Transitions
<1> QED
  BY RunInvariantHolds, <1>1, PTL

-----------------------------------------------------------------------------
(* Attempts at engines *)

AttemptVars(q) ==
  <<raised[q], openTasks[q], pending[q], idx[q], obs[q], enginesRun[q], plan[q]>>
Attempting == {"execute", "collect", "cleanup", "lost"}

(* A step of a run that leaves its loop and its observations alone, and is *)
(* not in the middle of an attempt, keeps what is known of attempts.       *)
LEMMA AttemptsKept ==
  ASSUME TypeOK, AttemptInvariant, NEW r \in Runs,
         \A q \in Runs : UNCHANGED AttemptVars(q),
         \A q \in Runs \ {r} : pc'[q] = pc[q],
         pc[r] \notin Attempting, pc'[r] \notin {"execute", "collect", "cleanup"}
  PROVE  AttemptInvariant'
<1> SUFFICES ASSUME NEW q \in Runs PROVE AttemptAt(q)'
  BY DEF AttemptInvariant
<1>1. AttemptAt(q) /\ UNCHANGED AttemptVars(q)
  BY DEF AttemptInvariant
<1>2. CASE q = r
  BY <1>1, <1>2 DEF AttemptAt, AttemptVars, Attempting
<1>3. CASE q # r
  BY <1>1, <1>3 DEF AttemptAt, AttemptVars
<1> QED
  BY <1>2, <1>3

(* The attempt at the current task ends, with the observations O that came *)
(* of it: only an attempt that did not raise brings any.                   *)
LEMMA AttemptEnds ==
  ASSUME RunInvariant, AttemptInvariant, NEW r \in Runs, pc[r] \in EngineSteps,
         NEW O \in SUBSET pending[r], EngineReturns(r, O),
         NEW left, openTasks' = [openTasks EXCEPT ![r] = left],
         NEW failed \in {{}, {idx[r]}}, raised' = [raised EXCEPT ![r] = @ \cup failed],
         left \subseteq openTasks[r],
         idx[r] \in left => failed # {},
         O # {} => failed = {}
  PROVE  AttemptInvariant'
<1> USE DEF RunInvariant, BasicInvariant
<1>0. /\ TypeOK /\ idx[r] \in Nat \ {0} /\ idx[r] \notin enginesRun[r]
      /\ idx[r] \notin raised[r] /\ AttemptAt(r)
  <2>1. idx[r] \in Nat \ {0} /\ enginesRun[r] \subseteq 1 .. idx[r] - 1
    BY DEF TypeOK, Task, LoopProgress
  <2>2. AttemptAt(r) /\ raised[r] \subseteq enginesRun[r]
    BY DEF AttemptInvariant, AttemptAt
  <2> QED
    BY <2>1, <2>2
<1>1. /\ pc' = [pc EXCEPT ![r] = "task"]
      /\ enginesRun' = [enginesRun EXCEPT ![r] = @ \cup {idx[r]}]
      /\ idx' = [idx EXCEPT ![r] = @ + 1]
      /\ obs' = [obs EXCEPT ![r] = @ \cup O]
      /\ pending' = [pending EXCEPT ![r] = {}]
      /\ plan' = plan
  BY DEF EngineReturns, ctxVars
<1>2. ASSUME NEW q \in Runs \ {r} PROVE AttemptAt(q)'
  <2>1. UNCHANGED AttemptVars(q) /\ pc'[q] = pc[q]
    BY <1>0, <1>1 DEF TypeOK, AttemptVars
  <2> QED
    BY <2>1 DEF AttemptInvariant, AttemptAt, AttemptVars
<1>3. /\ pc'[r] = "task" /\ enginesRun'[r] = enginesRun[r] \cup {idx[r]}
      /\ obs'[r] = obs[r] \cup O /\ pending'[r] = {} /\ plan'[r] = plan[r]
      /\ openTasks'[r] = left /\ raised'[r] = raised[r] \cup failed
  BY <1>0, <1>1 DEF TypeOK
<1>4. left \subseteq raised[r] \cup failed
  BY <1>0 DEF AttemptAt
<1>5. \A o \in obs[r] : /\ o.task \in enginesRun'[r] \ (raised'[r] \cup openTasks'[r])
                        /\ plan'[r][o.task].engine = o.engine
  BY <1>0, <1>3 DEF AttemptAt
<1>6. \A o \in O : /\ o.task \in enginesRun'[r] \ (raised'[r] \cup openTasks'[r])
                   /\ plan'[r][o.task].engine = o.engine
  BY <1>0, <1>3 DEF AttemptAt
<1>7. AttemptAt(r)'
  BY <1>0, <1>3, <1>4, <1>5, <1>6 DEF AttemptAt
<1> QED
  BY <1>2, <1>7 DEF AttemptInvariant

(* What is known of attempts is kept by every step.                        *)
LEMMA AttemptStep ==
  ASSUME RunInvariant, AttemptInvariant, [Next]_vars
  PROVE  AttemptInvariant'
<1> USE DEF dbVars, scanVars, ctxVars, loopVars, reportVars, resultVars, worldVars
<1>0. TypeOK /\ LoopProgress /\ OwnObservations
  BY DEF RunInvariant, BasicInvariant
<1>1. ASSUME NEW r \in Runs, Submit(r) PROVE AttemptInvariant'
  BY <1>0, <1>1, AttemptsKept DEF Submit, Goto, TypeOK, Attempting, AttemptVars
<1>2. ASSUME NEW r \in Runs, EnterQueued(r) PROVE AttemptInvariant'
  BY <1>0, <1>2, AttemptsKept DEF EnterQueued, Goto, TypeOK, Attempting, AttemptVars
<1>3. ASSUME NEW r \in Runs, EnterPlanning(r) PROVE AttemptInvariant'
  BY <1>0, <1>3, AttemptsKept DEF EnterPlanning, Goto, TypeOK, Attempting, AttemptVars
<1>4. ASSUME NEW r \in Runs, RefuseUnauthorized(r) PROVE AttemptInvariant'
  BY <1>0, <1>4, AttemptsKept DEF RefuseUnauthorized, Goto, TypeOK, Attempting, AttemptVars
<1>5. ASSUME NEW r \in Runs, EnterRunning(r) PROVE AttemptInvariant'
  <2>1. /\ pc[r] = "planning" /\ pc' = [pc EXCEPT ![r] = "task"]
        /\ UNCHANGED <<raised, openTasks, pending, idx, obs, enginesRun>>
        /\ \A q \in Runs \ {r} : plan'[q] = plan[q]
    BY <1>0, <1>5 DEF EnterRunning, Goto, TypeOK
  <2>2. enginesRun[r] = {}
    <3>1. enginesRun[r] \subseteq 1 .. 1 - 1
      BY <1>0, <2>1 DEF LoopProgress, BeforeRunning
    <3> QED
      BY <3>1
  <2>3. AttemptAt(r)'
    <3>1. AttemptAt(r) /\ pending[r] = {} /\ obs[r] = {} /\ raised[r] = {} /\ openTasks[r] = {}
      BY <2>1, <2>2 DEF AttemptInvariant, AttemptAt
    <3> QED
      BY <2>1, <3>1 DEF AttemptAt
  <2>4. ASSUME NEW q \in Runs \ {r} PROVE AttemptAt(q)'
    <3>1. AttemptAt(q) /\ pc'[q] = pc[q] /\ plan'[q] = plan[q]
      BY <1>0, <2>1 DEF AttemptInvariant, TypeOK
    <3> QED
      BY <2>1, <3>1 DEF AttemptAt
  <2> QED
    BY <2>3, <2>4 DEF AttemptInvariant
<1>6. ASSUME NEW r \in Runs, SkipUnbound(r) PROVE AttemptInvariant'
  <2>1. /\ pc[r] = "task" /\ UNCHANGED <<pc, raised, openTasks, pending, obs, enginesRun, plan>>
        /\ \A q \in Runs \ {r} : idx'[q] = idx[q]
    BY <1>0, <1>6 DEF SkipUnbound, AtTask, TypeOK
  <2>2. AttemptAt(r)'
    BY <2>1 DEF AttemptInvariant, AttemptAt
  <2>3. ASSUME NEW q \in Runs \ {r} PROVE AttemptAt(q)'
    BY <2>1 DEF AttemptInvariant, AttemptAt
  <2> QED
    BY <2>2, <2>3 DEF AttemptInvariant
<1>7. ASSUME NEW r \in Runs, StartEngine(r) PROVE AttemptInvariant'
  BY <1>0, <1>7, AttemptsKept DEF StartEngine, AtTask, Goto, TypeOK, Attempting, AttemptVars
<1>8. ASSUME NEW r \in Runs, EngineHealthy(r) PROVE AttemptInvariant'
  BY <1>0, <1>8, AttemptsKept DEF EngineHealthy, Advance, Goto, TypeOK, Attempting, AttemptVars
<1>9. ASSUME NEW r \in Runs, EngineUnavailable(r) PROVE AttemptInvariant'
  <2>1. idx[r] \notin openTasks[r]
    <3>1. idx[r] \in Nat /\ raised[r] \subseteq 1 .. idx[r] - 1
      BY <1>0 DEF TypeOK, Task, LoopProgress, AttemptInvariant, AttemptAt
    <3> QED
      BY <1>9, <3>1 DEF EngineUnavailable, AttemptInvariant, AttemptAt
  <2>2. openTasks' = [openTasks EXCEPT ![r] = openTasks[r]] /\ raised' = [raised EXCEPT ![r] = @ \cup {}]
    BY <1>0, <1>9 DEF EngineUnavailable, TypeOK
  <2>3. pc[r] \in EngineSteps /\ EngineReturns(r, {})
    BY <1>9 DEF EngineUnavailable, EngineSteps
  <2> QED
    BY <2>1, <2>2, <2>3, AttemptEnds
<1>10. ASSUME NEW r \in Runs, EnginePrepare(r) PROVE AttemptInvariant'
  <2>1. /\ pc[r] = "prepare" /\ pc' = [pc EXCEPT ![r] = "execute"]
        /\ openTasks' = [openTasks EXCEPT ![r] = @ \cup {idx[r]}]
        /\ UNCHANGED <<raised, pending, idx, obs, enginesRun, plan>>
    BY <1>10 DEF EnginePrepare, Advance, Goto
  <2>2. AttemptAt(r)'
    <3>1. AttemptAt(r) /\ pc'[r] = "execute" /\ openTasks'[r] = openTasks[r] \cup {idx[r]}
      BY <1>0, <2>1 DEF AttemptInvariant, TypeOK
    <3>2. \A o \in obs[r] : o.task # idx[r]
      <4>1. idx[r] \in Nat /\ enginesRun[r] \subseteq 1 .. idx[r] - 1
        BY <1>0 DEF TypeOK, Task, LoopProgress
      <4> QED
        BY <3>1, <4>1 DEF AttemptAt
    <3> QED
      BY <2>1, <3>1, <3>2 DEF AttemptAt
  <2>3. ASSUME NEW q \in Runs \ {r} PROVE AttemptAt(q)'
    <3>1. pc'[q] = pc[q] /\ openTasks'[q] = openTasks[q] /\ AttemptAt(q)
      BY <1>0, <2>1 DEF AttemptInvariant, TypeOK
    <3> QED
      BY <2>1, <3>1 DEF AttemptAt
  <2> QED
    BY <2>2, <2>3 DEF AttemptInvariant
<1>11. ASSUME NEW r \in Runs, EngineExecute(r) PROVE AttemptInvariant'
  <2>1. /\ pc[r] = "execute" /\ pc' = [pc EXCEPT ![r] = "collect"]
        /\ UNCHANGED <<openTasks, raised, pending, idx, obs, enginesRun, plan>>
    BY <1>11 DEF EngineExecute, Advance, Goto
  <2>2. pc'[r] = "collect" /\ \A q \in Runs \ {r} : pc'[q] = pc[q]
    BY <1>0, <2>1 DEF TypeOK
  <2> QED
    BY <2>1, <2>2 DEF AttemptInvariant, AttemptAt
<1>12. ASSUME NEW r \in Runs, EngineCollect(r) PROVE AttemptInvariant'
  <2>1. /\ pc[r] = "collect" /\ pc' = [pc EXCEPT ![r] = "cleanup"]
        /\ UNCHANGED <<openTasks, raised, idx, obs, enginesRun, plan>>
    BY <1>12 DEF EngineCollect, Advance, Goto
  <2>2. PICK F \in SUBSET Finds[CurrentTask(r).engine] : \E c \in [F -> EngineConfs] :
          pending' = [pending EXCEPT ![r] =
            {[run |-> r, task |-> idx[r], engine |-> CurrentTask(r).engine, fp |-> f, conf |-> c[f],
              at |-> now + 1, probe |-> "none"] : f \in F}]
    BY <1>12 DEF EngineCollect
  <2>3. /\ pc'[r] = "cleanup" /\ \A q \in Runs \ {r} : pc'[q] = pc[q] /\ pending'[q] = pending[q]
        /\ \A o \in pending'[r] : o.task = idx[r] /\ o.engine = CurrentTask(r).engine
    BY <1>0, <2>1, <2>2 DEF TypeOK
  <2>4. AttemptAt(r)'
    BY <2>1, <2>3 DEF AttemptInvariant, AttemptAt, CurrentTask
  <2>5. ASSUME NEW q \in Runs \ {r} PROVE AttemptAt(q)'
    BY <2>1, <2>3 DEF AttemptInvariant, AttemptAt
  <2> QED
    BY <2>4, <2>5 DEF AttemptInvariant
<1>13. ASSUME NEW r \in Runs, EngineCleanup(r) PROVE AttemptInvariant'
  <2>1. /\ pc[r] \in EngineSteps /\ EngineReturns(r, pending[r])
        /\ openTasks' = [openTasks EXCEPT ![r] = openTasks[r] \ {idx[r]}]
        /\ raised' = [raised EXCEPT ![r] = @ \cup {}]
    BY <1>0, <1>13 DEF EngineCleanup, EngineSteps, TypeOK
  <2>2. pending[r] \in SUBSET pending[r] /\ openTasks[r] \ {idx[r]} \subseteq openTasks[r]
    OBVIOUS
  <2>3. idx[r] \notin openTasks[r] \ {idx[r]} /\ {} \in {{}, {idx[r]}}
    OBVIOUS
  <2> QED
    BY <2>1, <2>2, <2>3, AttemptEnds, Zenon
<1>14. ASSUME NEW r \in Runs, EngineRaises(r) PROVE AttemptInvariant'
  <2>1. /\ pc[r] \in EngineSteps /\ EngineReturns(r, {})
        /\ openTasks' = [openTasks EXCEPT ![r] = openTasks[r]]
        /\ raised' = [raised EXCEPT ![r] = @ \cup {idx[r]}]
    BY <1>0, <1>14 DEF EngineRaises, TypeOK
  <2> QED
    BY <2>1, AttemptEnds
<1>15. ASSUME NEW r \in Runs, PersistObservations(r) PROVE AttemptInvariant'
  BY <1>0, <1>15, AttemptsKept DEF PersistObservations, Goto, TypeOK, Attempting, AttemptVars
<1>16. ASSUME NEW r \in Runs, EnterCorrelating(r) PROVE AttemptInvariant'
  BY <1>0, <1>16, AttemptsKept DEF EnterCorrelating, Goto, TypeOK, Attempting, AttemptVars
<1>17. ASSUME NEW r \in Runs, ValidateOne(r) PROVE AttemptInvariant'
  <2>1. /\ pc[r] = "validate"
        /\ UNCHANGED <<pc, openTasks, raised, pending, idx, enginesRun, plan>>
    BY <1>17 DEF ValidateOne
  <2>2. \A q \in Runs \ {r} : obs'[q] = obs[q]
    BY <1>0, <1>17 DEF ValidateOne, TypeOK
  <2>3. \A o \in obs'[r] : \E p \in obs[r] : o.task = p.task /\ o.engine = p.engine
    <3>1. PICK o \in todo[r] :
            \/ UNCHANGED obs
            \/ \E probe, verdict :
                 obs' = [obs EXCEPT ![r] = (@ \ {o}) \cup {Revised(o, verdict, probe, now + 1)}]
      BY <1>17 DEF ValidateOne
    <3>2. o \in obs[r] /\ o \in Observations
      BY <1>0, <2>1 DEF OwnObservations, TypeOK
    <3>3. ASSUME NEW probe, NEW verdict
          PROVE  /\ Revised(o, verdict, probe, now + 1).task = o.task
                 /\ Revised(o, verdict, probe, now + 1).engine = o.engine
      <4> DEFINE c == IF o.conf = "confirmed" /\ verdict # "false_positive"
                      THEN "confirmed" ELSE verdict
      <4>1. Revised(o, verdict, probe, now + 1)
              = [o EXCEPT !.conf = c, !.at = now + 1, !.probe = probe]
        BY DEF Revised
      <4> HIDE DEF c
      <4> QED
        BY <3>2, <4>1 DEF Observations
    <3>4. CASE UNCHANGED obs
      BY <3>4
    <3>5. ASSUME NEW probe, NEW verdict,
                 obs' = [obs EXCEPT ![r] = (@ \ {o}) \cup {Revised(o, verdict, probe, now + 1)}]
          PROVE  \A n \in obs'[r] : \E p \in obs[r] : n.task = p.task /\ n.engine = p.engine
      <4>1. obs'[r] = (obs[r] \ {o}) \cup {Revised(o, verdict, probe, now + 1)}
        BY <1>0, <3>5 DEF TypeOK
      <4> QED
        BY <3>2, <3>3, <4>1
    <3> QED
      BY <3>1, <3>4, <3>5
  <2>4. AttemptAt(r)'
    BY <2>1, <2>3 DEF AttemptInvariant, AttemptAt
  <2>5. ASSUME NEW q \in Runs \ {r} PROVE AttemptAt(q)'
    BY <2>1, <2>2 DEF AttemptInvariant, AttemptAt
  <2> QED
    BY <2>4, <2>5 DEF AttemptInvariant
<1>18. ASSUME NEW r \in Runs, ValidateRaises(r) PROVE AttemptInvariant'
  BY <1>0, <1>18, AttemptsKept DEF ValidateRaises, TypeOK, Attempting, AttemptVars
<1>19. ASSUME NEW r \in Runs, CorrelateAndCarry(r) PROVE AttemptInvariant'
  BY <1>0, <1>19, AttemptsKept DEF CorrelateAndCarry, Goto, TypeOK, Attempting, AttemptVars
<1>20. ASSUME NEW r \in Runs, EnterValidating(r) PROVE AttemptInvariant'
  BY <1>0, <1>20, AttemptsKept DEF EnterValidating, Goto, TypeOK, Attempting, AttemptVars
<1>21. ASSUME NEW r \in Runs, EnterReporting(r) PROVE AttemptInvariant'
  BY <1>0, <1>21, AttemptsKept DEF EnterReporting, Goto, TypeOK, Attempting, AttemptVars
<1>22. ASSUME NEW r \in Runs, PersistFindings(r) PROVE AttemptInvariant'
  BY <1>0, <1>22, AttemptsKept DEF PersistFindings, Goto, TypeOK, Attempting, AttemptVars
<1>23. ASSUME NEW r \in Runs, Assess(r) \/ AssessRaises(r) PROVE AttemptInvariant'
  BY <1>0, <1>23, AttemptsKept DEF Assess, AssessRaises, Goto, TypeOK, Attempting, AttemptVars
<1>24. ASSUME NEW r \in Runs, Complete(r) PROVE AttemptInvariant'
  BY <1>0, <1>24, AttemptsKept DEF Complete, Goto, TypeOK, Attempting, AttemptVars
<1>25. ASSUME NEW r \in Runs, LoseRun(r) PROVE AttemptInvariant'
  <2>1. /\ pc' = [pc EXCEPT ![r] = "lost"]
        /\ UNCHANGED <<openTasks, raised, pending, obs, idx, enginesRun, plan>>
    BY <1>25 DEF LoseRun
  <2>2. pc'[r] = "lost" /\ \A q \in Runs \ {r} : pc'[q] = pc[q]
    BY <1>0, <2>1 DEF TypeOK
  <2> QED
    BY <2>1, <2>2 DEF AttemptInvariant, AttemptAt
<1>26. CASE (\E t \in Targets : AuthorizationExpires(t)) \/ UNCHANGED vars
  <2>1. UNCHANGED <<pc, openTasks, raised, pending, obs, idx, enginesRun, plan>>
    BY <1>26 DEF AuthorizationExpires, vars
  <2> QED
    BY <2>1 DEF AttemptInvariant, AttemptAt
<1> QED
  BY <1>1, <1>2, <1>3, <1>4, <1>5, <1>6, <1>7, <1>8, <1>9, <1>10,
     <1>11, <1>12, <1>13, <1>14, <1>15, <1>16, <1>17, <1>18, <1>19, <1>20,
     <1>21, <1>22, <1>23, <1>24, <1>25, <1>26 DEF Next, Step, EngineStep, AllOver

(* A run that is new has tried nothing.                                    *)
LEMMA AttemptInit == Init => AttemptInvariant
BY DEF Init, AttemptInvariant, AttemptAt

(* An engine that raised contributes nothing and is the only kind that is  *)
(* left open, for any engines, plans and interleavings.                    *)
THEOREM AttemptsAccountedHolds == Spec => []AttemptsAccounted
<1>1. RunInvariant /\ AttemptInvariant /\ [Next]_vars => AttemptInvariant'
  BY AttemptStep
<1>2. AttemptInvariant => AttemptsAccounted
  BY DEF AttemptInvariant, AttemptAt, AttemptsAccounted, OnlyFailuresAreLeftOpen,
         EvidenceOfEndedAttempts, EngineSteps
<1> QED
  BY RunInvariantHolds, AttemptInit, <1>1, <1>2, PTL DEF Spec

-----------------------------------------------------------------------------
(* The feedback of discovered URLs *)

(* Two finite sets together have no more elements than the two have.       *)
LEMMA UnionBound ==
  ASSUME NEW S, NEW X, IsFiniteSet(S), IsFiniteSet(X)
  PROVE  /\ IsFiniteSet(S \cup X)
         /\ Cardinality(S) \in Nat /\ Cardinality(X) \in Nat /\ Cardinality(S \cup X) \in Nat
         /\ Cardinality(S \cup X) <= Cardinality(S) + Cardinality(X)
<1>1. IsFiniteSet(S \cup X) /\ IsFiniteSet(S \cap X)
  BY FS_Union, FS_Intersection
<1>2. /\ Cardinality(S) \in Nat /\ Cardinality(X) \in Nat
      /\ Cardinality(S \cup X) \in Nat /\ Cardinality(S \cap X) \in Nat
  BY <1>1, FS_CardinalityType
<1>3. Cardinality(S \cup X) = Cardinality(S) + Cardinality(X) - Cardinality(S \cap X)
  BY FS_Union
<1> QED
  BY <1>1, <1>2, <1>3

(* _collect_discovered fills the list up to the cap, and beyond it by one  *)
(* URL at a time.                                                          *)
LEMMA CollectDiscoveredBound ==
  ASSUME NEW into, NEW allowed, IsFiniteSet(into), IsFiniteSet(allowed),
         NEW D \in CollectDiscovered(into, allowed)
  PROVE  /\ Cardinality(into) \in Nat /\ Cardinality(D) \in Nat
         /\ Cardinality(D) <= MaxDiscovered \/ Cardinality(D) <= Cardinality(into) + 1
<1> DEFINE new  == allowed \ into
           room == MaxDiscovered - Cardinality(into)
           take == IF room > 0 THEN room ELSE 1
<1>1. MaxDiscovered \in Nat \ {0}
  BY ConstantsAssumption DEF ConstantsAssumption
<1>2. IsFiniteSet(new) /\ \A Y \in SUBSET new : IsFiniteSet(Y)
  BY FS_Subset
<1>3. PICK X \in SUBSET new : D = into \cup X /\ Cardinality(X) <= take
  <2>1. Cardinality(into) \in Nat
    BY FS_CardinalityType
  <2>2. take \in Nat
    BY <1>1, <2>1
  <2> HIDE DEF take
  <2>3. CASE Cardinality(new) <= take
    BY <2>3 DEF CollectDiscovered, take
  <2>4. CASE ~(Cardinality(new) <= take)
    <3>1. PICK Y \in SUBSET new : D = into \cup Y /\ Cardinality(Y) = take
      BY <2>4 DEF CollectDiscovered, take
    <3> QED
      BY <2>2, <3>1
  <2> QED
    BY <2>3, <2>4
<1> HIDE DEF new
<1>4. /\ Cardinality(into) \in Nat /\ Cardinality(X) \in Nat /\ Cardinality(D) \in Nat
      /\ Cardinality(D) <= Cardinality(into) + Cardinality(X)
  BY <1>2, <1>3, UnionBound
<1> QED
  BY <1>1, <1>3, <1>4

(* _merge_seeds fills the seeds up to the cap, or adds one to a full list. *)
LEMMA MergeSeedsBound ==
  ASSUME NEW base, NEW extra, IsFiniteSet(base), IsFiniteSet(extra),
         NEW S \in MergeSeeds(base, extra)
  PROVE  Cardinality(S) <= MaxFedSeeds \/ Cardinality(S) <= Cardinality(base) + 1
<1> DEFINE new  == extra \ base
           room == MaxFedSeeds - Cardinality(base)
           take == IF room > 0 THEN room ELSE 1
<1>1. MaxFedSeeds \in Nat \ {0} /\ Cardinality(base) \in Nat
  BY ConstantsAssumption, FS_CardinalityType DEF ConstantsAssumption
<1>2. IsFiniteSet(new) /\ \A Y \in SUBSET new : IsFiniteSet(Y)
  BY FS_Subset
<1>3. take \in Nat
  BY <1>1
<1> HIDE DEF take
<1>4. S = base \/ \E X \in SUBSET new : S = base \cup X /\ Cardinality(X) <= take
  <2>1. CASE Cardinality(new) <= take
    BY <2>1 DEF MergeSeeds, take
  <2>2. CASE ~(Cardinality(new) <= take)
    <3>1. S = base \/ \E Y \in SUBSET new : S = base \cup Y /\ Cardinality(Y) = take
      BY <2>2 DEF MergeSeeds, take
    <3> QED
      BY <1>3, <3>1
  <2> QED
    BY <2>1, <2>2
<1> HIDE DEF new
<1>5. CASE S = base
  BY <1>1, <1>5
<1>6. ASSUME NEW X \in SUBSET new, S = base \cup X, Cardinality(X) <= take
      PROVE  Cardinality(S) <= MaxFedSeeds \/ Cardinality(S) <= Cardinality(base) + 1
  <2>1. /\ Cardinality(X) \in Nat /\ Cardinality(S) \in Nat
        /\ Cardinality(S) <= Cardinality(base) + Cardinality(X)
    BY <1>2, <1>6, UnionBound
  <2> QED
    BY <1>1, <1>6, <2>1 DEF take
<1> QED
  BY <1>4, <1>5, <1>6

(* A step that neither feeds nor collects keeps what is known of both.     *)
LEMMA FeedbackKept ==
  ASSUME TypeOK, FeedbackInvariant, NEW r \in Runs,
         UNCHANGED <<seeds, discovered, idx>>,
         \A q \in Runs \ {r} : pc'[q] = pc[q] /\ plan'[q] = plan[q],
         pc'[r] \in EngineSteps => pc[r] \in EngineSteps /\ plan'[r] = plan[r]
  PROVE  FeedbackInvariant'
<1> SUFFICES ASSUME NEW q \in Runs PROVE FeedbackAt(q)' /\ BoundAt(q)'
  BY DEF FeedbackInvariant
<1>1. FeedbackAt(q) /\ BoundAt(q)
  BY DEF FeedbackInvariant
<1>2. BoundAt(q)'
  BY <1>1 DEF BoundAt
<1>3. FeedbackAt(q)'
  BY <1>1 DEF FeedbackAt, CurrentTask
<1> QED
  BY <1>2, <1>3

(* The end of an attempt collects allowed URLs, within the bounds.         *)
LEMMA FeedbackCollects ==
  ASSUME IsFiniteSet(Urls), TypeOK, FeedbackInvariant, NEW r \in Runs,
         NEW O \in SUBSET pending[r], EngineReturns(r, O)
  PROVE  FeedbackInvariant'
<1> DEFINE allowed == {UrlOf[o.fp] : o \in {p \in O : scopeOk[r]}} \cap InScope
<1>1. PICK D \in CollectDiscovered(discovered[r], allowed) :
        discovered' = [discovered EXCEPT ![r] = D]
  BY DEF EngineReturns
<1>2. /\ pc' = [pc EXCEPT ![r] = "task"] /\ idx' = [idx EXCEPT ![r] = @ + 1]
      /\ plan' = plan /\ seeds' = seeds
  BY DEF EngineReturns, ctxVars
<1>3. FeedbackAt(r) /\ BoundAt(r) /\ idx[r] \in Nat \ {0}
  BY DEF FeedbackInvariant, TypeOK, Task
<1>4. allowed \subseteq InScope /\ InScope \subseteq Urls /\ MaxDiscovered \in Nat \ {0}
  BY ConstantsAssumption DEF ConstantsAssumption
<1> HIDE DEF allowed
<1>5. IsFiniteSet(allowed) /\ IsFiniteSet(discovered[r])
  BY <1>4, FS_Subset DEF TypeOK
<1>6. /\ Cardinality(discovered[r]) \in Nat /\ Cardinality(D) \in Nat
      /\ \/ Cardinality(D) <= MaxDiscovered
         \/ Cardinality(D) <= Cardinality(discovered[r]) + 1
  BY <1>1, <1>5, CollectDiscoveredBound
<1>7. D \subseteq discovered[r] \cup allowed
  BY <1>1, CollectDiscoveredAdds
<1>8. /\ discovered'[r] = D /\ idx'[r] = idx[r] + 1 /\ pc'[r] = "task"
  BY <1>1, <1>2 DEF TypeOK
<1>9. Cardinality(D) <= MaxDiscovered + (idx[r] + 1) - 2
  <2>1. CASE idx[r] = 1
    <3>1. Cardinality(discovered[r]) = 0
      BY <1>3, <2>1, FS_EmptySet DEF BoundAt
    <3> QED
      BY <1>4, <1>6, <2>1, <3>1
  <2>2. CASE idx[r] > 1
    BY <1>3, <1>4, <1>6, <2>2 DEF BoundAt
  <2> QED
    BY <1>3, <2>1, <2>2
<1>10. FeedbackAt(r)' /\ BoundAt(r)'
  <2>1. FeedbackAt(r)'
    BY <1>3, <1>4, <1>7, <1>8 DEF FeedbackAt, EngineSteps
  <2>2. BoundAt(r)'
    BY <1>2, <1>3, <1>8, <1>9 DEF BoundAt
  <2> QED
    BY <2>1, <2>2
<1>11. ASSUME NEW q \in Runs \ {r} PROVE FeedbackAt(q)' /\ BoundAt(q)'
  <2>1. pc'[q] = pc[q] /\ idx'[q] = idx[q] /\ discovered'[q] = discovered[q]
    BY <1>1, <1>2 DEF TypeOK
  <2>2. FeedbackAt(q) /\ BoundAt(q)
    BY DEF FeedbackInvariant
  <2>3. FeedbackAt(q)'
    BY <1>2, <2>1, <2>2 DEF FeedbackAt, CurrentTask
  <2>4. BoundAt(q)'
    BY <1>2, <2>1, <2>2 DEF BoundAt
  <2> QED
    BY <2>3, <2>4
<1> QED
  BY <1>10, <1>11 DEF FeedbackInvariant

(* An engine starts with the base URLs, or with those and what earlier     *)
(* engines discovered.                                                     *)
LEMMA FeedbackFeeds ==
  ASSUME IsFiniteSet(Urls), TypeOK, FeedbackInvariant, NEW r \in Runs, StartEngine(r)
  PROVE  FeedbackInvariant'
<1>1. PICK S \in SeedChoices(r) : seeds' = [seeds EXCEPT ![r] = S]
  BY DEF StartEngine
<1>2. /\ pc' = [pc EXCEPT ![r] = "health"] /\ UNCHANGED <<idx, plan, discovered>>
  BY DEF StartEngine, Goto, ctxVars
<1>3. FeedbackAt(r) /\ BoundAt(r) /\ seeds'[r] = S
  BY <1>1 DEF FeedbackInvariant, TypeOK
<1>4. IsFiniteSet(BaseUrls) /\ IsFiniteSet(discovered[r])
  BY ConstantsAssumption, FS_Subset DEF TypeOK, ConstantsAssumption
<1>5. \/ S = BaseUrls
      \/ CurrentTask(r).stage = "audit" /\ S \in MergeSeeds(BaseUrls, discovered[r])
  BY <1>1 DEF SeedChoices
<1>6. \/ S = BaseUrls
      \/ CurrentTask(r).stage = "audit" /\ S \ BaseUrls \subseteq discovered[r]
  BY <1>5, MergeSeedsAdds
<1>7. Cardinality(S) <= MaxFedSeeds \/ Cardinality(S) <= Cardinality(BaseUrls) + 1
  <2>1. Cardinality(BaseUrls) \in Nat
    BY <1>4, FS_CardinalityType
  <2>2. CASE S = BaseUrls
    BY <2>1, <2>2
  <2>3. CASE S \in MergeSeeds(BaseUrls, discovered[r])
    BY <1>4, <2>3, MergeSeedsBound
  <2> QED
    BY <1>5, <2>2, <2>3
<1>8. FeedbackAt(r)'
  BY <1>2, <1>3, <1>6 DEF FeedbackAt, CurrentTask
<1>9. BoundAt(r)'
  BY <1>2, <1>3, <1>7 DEF BoundAt
<1>10. ASSUME NEW q \in Runs \ {r} PROVE FeedbackAt(q)' /\ BoundAt(q)'
  <2>1. pc'[q] = pc[q] /\ seeds'[q] = seeds[q]
    BY <1>1, <1>2 DEF TypeOK
  <2>2. FeedbackAt(q) /\ BoundAt(q)
    BY DEF FeedbackInvariant
  <2>3. FeedbackAt(q)'
    BY <1>2, <2>1, <2>2 DEF FeedbackAt, CurrentTask
  <2>4. BoundAt(q)'
    BY <1>2, <2>1, <2>2 DEF BoundAt
  <2> QED
    BY <2>3, <2>4
<1> QED
  BY <1>8, <1>9, <1>10 DEF FeedbackInvariant

(* The feedback stays within scope and bounds at every step.               *)
LEMMA FeedbackStep ==
  ASSUME IsFiniteSet(Urls), TypeOK, FeedbackInvariant, [Next]_vars
  PROVE  FeedbackInvariant'
<1> USE DEF dbVars, scanVars, ctxVars, loopVars, reportVars, resultVars, worldVars
<1>1. ASSUME NEW r \in Runs, Submit(r) PROVE FeedbackInvariant'
  BY <1>1, FeedbackKept DEF Submit, Goto, TypeOK, EngineSteps
<1>2. ASSUME NEW r \in Runs, EnterQueued(r) PROVE FeedbackInvariant'
  BY <1>2, FeedbackKept DEF EnterQueued, Goto, SetState, TypeOK, EngineSteps
<1>3. ASSUME NEW r \in Runs, EnterPlanning(r) PROVE FeedbackInvariant'
  BY <1>3, FeedbackKept DEF EnterPlanning, Goto, SetState, TypeOK, EngineSteps
<1>4. ASSUME NEW r \in Runs, RefuseUnauthorized(r) PROVE FeedbackInvariant'
  BY <1>4, FeedbackKept DEF RefuseUnauthorized, Goto, SetState, TypeOK, EngineSteps
<1>5. ASSUME NEW r \in Runs, EnterRunning(r) PROVE FeedbackInvariant'
  BY <1>5, FeedbackKept DEF EnterRunning, Goto, SetState, TypeOK, EngineSteps
<1>6. ASSUME NEW r \in Runs, EngineHealthy(r) PROVE FeedbackInvariant'
  BY <1>6, FeedbackKept DEF EngineHealthy, Advance, Goto, TypeOK, EngineSteps
<1>7. ASSUME NEW r \in Runs, EnginePrepare(r) PROVE FeedbackInvariant'
  BY <1>7, FeedbackKept DEF EnginePrepare, Advance, Goto, TypeOK, EngineSteps
<1>8. ASSUME NEW r \in Runs, EngineExecute(r) PROVE FeedbackInvariant'
  BY <1>8, FeedbackKept DEF EngineExecute, Advance, Goto, TypeOK, EngineSteps
<1>9. ASSUME NEW r \in Runs, EngineCollect(r) PROVE FeedbackInvariant'
  BY <1>9, FeedbackKept DEF EngineCollect, Advance, Goto, TypeOK, EngineSteps
<1>10. ASSUME NEW r \in Runs, PersistObservations(r) PROVE FeedbackInvariant'
  BY <1>10, FeedbackKept DEF PersistObservations, Goto, TypeOK, EngineSteps
<1>11. ASSUME NEW r \in Runs, EnterCorrelating(r) PROVE FeedbackInvariant'
  BY <1>11, FeedbackKept DEF EnterCorrelating, Goto, SetState, TypeOK, EngineSteps
<1>12. ASSUME NEW r \in Runs, ValidateOne(r) PROVE FeedbackInvariant'
  BY <1>12, FeedbackKept DEF ValidateOne, TypeOK, EngineSteps
<1>13. ASSUME NEW r \in Runs, ValidateRaises(r) PROVE FeedbackInvariant'
  BY <1>13, FeedbackKept DEF ValidateRaises, TypeOK, EngineSteps
<1>14. ASSUME NEW r \in Runs, CorrelateAndCarry(r) PROVE FeedbackInvariant'
  BY <1>14, FeedbackKept DEF CorrelateAndCarry, Goto, TypeOK, EngineSteps
<1>15. ASSUME NEW r \in Runs, EnterValidating(r) PROVE FeedbackInvariant'
  BY <1>15, FeedbackKept DEF EnterValidating, Goto, SetState, TypeOK, EngineSteps
<1>16. ASSUME NEW r \in Runs, EnterReporting(r) PROVE FeedbackInvariant'
  BY <1>16, FeedbackKept DEF EnterReporting, Goto, SetState, TypeOK, EngineSteps
<1>17. ASSUME NEW r \in Runs, PersistFindings(r) PROVE FeedbackInvariant'
  BY <1>17, FeedbackKept DEF PersistFindings, Goto, TypeOK, EngineSteps
<1>18. ASSUME NEW r \in Runs, Assess(r) PROVE FeedbackInvariant'
  BY <1>18, FeedbackKept DEF Assess, Goto, TypeOK, EngineSteps
<1>19. ASSUME NEW r \in Runs, AssessRaises(r) PROVE FeedbackInvariant'
  BY <1>19, FeedbackKept DEF AssessRaises, Goto, TypeOK, EngineSteps
<1>20. ASSUME NEW r \in Runs, Complete(r) PROVE FeedbackInvariant'
  BY <1>20, FeedbackKept DEF Complete, Goto, SetState, TypeOK, EngineSteps
<1>21. ASSUME NEW r \in Runs, LoseRun(r) PROVE FeedbackInvariant'
  BY <1>21, FeedbackKept DEF LoseRun, TypeOK, EngineSteps
<1>22. ASSUME NEW r \in Runs, EngineUnavailable(r) \/ EngineCleanup(r) \/ EngineRaises(r)
      PROVE  FeedbackInvariant'
  <2>1. EngineReturns(r, {}) \/ EngineReturns(r, pending[r])
    BY <1>22 DEF EngineUnavailable, EngineCleanup, EngineRaises
  <2> QED
    BY <2>1, FeedbackCollects
<1>23. ASSUME NEW r \in Runs, StartEngine(r) PROVE FeedbackInvariant'
  BY <1>23, FeedbackFeeds
<1>24. ASSUME NEW r \in Runs, SkipUnbound(r) PROVE FeedbackInvariant'
  <2>1. /\ pc[r] = "task" /\ idx' = [idx EXCEPT ![r] = @ + 1]
        /\ UNCHANGED <<pc, plan, seeds, discovered>>
    BY <1>24 DEF SkipUnbound, AtTask
  <2>2. idx[r] \in Nat \ {0} /\ MaxDiscovered \in Nat \ {0}
    BY ConstantsAssumption DEF TypeOK, Task, ConstantsAssumption
  <2>3. ASSUME NEW q \in Runs PROVE FeedbackAt(q)' /\ BoundAt(q)'
    <3>1. FeedbackAt(q) /\ BoundAt(q)
      BY DEF FeedbackInvariant
    <3>2. CASE q # r
      BY <2>1, <3>1, <3>2 DEF FeedbackAt, BoundAt, CurrentTask, TypeOK
    <3>3. CASE q = r
      <4>1. idx'[q] = idx[q] + 1 /\ pc'[q] = "task"
        BY <2>1, <3>3 DEF TypeOK
      <4>2. FeedbackAt(q)'
        BY <2>1, <3>1, <4>1 DEF FeedbackAt, EngineSteps
      <4>3. Cardinality(discovered[q]) \in Nat
        BY FS_Subset, FS_CardinalityType DEF TypeOK
      <4>4. Cardinality(discovered[q]) <= MaxDiscovered + (idx[q] + 1) - 2
        <5>1. CASE idx[q] = 1
          <6>1. Cardinality(discovered[q]) = 0
            BY <3>1, <5>1, FS_EmptySet DEF BoundAt
          <6> QED
            BY <2>2, <5>1, <6>1
        <5>2. CASE idx[q] > 1
          <6>1. Cardinality(discovered[q]) <= MaxDiscovered + idx[q] - 2
            BY <3>1, <5>2 DEF BoundAt
          <6> QED
            BY <2>2, <3>3, <4>3, <6>1
        <5> QED
          BY <2>2, <3>3, <5>1, <5>2
      <4> QED
        BY <2>1, <2>2, <3>1, <3>3, <4>1, <4>2, <4>4 DEF BoundAt
    <3> QED
      BY <3>2, <3>3
  <2> QED
    BY <2>3 DEF FeedbackInvariant
<1>25. CASE (\E t \in Targets : AuthorizationExpires(t)) \/ UNCHANGED vars
  <2>1. UNCHANGED <<pc, idx, plan, seeds, discovered>>
    BY <1>25 DEF AuthorizationExpires, vars
  <2> QED
    BY <2>1 DEF FeedbackInvariant, FeedbackAt, BoundAt, CurrentTask
<1> QED
  BY <1>1, <1>2, <1>3, <1>4, <1>5, <1>6, <1>7, <1>8, <1>9, <1>10, <1>11,
     <1>12, <1>13, <1>14, <1>15, <1>16, <1>17, <1>18, <1>19, <1>20, <1>21,
     <1>22, <1>23, <1>24, <1>25 DEF Next, Step, EngineStep, AllOver

(* Nor has it discovered or been given anything.                           *)
LEMMA FeedbackInit == Init => FeedbackInvariant
<1>1. Cardinality({}) = 0 /\ MaxFedSeeds \in Nat
  BY FS_EmptySet, ConstantsAssumption DEF ConstantsAssumption
<1> QED
  BY <1>1 DEF Init, FeedbackInvariant, FeedbackAt, BoundAt, EngineSteps

(* What engines discover is fed to audit engines only, in scope and within *)
(* the caps of MAX_DISCOVERED and MAX_FED_SEEDS, for every finite set of   *)
(* URLs and any plan.                                                      *)
THEOREM FeedbackIsContainedHolds ==
  ASSUME IsFiniteSet(Urls)
  PROVE  Spec => []FeedbackIsContained
<1>1. TypeOK /\ FeedbackInvariant /\ [Next]_vars => FeedbackInvariant'
  BY FeedbackStep
<1>2. FeedbackInvariant => FeedbackIsContained
  BY DEF FeedbackInvariant, FeedbackAt, BoundAt, FeedbackIsContained, OnlyAuditIsFed,
         FeedbackIsBounded
<1> QED
  BY TypeCorrect, FeedbackInit, <1>1, <1>2, PTL DEF Spec

-----------------------------------------------------------------------------
(* The rows of the database when every scan is run by one call of run: the *)
(* findings stand on the stored evidence, and the rows of every scan live  *)
(* the life that ScanLifecycle describes.                                  *)

(* The rows of a scan are those of the one run it is given to.             *)
LEMMA RowsOfOneRun ==
  ASSUME OneRunPerScan, TypeOK, NEW r \in Runs
  PROVE  RowsOf(ScanOf[r]) = Stored(r)
BY DEF OneRunPerScan, TypeOK, Observations, RowsOf, Stored

(* Correlation partitions the observations of a scan by fingerprint, and   *)
(* names the scan.                                                         *)
LEMMA CorrelatePartitions ==
  ASSUME NEW s, NEW O \in SUBSET Observations
  PROVE  /\ \A f \in Correlate(s, O) :
              f.scan = s /\ f.obs # {} /\ f.obs = {i \in Ids(O) : i[3] = f.fp}
         /\ \A i \in Ids(O) : \E f \in Correlate(s, O) : f.fp = i[3]
         /\ \A f, g \in Correlate(s, O) : f.fp = g.fp => f = g
<1> DEFINE K == {o.fp : o \in O}
           M(p) == MergeGroup(s, p, {o \in O : o.fp = p})
<1>1. ASSUME NEW p \in K
      PROVE  /\ M(p).scan = s /\ M(p).fp = p /\ M(p).obs # {}
             /\ M(p).obs = {i \in Ids(O) : i[3] = p}
  <2> DEFINE G == {o \in O : o.fp = p}
  <2>1. M(p).scan = s /\ M(p).fp = p /\ M(p).obs = Ids(G)
    BY DEF MergeGroup, Ids
  <2>2. Ids(G) # {}
    BY DEF Ids
  <2>3. Ids(G) = {i \in Ids(O) : i[3] = p}
    BY DEF Ids, ObsId
  <2> QED
    BY <2>1, <2>2, <2>3
<1>2. Correlate(s, O) = {M(p) : p \in K}
  BY DEF Correlate
<1>3. \A o \in O : o.fp \in K /\ ObsId(o)[3] = o.fp
  BY DEF ObsId
<1> HIDE DEF K, M
<1>4. \A f \in Correlate(s, O) :
        f.scan = s /\ f.obs # {} /\ f.obs = {i \in Ids(O) : i[3] = f.fp}
  <2> SUFFICES ASSUME NEW p \in K
               PROVE  /\ M(p).scan = s /\ M(p).obs # {}
                      /\ M(p).obs = {i \in Ids(O) : i[3] = M(p).fp}
    BY <1>2
  <2> QED
    BY <1>1
<1>5. \A i \in Ids(O) : \E f \in Correlate(s, O) : f.fp = i[3]
  BY <1>1, <1>2, <1>3 DEF Ids
<1>6. \A f, g \in Correlate(s, O) : f.fp = g.fp => f = g
  BY <1>1, <1>2
<1> QED
  BY <1>4, <1>5, <1>6

(* A carried finding keeps its scan, fingerprint and evidence.             *)
LEMMA CarryForwardKeeps ==
  ASSUME NEW P, NEW f \in Findings, NEW t
  PROVE  /\ CarryForward(P, f, t).scan = f.scan
         /\ CarryForward(P, f, t).fp = f.fp
         /\ CarryForward(P, f, t).obs = f.obs
BY DEF CarryForward, Findings

(* Validating an observation changes its confidence and time, not its id.  *)
LEMMA ValidateOneKeepsIds ==
  ASSUME TypeOK, OwnObservations, NEW r \in Runs, ValidateOne(r)
  PROVE  \A q \in Runs : Ids(obs'[q]) = Ids(obs[q])
<1>1. pc[r] = "validate" /\ \E o \in todo[r] :
        \/ UNCHANGED obs
        \/ \E probe, verdict : obs' = [obs EXCEPT ![r] =
             (@ \ {o}) \cup {Revised(o, verdict, probe, now + 1)}]
  BY DEF ValidateOne
<1>2. PICK o \in todo[r] :
        \/ UNCHANGED obs
        \/ \E probe, verdict : obs' = [obs EXCEPT ![r] =
             (@ \ {o}) \cup {Revised(o, verdict, probe, now + 1)}]
  BY <1>1
<1>3. CASE UNCHANGED obs
  BY <1>3
<1>4. ASSUME NEW probe, NEW verdict,
             obs' = [obs EXCEPT ![r] =
               (@ \ {o}) \cup {Revised(o, verdict, probe, now + 1)}]
      PROVE  \A q \in Runs : Ids(obs'[q]) = Ids(obs[q])
  <2> DEFINE v == Revised(o, verdict, probe, now + 1)
  <2>1. o \in obs[r] /\ o \in Observations
    BY <1>1 DEF OwnObservations, TypeOK
  <2>2. ObsId(v) = ObsId(o)
    BY <2>1 DEF Revised, ObsId, Observations
  <2>3. obs'[r] = (obs[r] \ {o}) \cup {v} /\ \A q \in Runs \ {r} : obs'[q] = obs[q]
    BY <1>4 DEF TypeOK
  <2> HIDE DEF v
  <2>4. Ids(obs'[r]) = Ids(obs[r])
    BY <2>1, <2>2, <2>3 DEF Ids
  <2> QED
    BY <2>3, <2>4
<1> QED
  BY <1>2, <1>3, <1>4

(* A step of the engine loop leaves the rows, and what they are compared   *)
(* with, alone: what the loop gathers counts once it is over.              *)
LEMMA LoopKeepsStore ==
  ASSUME StoreInvariant, TypeOK, NEW r \in Runs, NEW p \in InLoop,
         pc[r] \in InLoop, pc' = [pc EXCEPT ![r] = p],
         \A q \in Runs \ {r} : obs'[q] = obs[q],
         UNCHANGED <<rowState, memState, obsRows, findingRows, findings>>
  PROVE  StoreInvariant'
<1>1. pc'[r] \in InLoop /\ \A q \in Runs \ {r} : pc'[q] = pc[q] /\ obs'[q] = obs[q]
  BY DEF TypeOK
<1>2. InLoop \cap (Correlated \cup FindingsStored) = {}
      /\ InLoop \subseteq BeforeFindings
  BY DEF InLoop, Correlated, FindingsStored, BeforeFindings, EngineSteps
<1>3. RowIsMemory'
  BY DEF StoreInvariant, RowIsMemory
<1>4. \A q \in Runs : Stored(q)' = Stored(q) /\ RowsOf(ScanOf[q])' = RowsOf(ScanOf[q])
                      /\ FindingsOf(ScanOf[q])' = FindingsOf(ScanOf[q])
  BY DEF Stored, RowsOf, FindingsOf
<1>5. EvidenceStored'
  BY <1>1, <1>4 DEF StoreInvariant, EvidenceStored
<1>6. FindingsPartition'
  BY <1>1, <1>2 DEF StoreInvariant, FindingsPartition
<1>7. FindingsStoredPartition'
  BY <1>1, <1>2, <1>4 DEF StoreInvariant, FindingsStoredPartition, RowsOf
<1> QED
  BY <1>3, <1>5, <1>6, <1>7 DEF StoreInvariant

(* One step of a run with a scan of its own keeps row and memory in step,  *)
(* evidence stored before it is used, and findings partitioning it.        *)
LEMMA StoreStep ==
  ASSUME OneRunPerScan, RunInvariant, StoreInvariant, [Next]_vars
  PROVE  StoreInvariant'
<1> USE ConstantsAssumption DEF ConstantsAssumption, StoreInvariant, dbVars, scanVars,
      ctxVars, loopVars, reportVars, resultVars, worldVars
<1>0. TypeOK /\ OwnObservations /\ GrantedRuns
  BY DEF RunInvariant, BasicInvariant
<1>1. ASSUME NEW r \in Runs, Submit(r) PROVE StoreInvariant'
  <2>1. RowIsMemory'
    BY <1>0, <1>1 DEF Submit, Goto, TypeOK, RowIsMemory, OneRunPerScan
  <2>2. EvidenceStored'
    BY <1>0, <1>1 DEF Submit, Goto, TypeOK, EvidenceStored, Stored, BeforeRunning, InLoop, EngineSteps, Correlated, FindingsStored, BeforeFindings
  <2>3. FindingsPartition'
    BY <1>0, <1>1 DEF Submit, Goto, TypeOK, FindingsPartition, BeforeRunning, InLoop, EngineSteps, Correlated, FindingsStored, BeforeFindings
  <2>4. FindingsStoredPartition'
    BY <1>0, <1>1 DEF Submit, Goto, TypeOK, FindingsStoredPartition, OneRunPerScan, FindingsOf, RowsOf, BeforeRunning, InLoop, EngineSteps, Correlated, FindingsStored, BeforeFindings
  <2> QED
    BY <2>1, <2>2, <2>3, <2>4
<1>2. ASSUME NEW r \in Runs, EnterQueued(r) PROVE StoreInvariant'
  <2>1. RowIsMemory'
    BY <1>0, <1>2 DEF EnterQueued, Goto, SetState, TypeOK, RowIsMemory, OneRunPerScan
  <2>2. EvidenceStored'
    BY <1>0, <1>2 DEF EnterQueued, Goto, SetState, TypeOK, EvidenceStored, Stored, BeforeRunning, InLoop, EngineSteps, Correlated, FindingsStored, BeforeFindings
  <2>3. FindingsPartition'
    BY <1>0, <1>2 DEF EnterQueued, Goto, SetState, TypeOK, FindingsPartition, BeforeRunning, InLoop, EngineSteps, Correlated, FindingsStored, BeforeFindings
  <2>4. FindingsStoredPartition'
    BY <1>0, <1>2 DEF EnterQueued, Goto, SetState, TypeOK, FindingsStoredPartition, OneRunPerScan, FindingsOf, RowsOf, BeforeRunning, InLoop, EngineSteps, Correlated, FindingsStored, BeforeFindings
  <2> QED
    BY <2>1, <2>2, <2>3, <2>4
<1>3. ASSUME NEW r \in Runs, EnterPlanning(r) PROVE StoreInvariant'
  <2>1. RowIsMemory'
    BY <1>0, <1>3 DEF EnterPlanning, Goto, SetState, TypeOK, RowIsMemory, OneRunPerScan
  <2>2. EvidenceStored'
    BY <1>0, <1>3 DEF EnterPlanning, Goto, SetState, TypeOK, EvidenceStored, Stored, BeforeRunning, InLoop, EngineSteps, Correlated, FindingsStored, BeforeFindings
  <2>3. FindingsPartition'
    BY <1>0, <1>3 DEF EnterPlanning, Goto, SetState, TypeOK, FindingsPartition, BeforeRunning, InLoop, EngineSteps, Correlated, FindingsStored, BeforeFindings
  <2>4. FindingsStoredPartition'
    BY <1>0, <1>3 DEF EnterPlanning, Goto, SetState, TypeOK, FindingsStoredPartition, OneRunPerScan, FindingsOf, RowsOf, BeforeRunning, InLoop, EngineSteps, Correlated, FindingsStored, BeforeFindings
  <2> QED
    BY <2>1, <2>2, <2>3, <2>4
<1>4. ASSUME NEW r \in Runs, RefuseUnauthorized(r) PROVE StoreInvariant'
  <2>1. RowIsMemory'
    BY <1>0, <1>4 DEF RefuseUnauthorized, Goto, SetState, TypeOK, RowIsMemory, OneRunPerScan
  <2>2. EvidenceStored'
    <3>1. /\ ~granted[r] /\ pc[r] = "planning" /\ pc' = [pc EXCEPT ![r] = "returned"]
          /\ UNCHANGED <<obsRows, obs>>
      BY <1>4 DEF RefuseUnauthorized, Goto, SetState
    <3>2. obs[r] = {} /\ Stored(r) = {}
      BY <1>0, <3>1 DEF GrantedRuns, EvidenceStored, BeforeRunning
    <3>3. Ids(Stored(r)) = Ids(obs[r])
      BY <3>2
    <3> QED
      BY <1>0, <3>1, <3>3 DEF TypeOK, EvidenceStored, Stored, BeforeRunning, InLoop, EngineSteps
  <2>3. FindingsPartition'
    BY <1>0, <1>4 DEF RefuseUnauthorized, Goto, SetState, TypeOK, FindingsPartition, BeforeRunning, InLoop, EngineSteps, Correlated, FindingsStored, BeforeFindings
  <2>4. FindingsStoredPartition'
    BY <1>0, <1>4 DEF RefuseUnauthorized, Goto, SetState, TypeOK, FindingsStoredPartition, OneRunPerScan, FindingsOf, RowsOf, BeforeRunning, InLoop, EngineSteps, Correlated, FindingsStored, BeforeFindings
  <2> QED
    BY <2>1, <2>2, <2>3, <2>4
<1>5. ASSUME NEW r \in Runs, EnterRunning(r) PROVE StoreInvariant'
  <2>1. RowIsMemory'
    BY <1>0, <1>5 DEF EnterRunning, Goto, SetState, TypeOK, RowIsMemory, OneRunPerScan
  <2>2. EvidenceStored'
    <3>1. /\ pc[r] \in BeforeRunning /\ pc' = [pc EXCEPT ![r] = "task"]
          /\ "task" \in InLoop /\ UNCHANGED <<obsRows, obs>>
      BY <1>5 DEF EnterRunning, Goto, SetState, BeforeRunning, InLoop
    <3> QED
      BY <1>0, <3>1 DEF TypeOK, EvidenceStored, Stored
  <2>3. FindingsPartition'
    <3>1. /\ pc' = [pc EXCEPT ![r] = "task"] /\ UNCHANGED <<obs, findings>>
      BY <1>5 DEF EnterRunning, Goto
    <3> QED
      BY <1>0, <3>1 DEF TypeOK, FindingsPartition, Correlated
  <2>4. FindingsStoredPartition'
    <3>1. /\ pc[r] \in BeforeFindings /\ pc'[r] \in BeforeFindings \ FindingsStored
          /\ \A q \in Runs \ {r} : pc'[q] = pc[q]
          /\ UNCHANGED <<obsRows, findingRows>>
      BY <1>0, <1>5 DEF EnterRunning, Goto, SetState, TypeOK, BeforeFindings, BeforeRunning, InLoop, FindingsStored
    <3> QED
      BY <3>1 DEF FindingsStoredPartition, FindingsOf, RowsOf
  <2> QED
    BY <2>1, <2>2, <2>3, <2>4
<1>6. ASSUME NEW r \in Runs, SkipUnbound(r) PROVE StoreInvariant'
  <2>1. /\ pc[r] \in InLoop /\ "task" \in InLoop /\ pc' = [pc EXCEPT ![r] = "task"]
        /\ \A q \in Runs \ {r} : obs'[q] = obs[q]
        /\ UNCHANGED <<rowState, memState, obsRows, findingRows, findings>>
    BY <1>0, <1>6 DEF SkipUnbound, AtTask, TypeOK, InLoop, EngineSteps
  <2> QED
    BY <1>0, <2>1, LoopKeepsStore
<1>7. ASSUME NEW r \in Runs, StartEngine(r) PROVE StoreInvariant'
  <2>1. /\ pc[r] \in InLoop /\ "health" \in InLoop /\ pc' = [pc EXCEPT ![r] = "health"]
        /\ \A q \in Runs \ {r} : obs'[q] = obs[q]
        /\ UNCHANGED <<rowState, memState, obsRows, findingRows, findings>>
    BY <1>0, <1>7 DEF StartEngine, AtTask, Goto, TypeOK, InLoop, EngineSteps
  <2> QED
    BY <1>0, <2>1, LoopKeepsStore
<1>8. ASSUME NEW r \in Runs, EngineHealthy(r) PROVE StoreInvariant'
  <2>1. /\ pc[r] \in InLoop /\ "prepare" \in InLoop /\ pc' = [pc EXCEPT ![r] = "prepare"]
        /\ \A q \in Runs \ {r} : obs'[q] = obs[q]
        /\ UNCHANGED <<rowState, memState, obsRows, findingRows, findings>>
    BY <1>0, <1>8 DEF EngineHealthy, Advance, Goto, TypeOK, InLoop, EngineSteps
  <2> QED
    BY <1>0, <2>1, LoopKeepsStore
<1>9. ASSUME NEW r \in Runs, EngineUnavailable(r) PROVE StoreInvariant'
  <2>1. /\ pc[r] \in InLoop /\ "task" \in InLoop /\ pc' = [pc EXCEPT ![r] = "task"]
        /\ \A q \in Runs \ {r} : obs'[q] = obs[q]
        /\ UNCHANGED <<rowState, memState, obsRows, findingRows, findings>>
    BY <1>0, <1>9 DEF EngineUnavailable, EngineReturns, TypeOK, InLoop, EngineSteps
  <2> QED
    BY <1>0, <2>1, LoopKeepsStore
<1>10. ASSUME NEW r \in Runs, EnginePrepare(r) PROVE StoreInvariant'
  <2>1. /\ pc[r] \in InLoop /\ "execute" \in InLoop /\ pc' = [pc EXCEPT ![r] = "execute"]
        /\ \A q \in Runs \ {r} : obs'[q] = obs[q]
        /\ UNCHANGED <<rowState, memState, obsRows, findingRows, findings>>
    BY <1>0, <1>10 DEF EnginePrepare, Advance, Goto, TypeOK, InLoop, EngineSteps
  <2> QED
    BY <1>0, <2>1, LoopKeepsStore
<1>11. ASSUME NEW r \in Runs, EngineExecute(r) PROVE StoreInvariant'
  <2>1. /\ pc[r] \in InLoop /\ "collect" \in InLoop /\ pc' = [pc EXCEPT ![r] = "collect"]
        /\ \A q \in Runs \ {r} : obs'[q] = obs[q]
        /\ UNCHANGED <<rowState, memState, obsRows, findingRows, findings>>
    BY <1>0, <1>11 DEF EngineExecute, Advance, Goto, TypeOK, InLoop, EngineSteps
  <2> QED
    BY <1>0, <2>1, LoopKeepsStore
<1>12. ASSUME NEW r \in Runs, EngineCollect(r) PROVE StoreInvariant'
  <2>1. /\ pc[r] \in InLoop /\ "cleanup" \in InLoop /\ pc' = [pc EXCEPT ![r] = "cleanup"]
        /\ \A q \in Runs \ {r} : obs'[q] = obs[q]
        /\ UNCHANGED <<rowState, memState, obsRows, findingRows, findings>>
    BY <1>0, <1>12 DEF EngineCollect, Advance, Goto, TypeOK, InLoop, EngineSteps
  <2> QED
    BY <1>0, <2>1, LoopKeepsStore
<1>13. ASSUME NEW r \in Runs, EngineCleanup(r) PROVE StoreInvariant'
  <2>1. /\ pc[r] \in InLoop /\ "task" \in InLoop /\ pc' = [pc EXCEPT ![r] = "task"]
        /\ \A q \in Runs \ {r} : obs'[q] = obs[q]
        /\ UNCHANGED <<rowState, memState, obsRows, findingRows, findings>>
    BY <1>0, <1>13 DEF EngineCleanup, EngineReturns, TypeOK, InLoop, EngineSteps
  <2> QED
    BY <1>0, <2>1, LoopKeepsStore
<1>14. ASSUME NEW r \in Runs, EngineRaises(r) PROVE StoreInvariant'
  <2>1. /\ pc[r] \in InLoop /\ "task" \in InLoop /\ pc' = [pc EXCEPT ![r] = "task"]
        /\ \A q \in Runs \ {r} : obs'[q] = obs[q]
        /\ UNCHANGED <<rowState, memState, obsRows, findingRows, findings>>
    BY <1>0, <1>14 DEF EngineRaises, EngineReturns, TypeOK, InLoop, EngineSteps
  <2> QED
    BY <1>0, <2>1, LoopKeepsStore
<1>15. ASSUME NEW r \in Runs, PersistObservations(r) PROVE StoreInvariant'
  <2>1. RowIsMemory'
    BY <1>0, <1>15 DEF PersistObservations, Goto, TypeOK, RowIsMemory, OneRunPerScan
  <2>2. EvidenceStored'
    <3>1. /\ pc[r] = "task" /\ pc' = [pc EXCEPT ![r] = "observed"]
          /\ obsRows' = obsRows \cup obs[r] /\ UNCHANGED obs
      BY <1>15 DEF PersistObservations, Goto
    <3>2. Stored(r) = {}
      BY <3>1 DEF EvidenceStored, InLoop
    <3>3. Stored(r)' = obs[r] /\ \A q \in Runs \ {r} : Stored(q)' = Stored(q)
      BY <1>0, <3>1, <3>2 DEF OwnObservations, Stored
    <3>4. Ids(Stored(r)') = Ids(obs'[r])
      BY <3>1, <3>3
    <3> QED
      BY <1>0, <3>1, <3>3, <3>4 DEF TypeOK, EvidenceStored, BeforeRunning, InLoop, EngineSteps
  <2>3. FindingsPartition'
    BY <1>0, <1>15 DEF PersistObservations, Goto, TypeOK, FindingsPartition, BeforeRunning, InLoop, EngineSteps, Correlated, FindingsStored, BeforeFindings
  <2>4. FindingsStoredPartition'
    <3>1. /\ pc[r] = "task" /\ pc' = [pc EXCEPT ![r] = "observed"]
          /\ obsRows' = obsRows \cup obs[r] /\ UNCHANGED findingRows
      BY <1>15 DEF PersistObservations, Goto
    <3>2. \A s \in Scans : Ids(RowsOf(s)) \subseteq Ids(RowsOf(s)')
      BY <3>1 DEF RowsOf, Ids
    <3>3. \A q \in Runs \ {r} : RowsOf(ScanOf[q])' = RowsOf(ScanOf[q])
      BY <1>0, <3>1 DEF OwnObservations, OneRunPerScan, RowsOf
    <3>4. \A f \in findingRows : \E q \in Runs : ScanOf[q] = f.scan /\ f.obs \subseteq Ids(RowsOf(f.scan)')
      BY <3>2 DEF FindingsStoredPartition
    <3>5. /\ pc[r] \in BeforeFindings
          /\ pc'[r] = "observed" /\ \A q \in Runs \ {r} : pc'[q] = pc[q]
      BY <1>0, <3>1 DEF TypeOK, BeforeFindings, InLoop
    <3>6. ASSUME NEW q \in Runs
          PROVE  /\ pc'[q] \in BeforeFindings => FindingsOf(ScanOf[q])' = {}
                 /\ pc'[q] \in FindingsStored =>
                      UNION {f.obs : f \in FindingsOf(ScanOf[q])'} = Ids(RowsOf(ScanOf[q])')
      <4>1. FindingsOf(ScanOf[q])' = FindingsOf(ScanOf[q])
        BY <3>1 DEF FindingsOf
      <4>2. CASE q = r
        BY <3>5, <4>1, <4>2 DEF FindingsStoredPartition, FindingsStored
      <4>3. CASE q # r
        BY <3>3, <3>5, <4>1, <4>3 DEF FindingsStoredPartition
      <4> QED
        BY <4>2, <4>3
    <3> QED
      BY <3>1, <3>4, <3>6 DEF FindingsStoredPartition, Ids
  <2> QED
    BY <2>1, <2>2, <2>3, <2>4
<1>16. ASSUME NEW r \in Runs, EnterCorrelating(r) PROVE StoreInvariant'
  <2>1. RowIsMemory'
    BY <1>0, <1>16 DEF EnterCorrelating, Goto, SetState, TypeOK, RowIsMemory, OneRunPerScan
  <2>2. EvidenceStored'
    BY <1>0, <1>16 DEF EnterCorrelating, Goto, SetState, TypeOK, EvidenceStored, Stored, BeforeRunning, InLoop, EngineSteps, Correlated, FindingsStored, BeforeFindings
  <2>3. FindingsPartition'
    BY <1>0, <1>16 DEF EnterCorrelating, Goto, SetState, TypeOK, FindingsPartition, BeforeRunning, InLoop, EngineSteps, Correlated, FindingsStored, BeforeFindings
  <2>4. FindingsStoredPartition'
    BY <1>0, <1>16 DEF EnterCorrelating, Goto, SetState, TypeOK, FindingsStoredPartition, OneRunPerScan, FindingsOf, RowsOf, BeforeRunning, InLoop, EngineSteps, Correlated, FindingsStored, BeforeFindings
  <2> QED
    BY <2>1, <2>2, <2>3, <2>4
<1>17. ASSUME NEW r \in Runs, ValidateOne(r) PROVE StoreInvariant'
  <2>1. RowIsMemory'
    BY <1>0, <1>17 DEF ValidateOne, TypeOK, RowIsMemory, OneRunPerScan
  <2>2. EvidenceStored'
    <3>1. UNCHANGED <<pc, obsRows>> /\ \A q \in Runs : Ids(obs'[q]) = Ids(obs[q])
      BY <1>0, <1>17, ValidateOneKeepsIds DEF ValidateOne
    <3> QED
      BY <3>1 DEF EvidenceStored, Stored
  <2>3. FindingsPartition'
    <3>1. UNCHANGED <<pc, findings>> /\ \A q \in Runs : Ids(obs'[q]) = Ids(obs[q])
      BY <1>0, <1>17, ValidateOneKeepsIds DEF ValidateOne
    <3> QED
      BY <3>1 DEF FindingsPartition
  <2>4. FindingsStoredPartition'
    BY <1>0, <1>17 DEF ValidateOne, TypeOK, FindingsStoredPartition, OneRunPerScan, FindingsOf, RowsOf, BeforeRunning, InLoop, EngineSteps, Correlated, FindingsStored, BeforeFindings
  <2> QED
    BY <2>1, <2>2, <2>3, <2>4
<1>18. ASSUME NEW r \in Runs, ValidateRaises(r) PROVE StoreInvariant'
  <2>1. RowIsMemory'
    BY <1>0, <1>18 DEF ValidateRaises, TypeOK, RowIsMemory, OneRunPerScan
  <2>2. EvidenceStored'
    BY <1>0, <1>18 DEF ValidateRaises, TypeOK, EvidenceStored, Stored, BeforeRunning, InLoop, EngineSteps, Correlated, FindingsStored, BeforeFindings
  <2>3. FindingsPartition'
    BY <1>0, <1>18 DEF ValidateRaises, TypeOK, FindingsPartition, BeforeRunning, InLoop, EngineSteps, Correlated, FindingsStored, BeforeFindings
  <2>4. FindingsStoredPartition'
    BY <1>0, <1>18 DEF ValidateRaises, TypeOK, FindingsStoredPartition, OneRunPerScan, FindingsOf, RowsOf, BeforeRunning, InLoop, EngineSteps, Correlated, FindingsStored, BeforeFindings
  <2> QED
    BY <2>1, <2>2, <2>3, <2>4
<1>19. ASSUME NEW r \in Runs, CorrelateAndCarry(r) PROVE StoreInvariant'
  <2>1. RowIsMemory'
    BY <1>0, <1>19 DEF CorrelateAndCarry, Goto, TypeOK, RowIsMemory, OneRunPerScan
  <2>2. EvidenceStored'
    BY <1>0, <1>19 DEF CorrelateAndCarry, Goto, TypeOK, EvidenceStored, Stored, BeforeRunning, InLoop, EngineSteps, Correlated, FindingsStored, BeforeFindings
  <2>3. FindingsPartition'
    <3> DEFINE P == PreviousFindings(ScanOf[r])
               C == Correlate(ScanOf[r], obs[r])
               new == {CarryForward(P, f, now + 1) : f \in C}
    <3>1. /\ findings' = [findings EXCEPT ![r] = new]
          /\ pc' = [pc EXCEPT ![r] = "correlated"] /\ UNCHANGED obs
      BY <1>19 DEF CorrelateAndCarry, Goto
    <3>2. /\ \A f \in C : f.scan = ScanOf[r] /\ f.obs # {} /\ f.obs = {i \in Ids(obs[r]) : i[3] = f.fp}
          /\ \A i \in Ids(obs[r]) : \E f \in C : f.fp = i[3]
          /\ \A f, g \in C : f.fp = g.fp => f = g
      <4>1. obs[r] \in SUBSET Observations
        BY <1>0 DEF TypeOK
      <4> QED
        BY <4>1, CorrelatePartitions
    <3>3. \A f \in C : f \in Findings
      <4>1. /\ obs[r] \in SUBSET Observations /\ now \in Nat /\ ScanOf[r] \in Scans
            /\ \A o \in obs[r] : o.at <= now
        BY <1>0 DEF TypeOK, RunInvariant, BasicInvariant, TimesPast
      <4> QED
        BY <4>1, CorrelateType
    <3> HIDE DEF P, C
    <3>4. \A f \in C : LET c == CarryForward(P, f, now + 1)
                       IN  c.scan = f.scan /\ c.fp = f.fp /\ c.obs = f.obs
      BY <3>3, CarryForwardKeeps
    <3>5. /\ \A f \in new : f.scan = ScanOf[r] /\ f.obs # {} /\ f.obs = {i \in Ids(obs[r]) : i[3] = f.fp}
          /\ \A i \in Ids(obs[r]) : \E f \in new : f.fp = i[3]
          /\ \A f, g \in new : f.fp = g.fp => f = g
      BY <3>2, <3>4
    <3> HIDE DEF new
    <3>6. findings'[r] = new /\ \A q \in Runs \ {r} : pc'[q] = pc[q] /\ findings'[q] = findings[q]
      BY <1>0, <3>1 DEF TypeOK
    <3> QED
      BY <3>1, <3>5, <3>6 DEF FindingsPartition
  <2>4. FindingsStoredPartition'
    BY <1>0, <1>19 DEF CorrelateAndCarry, Goto, TypeOK, FindingsStoredPartition, OneRunPerScan, FindingsOf, RowsOf, BeforeRunning, InLoop, EngineSteps, Correlated, FindingsStored, BeforeFindings
  <2> QED
    BY <2>1, <2>2, <2>3, <2>4
<1>20. ASSUME NEW r \in Runs, EnterValidating(r) PROVE StoreInvariant'
  <2>1. RowIsMemory'
    BY <1>0, <1>20 DEF EnterValidating, Goto, SetState, TypeOK, RowIsMemory, OneRunPerScan
  <2>2. EvidenceStored'
    BY <1>0, <1>20 DEF EnterValidating, Goto, SetState, TypeOK, EvidenceStored, Stored, BeforeRunning, InLoop, EngineSteps, Correlated, FindingsStored, BeforeFindings
  <2>3. FindingsPartition'
    <3> DEFINE scored(f) == [f EXCEPT !.risk = f.conf]
               new == {scored(f) : f \in findings[r]}
    <3>1. /\ findings' = [findings EXCEPT ![r] = new] /\ pc[r] = "correlated"
          /\ pc' = [pc EXCEPT ![r] = "validating"] /\ UNCHANGED obs
      BY <1>20 DEF EnterValidating, Goto
    <3>2. \A f \in Findings : scored(f).scan = f.scan /\ scored(f).fp = f.fp /\ scored(f).obs = f.obs
      BY DEF Findings
    <3>3. findings[r] \subseteq Findings
      BY <1>0 DEF TypeOK
    <3>4. /\ \A f \in findings[r] : f.scan = ScanOf[r] /\ f.obs # {}
                                    /\ f.obs = {i \in Ids(obs[r]) : i[3] = f.fp}
          /\ \A i \in Ids(obs[r]) : \E f \in findings[r] : f.fp = i[3]
          /\ \A f, g \in findings[r] : f.fp = g.fp => f = g
      BY <3>1 DEF FindingsPartition, Correlated
    <3> HIDE DEF scored
    <3>5. /\ \A f \in new : f.scan = ScanOf[r] /\ f.obs # {} /\ f.obs = {i \in Ids(obs[r]) : i[3] = f.fp}
          /\ \A i \in Ids(obs[r]) : \E f \in new : f.fp = i[3]
          /\ \A f, g \in new : f.fp = g.fp => f = g
      BY <3>2, <3>3, <3>4
    <3> HIDE DEF new
    <3>6. /\ findings'[r] = new /\ obs' = obs
          /\ \A q \in Runs \ {r} : pc'[q] = pc[q] /\ findings'[q] = findings[q]
      BY <1>0, <3>1 DEF TypeOK
    <3>7. \A q \in Runs \ {r} : pc'[q] \in Correlated =>
            /\ \A f \in findings'[q] : f.scan = ScanOf[q] /\ f.obs # {}
                                      /\ f.obs = {i \in Ids(obs'[q]) : i[3] = f.fp}
            /\ \A i \in Ids(obs'[q]) : \E f \in findings'[q] : f.fp = i[3]
            /\ \A f, g \in findings'[q] : f.fp = g.fp => f = g
      BY <3>6 DEF FindingsPartition
    <3> QED
      BY <3>5, <3>6, <3>7 DEF FindingsPartition
  <2>4. FindingsStoredPartition'
    BY <1>0, <1>20 DEF EnterValidating, Goto, SetState, TypeOK, FindingsStoredPartition, OneRunPerScan, FindingsOf, RowsOf, BeforeRunning, InLoop, EngineSteps, Correlated, FindingsStored, BeforeFindings
  <2> QED
    BY <2>1, <2>2, <2>3, <2>4
<1>21. ASSUME NEW r \in Runs, EnterReporting(r) PROVE StoreInvariant'
  <2>1. RowIsMemory'
    BY <1>0, <1>21 DEF EnterReporting, Goto, SetState, TypeOK, RowIsMemory, OneRunPerScan
  <2>2. EvidenceStored'
    BY <1>0, <1>21 DEF EnterReporting, Goto, SetState, TypeOK, EvidenceStored, Stored, BeforeRunning, InLoop, EngineSteps, Correlated, FindingsStored, BeforeFindings
  <2>3. FindingsPartition'
    BY <1>0, <1>21 DEF EnterReporting, Goto, SetState, TypeOK, FindingsPartition, BeforeRunning, InLoop, EngineSteps, Correlated, FindingsStored, BeforeFindings
  <2>4. FindingsStoredPartition'
    BY <1>0, <1>21 DEF EnterReporting, Goto, SetState, TypeOK, FindingsStoredPartition, OneRunPerScan, FindingsOf, RowsOf, BeforeRunning, InLoop, EngineSteps, Correlated, FindingsStored, BeforeFindings
  <2> QED
    BY <2>1, <2>2, <2>3, <2>4
<1>22. ASSUME NEW r \in Runs, PersistFindings(r) PROVE StoreInvariant'
  <2>1. RowIsMemory'
    BY <1>0, <1>22 DEF PersistFindings, Goto, TypeOK, RowIsMemory, OneRunPerScan
  <2>2. EvidenceStored'
    BY <1>0, <1>22 DEF PersistFindings, Goto, TypeOK, EvidenceStored, Stored, BeforeRunning, InLoop, EngineSteps, Correlated, FindingsStored, BeforeFindings
  <2>3. FindingsPartition'
    BY <1>0, <1>22 DEF PersistFindings, Goto, TypeOK, FindingsPartition, BeforeRunning, InLoop, EngineSteps, Correlated, FindingsStored, BeforeFindings
  <2>4. FindingsStoredPartition'
    <3> DEFINE s == ScanOf[r]
    <3>1. /\ pc[r] = "reporting" /\ pc' = [pc EXCEPT ![r] = "assess"]
          /\ findingRows' = {g \in findingRows :
               \A f \in findings[r] : f.scan # g.scan \/ f.fp # g.fp} \cup findings[r]
          /\ UNCHANGED <<obsRows, obs>>
      BY <1>22 DEF PersistFindings, Goto
    <3>2. FindingsOf(s) = {}
      BY <3>1 DEF FindingsStoredPartition, BeforeFindings, Correlated
    <3>3. /\ \A f \in findings[r] : f.scan = s /\ f.obs # {} /\ f.obs = {i \in Ids(obs[r]) : i[3] = f.fp}
          /\ \A i \in Ids(obs[r]) : \E f \in findings[r] : f.fp = i[3]
          /\ \A f, g \in findings[r] : f.fp = g.fp => f = g
      BY <3>1 DEF FindingsPartition, Correlated
    <3>4. findingRows' = findingRows \cup findings[r] /\ \A g \in findingRows : g.scan # s
      BY <3>1, <3>2, <3>3 DEF FindingsOf
    <3>5. Ids(RowsOf(s)) = Ids(obs[r]) /\ \A q \in Runs : RowsOf(ScanOf[q])' = RowsOf(ScanOf[q])
      <4>1. Ids(Stored(r)) = Ids(obs[r])
        BY <3>1 DEF EvidenceStored, BeforeRunning, InLoop, EngineSteps
      <4>2. RowsOf(s) = Stored(r)
        BY <1>0, RowsOfOneRun
      <4> QED
        BY <3>1, <4>1, <4>2 DEF RowsOf
    <3>6. \A f \in findingRows' :
            /\ f.obs # {}
            /\ \A i \in f.obs : i[3] = f.fp
            /\ \E q \in Runs : ScanOf[q] = f.scan /\ f.obs \subseteq Ids(RowsOf(f.scan)')
      <4>1. \A f \in findings[r] : ScanOf[r] = f.scan /\ f.obs \subseteq Ids(RowsOf(f.scan)')
        BY <3>3, <3>5
      <4>2. \A f \in findingRows : \E q \in Runs : ScanOf[q] = f.scan /\ f.obs \subseteq Ids(RowsOf(f.scan)')
        BY <3>5 DEF FindingsStoredPartition
      <4>3. \A f \in findingRows : f.obs # {} /\ \A i \in f.obs : i[3] = f.fp
        BY DEF FindingsStoredPartition
      <4> QED
        BY <3>3, <3>4, <4>1, <4>2, <4>3
    <3>7. \A f, g \in findingRows' : f.scan = g.scan /\ f.fp = g.fp => f = g
      BY <3>3, <3>4 DEF FindingsStoredPartition
    <3>8. ASSUME NEW q \in Runs
          PROVE  /\ pc'[q] \in BeforeFindings => FindingsOf(ScanOf[q])' = {}
                 /\ pc'[q] \in FindingsStored =>
                      UNION {f.obs : f \in FindingsOf(ScanOf[q])'} = Ids(RowsOf(ScanOf[q])')
      <4>1. CASE q = r
        <5>1. FindingsOf(s)' = findings[r]
          BY <3>3, <3>4 DEF FindingsOf
        <5>2. UNION {f.obs : f \in findings[r]} = Ids(obs[r])
          BY <3>3
        <5>3. pc'[r] \notin BeforeFindings
          BY <1>0, <3>1 DEF TypeOK, BeforeFindings, BeforeRunning, InLoop, EngineSteps, Correlated
        <5>4. UNION {f.obs : f \in FindingsOf(s)'} = Ids(RowsOf(s)')
          BY <3>5, <5>1, <5>2
        <5> QED
          BY <4>1, <5>3, <5>4
      <4>2. CASE q # r
        <5>1. pc'[q] = pc[q] /\ ScanOf[q] # s
          BY <1>0, <3>1, <4>2 DEF TypeOK, OneRunPerScan
        <5>2. FindingsOf(ScanOf[q])' = FindingsOf(ScanOf[q])
          BY <3>3, <3>4, <5>1 DEF FindingsOf
        <5> QED
          BY <3>5, <5>1, <5>2 DEF FindingsStoredPartition
      <4> QED
        BY <4>1, <4>2
    <3> QED
      BY <3>6, <3>7, <3>8 DEF FindingsStoredPartition
  <2> QED
    BY <2>1, <2>2, <2>3, <2>4
<1>23. ASSUME NEW r \in Runs, Assess(r) PROVE StoreInvariant'
  <2>1. RowIsMemory'
    BY <1>0, <1>23 DEF Assess, Goto, TypeOK, RowIsMemory, OneRunPerScan
  <2>2. EvidenceStored'
    BY <1>0, <1>23 DEF Assess, Goto, TypeOK, EvidenceStored, Stored, BeforeRunning, InLoop, EngineSteps, Correlated, FindingsStored, BeforeFindings
  <2>3. FindingsPartition'
    BY <1>0, <1>23 DEF Assess, Goto, TypeOK, FindingsPartition, BeforeRunning, InLoop, EngineSteps, Correlated, FindingsStored, BeforeFindings
  <2>4. FindingsStoredPartition'
    BY <1>0, <1>23 DEF Assess, Goto, TypeOK, FindingsStoredPartition, OneRunPerScan, FindingsOf, RowsOf, BeforeRunning, InLoop, EngineSteps, Correlated, FindingsStored, BeforeFindings
  <2> QED
    BY <2>1, <2>2, <2>3, <2>4
<1>24. ASSUME NEW r \in Runs, AssessRaises(r) PROVE StoreInvariant'
  <2>1. RowIsMemory'
    BY <1>0, <1>24 DEF AssessRaises, Goto, TypeOK, RowIsMemory, OneRunPerScan
  <2>2. EvidenceStored'
    BY <1>0, <1>24 DEF AssessRaises, Goto, TypeOK, EvidenceStored, Stored, BeforeRunning, InLoop, EngineSteps, Correlated, FindingsStored, BeforeFindings
  <2>3. FindingsPartition'
    BY <1>0, <1>24 DEF AssessRaises, Goto, TypeOK, FindingsPartition, BeforeRunning, InLoop, EngineSteps, Correlated, FindingsStored, BeforeFindings
  <2>4. FindingsStoredPartition'
    BY <1>0, <1>24 DEF AssessRaises, Goto, TypeOK, FindingsStoredPartition, OneRunPerScan, FindingsOf, RowsOf, BeforeRunning, InLoop, EngineSteps, Correlated, FindingsStored, BeforeFindings
  <2> QED
    BY <2>1, <2>2, <2>3, <2>4
<1>25. ASSUME NEW r \in Runs, Complete(r) PROVE StoreInvariant'
  <2>1. RowIsMemory'
    BY <1>0, <1>25 DEF Complete, Goto, SetState, TypeOK, RowIsMemory, OneRunPerScan
  <2>2. EvidenceStored'
    BY <1>0, <1>25 DEF Complete, Goto, SetState, TypeOK, EvidenceStored, Stored, BeforeRunning, InLoop, EngineSteps, Correlated, FindingsStored, BeforeFindings
  <2>3. FindingsPartition'
    BY <1>0, <1>25 DEF Complete, Goto, SetState, TypeOK, FindingsPartition, BeforeRunning, InLoop, EngineSteps, Correlated, FindingsStored, BeforeFindings
  <2>4. FindingsStoredPartition'
    BY <1>0, <1>25 DEF Complete, Goto, SetState, TypeOK, FindingsStoredPartition, OneRunPerScan, FindingsOf, RowsOf, BeforeRunning, InLoop, EngineSteps, Correlated, FindingsStored, BeforeFindings
  <2> QED
    BY <2>1, <2>2, <2>3, <2>4
<1>26. ASSUME NEW r \in Runs, LoseRun(r) PROVE StoreInvariant'
  <2>1. RowIsMemory'
    BY <1>0, <1>26 DEF LoseRun, TypeOK, RowIsMemory, OneRunPerScan, Over
  <2>2. EvidenceStored'
    BY <1>0, <1>26 DEF LoseRun, TypeOK, EvidenceStored, Stored, BeforeRunning, InLoop, EngineSteps, Correlated, FindingsStored, BeforeFindings, Over
  <2>3. FindingsPartition'
    BY <1>0, <1>26 DEF LoseRun, TypeOK, FindingsPartition, BeforeRunning, InLoop, EngineSteps, Correlated, FindingsStored, BeforeFindings, Over
  <2>4. FindingsStoredPartition'
    BY <1>0, <1>26 DEF LoseRun, TypeOK, FindingsStoredPartition, OneRunPerScan, FindingsOf, RowsOf, BeforeRunning, InLoop, EngineSteps, Correlated, FindingsStored, BeforeFindings, Over
  <2> QED
    BY <2>1, <2>2, <2>3, <2>4
<1>27. ASSUME NEW t \in Targets, AuthorizationExpires(t) PROVE StoreInvariant'
  BY <1>27 DEF AuthorizationExpires, RowIsMemory, EvidenceStored, Stored, FindingsPartition, FindingsStoredPartition,
         FindingsOf, RowsOf
<1>28. CASE UNCHANGED vars
  BY <1>28 DEF vars, RowIsMemory, EvidenceStored, Stored, FindingsPartition, FindingsStoredPartition,
         FindingsOf, RowsOf
<1> QED
  BY <1>1, <1>2, <1>3, <1>4, <1>5, <1>6, <1>7, <1>8, <1>9, <1>10,
     <1>11, <1>12, <1>13, <1>14, <1>15, <1>16, <1>17, <1>18, <1>19, <1>20,
     <1>21, <1>22, <1>23, <1>24, <1>25, <1>26, <1>27, <1>28 DEF Next, Step, EngineStep, AllOver

(* StoreInvariant holds initially.                                         *)
LEMMA StoreInit == Init => StoreInvariant
<1> SUFFICES ASSUME Init PROVE StoreInvariant
  OBVIOUS
<1>1. RowIsMemory /\ FindingsStoredPartition
  BY ConstantsAssumption
     DEF ConstantsAssumption, Init, RowIsMemory, FindingsStoredPartition, FindingsOf,
         FindingsStored
<1>2. EvidenceStored /\ FindingsPartition
  BY DEF Init, EvidenceStored, FindingsPartition, Stored, BeforeRunning, Correlated
<1> QED
  BY <1>1, <1>2 DEF StoreInvariant

(* The inductive invariant of runs that each have a scan of their own.     *)
LEMMA InvariantHolds ==
  ASSUME OneRunPerScan
  PROVE  Spec => [](RunInvariant /\ StoreInvariant)
<1>1. Init => RunInvariant /\ StoreInvariant
  BY RunInit, StoreInit
<1>2. RunInvariant /\ StoreInvariant /\ [Next]_vars => RunInvariant' /\ StoreInvariant'
  BY RunStep, StoreStep
<1> QED
  BY <1>1, <1>2, PTL DEF Spec

-----------------------------------------------------------------------------
(* What follows when every scan is run once *)

(* A stored finding cites stored observations of its own scan and its own  *)
(* fingerprint, and shares none with another finding.                      *)
THEOREM FindingsStandOnStoredEvidenceHolds ==
  ASSUME OneRunPerScan
  PROVE  Spec => []FindingsStandOnStoredEvidence
<1>1. RunInvariant /\ StoreInvariant => FindingsStandOnStoredEvidence
  <2> SUFFICES ASSUME RunInvariant, StoreInvariant
               PROVE  FindingsStandOnStoredEvidence
    OBVIOUS
  <2>1. FindingsStoredPartition
    BY DEF StoreInvariant
  <2>2. ASSUME NEW f \in findingRows, NEW i \in f.obs
        PROVE  (\E o \in RowsOf(f.scan) : ObsId(o) = i /\ o.fp = f.fp)
               /\ ScanOf[i[1]] = f.scan
    <3>1. i \in Ids(RowsOf(f.scan)) /\ i[3] = f.fp
      BY <2>1 DEF FindingsStoredPartition
    <3>2. PICK o \in RowsOf(f.scan) : ObsId(o) = i
      BY <3>1 DEF Ids
    <3>3. i[1] = o.run /\ i[3] = o.fp /\ ScanOf[o.run] = f.scan
      BY <3>2 DEF ObsId, RowsOf
    <3> QED
      BY <3>1, <3>2, <3>3
  <2>3. \A f \in findingRows : f.obs # {}
    BY <2>1 DEF FindingsStoredPartition
  <2>4. ASSUME NEW f \in findingRows, NEW g \in findingRows, f.obs \cap g.obs # {}
        PROVE  f = g
    <3>1. PICK i \in f.obs : i \in g.obs
      BY <2>4
    <3>2. f.scan = g.scan
      BY <2>2, <3>1
    <3>3. f.fp = g.fp
      BY <2>1, <3>1 DEF FindingsStoredPartition
    <3> QED
      BY <2>1, <3>2, <3>3 DEF FindingsStoredPartition
  <2> QED
    BY <2>2, <2>3, <2>4 DEF FindingsStandOnStoredEvidence
<1> QED
  BY InvariantHolds, <1>1, PTL

(* Without a valid authorization when run begins no engine is reached and  *)
(* nothing but a failed scan row is left.                                  *)
THEOREM UnauthorizedIsInertHolds ==
  ASSUME OneRunPerScan
  PROVE  Spec => []UnauthorizedIsInert
<1>1. RunInvariant /\ StoreInvariant => UnauthorizedIsInert
  BY DEF RunInvariant, GrantedRuns, StoreInvariant, RowIsMemory, UnauthorizedIsInert,
         BeforeRunning, EngineSteps
<1> QED
  BY InvariantHolds, <1>1, PTL

-----------------------------------------------------------------------------
(* Refinement *)

(* A committed transition is a move of the abstract scan.                  *)
LEMMA SetStateMoves ==
  ASSUME RunInvariant, StoreInvariant, OneRunPerScan,
         NEW r \in Runs, NEW dst \in ScanState, SetState(r, dst),
         dst = "completed" => pc[r] = "complete"
  PROVE  Life!Move(ScanOf[r], dst)
<1> DEFINE s == ScanOf[r]
           st(row) == [q \in Scans |-> IF row[q] = "absent" THEN "created" ELSE row[q]]
<1>1. s \in Scans /\ TypeOK
  BY ConstantsAssumption DEF ConstantsAssumption, RunInvariant, BasicInvariant
<1>2. st(rowState)[s] = memState[r]
  BY <1>1 DEF StoreInvariant, RowIsMemory, TypeOK, ScanState
<1>3. CanTransition(memState[r], dst)
  BY DEF SetState
<1>4. Life!CanTransition(st(rowState)[s], dst)
  BY <1>2, <1>3 DEF CanTransition, Transitions, Life!CanTransition, Life!Transitions
<1>5. st(rowState') = [st(rowState) EXCEPT ![s] = dst]
  BY <1>1 DEF SetState, TypeOK, ScanState
<1>6. ASSUME dst = "completed"
      PROVE  UNION {f.obs : f \in FindingsOf(s)} = Ids(RowsOf(s))
  BY <1>6 DEF StoreInvariant, FindingsStoredPartition, FindingsStored
<1>7. UNCHANGED <<obsRows, findingRows>>
  BY DEF SetState
<1> QED
  BY <1>1, <1>4, <1>5, <1>6, <1>7 DEF Life!Move, Ids, RowsOf, FindingsOf

(* Storing the observations of a run records the evidence of its scan.     *)
LEMMA PersistObservationsRecords ==
  ASSUME RunInvariant, StoreInvariant, OneRunPerScan,
         NEW r \in Runs, PersistObservations(r)
  PROVE  Life!Record(ScanOf[r])
<1> DEFINE s == ScanOf[r]
           ev(rows) == [q \in Scans |-> {ObsId(o) : o \in {p \in rows : ScanOf[p.run] = q}}]
<1>1. s \in Scans /\ TypeOK
  BY ConstantsAssumption DEF ConstantsAssumption, RunInvariant, BasicInvariant
<1>2. /\ pc[r] = "task" /\ obsRows' = obsRows \cup obs[r]
      /\ UNCHANGED <<rowState, findingRows>>
  BY DEF PersistObservations, Goto, scanVars
<1>3. rowState[s] = "running"
  <2>1. memState[r] = "running"
    BY <1>2 DEF RunInvariant, MemoryAtStep, StatesAt, InLoop, EngineSteps, FindingsStored
  <2> QED
    BY <2>1 DEF StoreInvariant, RowIsMemory
<1>4. Stored(r) = {} /\ RowsOf(s) = Stored(r)
  BY <1>1, <1>2, RowsOfOneRun DEF StoreInvariant, EvidenceStored, InLoop
<1>5. ev(obsRows)[s] = {}
  BY <1>1, <1>4 DEF RowsOf
<1>6. \A o \in obs[r] : o.run = r /\ o \in Observations
  BY <1>1 DEF RunInvariant, OwnObservations, TypeOK
<1>7. \A q \in Scans \ {s} :
        {p \in obsRows' : ScanOf[p.run] = q} = {p \in obsRows : ScanOf[p.run] = q}
  BY <1>2, <1>6
<1>8. ev(obsRows') = [ev(obsRows) EXCEPT ![s] = ev(obsRows')[s]]
  BY <1>1, <1>7
<1>9. ev(obsRows')[s] \subseteq ObsIds
  <2>1. \A o \in obsRows' : ObsId(o) \in ObsIds
    BY <1>1, <1>2, <1>6 DEF TypeOK, ObsId, ObsIds, Observations
  <2> QED
    BY <1>1, <2>1
<1> QED
  BY <1>1, <1>2, <1>3, <1>5, <1>8, <1>9 DEF Life!Record, RowsOf, FindingsOf

(* Storing the findings of a run publishes all evidence of its scan.       *)
LEMMA PersistFindingsPublishes ==
  ASSUME RunInvariant, StoreInvariant, OneRunPerScan, StoreInvariant',
         NEW r \in Runs, PersistFindings(r)
  PROVE  Life!Publish(ScanOf[r])
<1> DEFINE s == ScanOf[r]
           of(q) == {f.obs : f \in FindingsOf(q)}
<1>1. s \in Scans /\ TypeOK
  BY ConstantsAssumption DEF ConstantsAssumption, RunInvariant, BasicInvariant
<1>2. /\ pc[r] = "reporting" /\ pc' = [pc EXCEPT ![r] = "assess"]
      /\ findingRows' = {g \in findingRows :
           \A f \in findings[r] : f.scan # g.scan \/ f.fp # g.fp} \cup findings[r]
      /\ UNCHANGED <<rowState, obsRows>>
  BY DEF PersistFindings, Goto, scanVars
<1>3. rowState[s] = "reporting"
  <2>1. memState[r] = "reporting"
    BY <1>2 DEF RunInvariant, MemoryAtStep, StatesAt, InLoop, EngineSteps, FindingsStored
  <2> QED
    BY <2>1 DEF StoreInvariant, RowIsMemory
<1>4. FindingsOf(s) = {}
  BY <1>2 DEF StoreInvariant, FindingsStoredPartition, BeforeFindings, Correlated
<1>5. UNION {f.obs : f \in FindingsOf(s)'} = Ids(RowsOf(s))
  <2>1. pc'[r] = "assess" /\ RowsOf(s)' = RowsOf(s)
    BY <1>1, <1>2 DEF TypeOK, RowsOf
  <2> QED
    BY <2>1 DEF StoreInvariant, FindingsStoredPartition, FindingsStored
<1>6. \A f \in findings[r] : f.scan = s
  BY <1>2 DEF StoreInvariant, FindingsPartition, Correlated
<1>7. \A q \in Scans \ {s} : FindingsOf(q)' = FindingsOf(q)
  BY <1>2, <1>6 DEF FindingsOf
<1>8. UNION {f.obs : f \in FindingsOf(s)} = {}
  BY <1>4
<1>9. [q \in Scans |-> UNION {f.obs : f \in FindingsOf(q)'}]
        = [[q \in Scans |-> UNION {f.obs : f \in FindingsOf(q)}]
             EXCEPT ![s] = Ids(RowsOf(s))]
  BY <1>1, <1>5, <1>7
<1>10. [q \in Scans |-> {ObsId(o) : o \in RowsOf(q)}][s] = Ids(RowsOf(s))
  BY <1>1 DEF Ids
<1> QED
  BY <1>1, <1>2, <1>3, <1>8, <1>9, <1>10 DEF Life!Publish, RowsOf, FindingsOf

(* Every other step is invisible in the rows the abstract scan is made of. *)
LEMMA RowsUnchangedStutter ==
  ASSUME UNCHANGED <<rowState, obsRows, findingRows>>
  PROVE  UNCHANGED Life!lifeVars
BY DEF Life!lifeVars, RowsOf, FindingsOf

(* Each step of the orchestrator is a step of the abstract life, or none.  *)
LEMMA LifecycleStep ==
  ASSUME OneRunPerScan, RunInvariant, StoreInvariant, [Next]_vars
  PROVE  [Life!LifeNext]_Life!lifeVars
<1>0. StoreInvariant'
  BY StoreStep
<1>s. \A r \in Runs : ScanOf[r] \in Scans
  BY ConstantsAssumption DEF ConstantsAssumption
<1>m. ASSUME NEW r \in Runs, NEW dst \in ScanState, SetState(r, dst),
             dst = "completed" => pc[r] = "complete"
      PROVE  Life!LifeNext
  <2>1. Life!Move(ScanOf[r], dst)
    BY <1>m, SetStateMoves
  <2>2. dst \in Life!ScanState
    BY DEF ScanState, Life!ScanState
  <2> QED
    BY <1>s, <2>1, <2>2 DEF Life!LifeNext
<1>1. ASSUME NEW r \in Runs, EnterQueued(r) PROVE Life!LifeNext
  <2>1. SetState(r, "queued") /\ "queued" \in ScanState
    BY <1>1 DEF EnterQueued, ScanState
  <2>2. "queued" = "completed" => pc[r] = "complete"
    BY <1>1 DEF EnterQueued, Goto
  <2> QED
    BY <1>m, <2>1, <2>2
<1>2. ASSUME NEW r \in Runs, EnterPlanning(r) PROVE Life!LifeNext
  <2>1. SetState(r, "planning") /\ "planning" \in ScanState
    BY <1>2 DEF EnterPlanning, ScanState
  <2>2. "planning" = "completed" => pc[r] = "complete"
    BY <1>2 DEF EnterPlanning, Goto
  <2> QED
    BY <1>m, <2>1, <2>2
<1>3. ASSUME NEW r \in Runs, RefuseUnauthorized(r) PROVE Life!LifeNext
  <2>1. SetState(r, "failed") /\ "failed" \in ScanState
    BY <1>3 DEF RefuseUnauthorized, ScanState
  <2>2. "failed" = "completed" => pc[r] = "complete"
    BY <1>3 DEF RefuseUnauthorized, Goto
  <2> QED
    BY <1>m, <2>1, <2>2
<1>4. ASSUME NEW r \in Runs, EnterRunning(r) PROVE Life!LifeNext
  <2>1. SetState(r, "running") /\ "running" \in ScanState
    BY <1>4 DEF EnterRunning, ScanState
  <2>2. "running" = "completed" => pc[r] = "complete"
    BY <1>4 DEF EnterRunning, Goto
  <2> QED
    BY <1>m, <2>1, <2>2
<1>5. ASSUME NEW r \in Runs, EnterCorrelating(r) PROVE Life!LifeNext
  <2>1. SetState(r, "correlating") /\ "correlating" \in ScanState
    BY <1>5 DEF EnterCorrelating, ScanState
  <2>2. "correlating" = "completed" => pc[r] = "complete"
    BY <1>5 DEF EnterCorrelating, Goto
  <2> QED
    BY <1>m, <2>1, <2>2
<1>6. ASSUME NEW r \in Runs, EnterValidating(r) PROVE Life!LifeNext
  <2>1. SetState(r, "validating") /\ "validating" \in ScanState
    BY <1>6 DEF EnterValidating, ScanState
  <2>2. "validating" = "completed" => pc[r] = "complete"
    BY <1>6 DEF EnterValidating, Goto
  <2> QED
    BY <1>m, <2>1, <2>2
<1>7. ASSUME NEW r \in Runs, EnterReporting(r) PROVE Life!LifeNext
  <2>1. SetState(r, "reporting") /\ "reporting" \in ScanState
    BY <1>7 DEF EnterReporting, ScanState
  <2>2. "reporting" = "completed" => pc[r] = "complete"
    BY <1>7 DEF EnterReporting, Goto
  <2> QED
    BY <1>m, <2>1, <2>2
<1>8. ASSUME NEW r \in Runs, Complete(r) PROVE Life!LifeNext
  <2>1. SetState(r, "completed") /\ "completed" \in ScanState
    BY <1>8 DEF Complete, ScanState
  <2>2. "completed" = "completed" => pc[r] = "complete"
    BY <1>8 DEF Complete, Goto
  <2> QED
    BY <1>m, <2>1, <2>2
<1>9. ASSUME NEW r \in Runs, PersistObservations(r) PROVE Life!LifeNext
  BY <1>s, <1>9, PersistObservationsRecords DEF Life!LifeNext
<1>10. ASSUME NEW r \in Runs, PersistFindings(r) PROVE Life!LifeNext
  BY <1>0, <1>s, <1>10, PersistFindingsPublishes DEF Life!LifeNext
<1>11. ASSUME NEW r \in Runs, Submit(r) PROVE UNCHANGED Life!lifeVars
  BY <1>11, RowsUnchangedStutter DEF Submit, dbVars
<1>12. ASSUME NEW r \in Runs, SkipUnbound(r) PROVE UNCHANGED Life!lifeVars
  BY <1>12, RowsUnchangedStutter DEF SkipUnbound, dbVars
<1>13. ASSUME NEW r \in Runs, StartEngine(r) PROVE UNCHANGED Life!lifeVars
  BY <1>13, RowsUnchangedStutter DEF StartEngine, dbVars
<1>14. ASSUME NEW r \in Runs, EngineHealthy(r) PROVE UNCHANGED Life!lifeVars
  BY <1>14, RowsUnchangedStutter DEF EngineHealthy, Advance, dbVars
<1>15. ASSUME NEW r \in Runs, EngineUnavailable(r) PROVE UNCHANGED Life!lifeVars
  BY <1>15, RowsUnchangedStutter DEF EngineUnavailable, EngineReturns, dbVars
<1>16. ASSUME NEW r \in Runs, EnginePrepare(r) PROVE UNCHANGED Life!lifeVars
  BY <1>16, RowsUnchangedStutter DEF EnginePrepare, Advance, dbVars
<1>17. ASSUME NEW r \in Runs, EngineExecute(r) PROVE UNCHANGED Life!lifeVars
  BY <1>17, RowsUnchangedStutter DEF EngineExecute, Advance, dbVars
<1>18. ASSUME NEW r \in Runs, EngineCollect(r) PROVE UNCHANGED Life!lifeVars
  BY <1>18, RowsUnchangedStutter DEF EngineCollect, Advance, dbVars
<1>19. ASSUME NEW r \in Runs, EngineCleanup(r) PROVE UNCHANGED Life!lifeVars
  BY <1>19, RowsUnchangedStutter DEF EngineCleanup, EngineReturns, dbVars
<1>20. ASSUME NEW r \in Runs, EngineRaises(r) PROVE UNCHANGED Life!lifeVars
  BY <1>20, RowsUnchangedStutter DEF EngineRaises, EngineReturns, dbVars
<1>21. ASSUME NEW r \in Runs, ValidateOne(r) PROVE UNCHANGED Life!lifeVars
  BY <1>21, RowsUnchangedStutter DEF ValidateOne, dbVars
<1>22. ASSUME NEW r \in Runs, ValidateRaises(r) PROVE UNCHANGED Life!lifeVars
  BY <1>22, RowsUnchangedStutter DEF ValidateRaises, dbVars
<1>23. ASSUME NEW r \in Runs, CorrelateAndCarry(r) PROVE UNCHANGED Life!lifeVars
  BY <1>23, RowsUnchangedStutter DEF CorrelateAndCarry, dbVars
<1>24. ASSUME NEW r \in Runs, Assess(r) PROVE UNCHANGED Life!lifeVars
  BY <1>24, RowsUnchangedStutter DEF Assess, dbVars
<1>25. ASSUME NEW r \in Runs, AssessRaises(r) PROVE UNCHANGED Life!lifeVars
  BY <1>25, RowsUnchangedStutter DEF AssessRaises, dbVars
<1>26. ASSUME NEW r \in Runs, LoseRun(r) PROVE UNCHANGED Life!lifeVars
  BY <1>26, RowsUnchangedStutter DEF LoseRun, dbVars
<1>27. ASSUME NEW t \in Targets, AuthorizationExpires(t) PROVE UNCHANGED Life!lifeVars
  BY <1>27, RowsUnchangedStutter DEF AuthorizationExpires, dbVars
<1>28. CASE UNCHANGED vars
  BY <1>28, RowsUnchangedStutter DEF vars
<1> QED
  BY <1>1, <1>2, <1>3, <1>4, <1>5, <1>6, <1>7, <1>8, <1>9, <1>10,
     <1>11, <1>12, <1>13, <1>14, <1>15, <1>16, <1>17, <1>18, <1>19, <1>20,
     <1>21, <1>22, <1>23, <1>24, <1>25, <1>26, <1>27, <1>28 DEF Next, Step, EngineStep, AllOver

(* The orchestrator implements the life of a scan: for any engines, plans, *)
(* probes, losses and interleavings, as long as no scan is run twice.      *)
THEOREM LifecycleRefinedHolds ==
  ASSUME OneRunPerScan
  PROVE  Spec => LifecycleRefined
<1>1. Init => Life!LifeInit
  <2> SUFFICES ASSUME Init PROVE Life!LifeInit
    OBVIOUS
  <2>1. [s \in Scans |-> IF rowState[s] = "absent" THEN "created" ELSE rowState[s]]
          = [s \in Scans |-> "created"]
    BY DEF Init
  <2>2. [s \in Scans |-> {ObsId(o) : o \in RowsOf(s)}] = [s \in Scans |-> {}]
    BY DEF Init, RowsOf
  <2>3. [s \in Scans |-> UNION {f.obs : f \in FindingsOf(s)}] = [s \in Scans |-> {}]
    BY DEF Init, FindingsOf
  <2> QED
    BY <2>1, <2>2, <2>3 DEF Life!LifeInit
<1>2. (RunInvariant /\ StoreInvariant) /\ [Next]_vars => [Life!LifeNext]_Life!lifeVars
  BY LifecycleStep
<1> QED
  BY InvariantHolds, <1>1, <1>2, PTL DEF Spec, LifecycleRefined, Life!LifeSpec

-----------------------------------------------------------------------------
(* The audit trail *)

(* A sequence with one more state at its end, seen from "created" on.      *)
LEMMA TrailGrows ==
  ASSUME NEW a \in Seq(ScanState), NEW d \in ScanState
  PROVE  LET life == <<"created">> \o a
             next == <<"created">> \o Append(a, d)
         IN  /\ Len(life) = Len(a) + 1 /\ Len(next) = Len(a) + 2
             /\ \A i \in 1 .. Len(a) + 1 : next[i] = life[i]
             /\ next[Len(a) + 2] = d
             /\ life[Len(a) + 1] = IF a = <<>> THEN "created" ELSE a[Len(a)]
<1> DEFINE life == <<"created">> \o a
           next == <<"created">> \o Append(a, d)
<1>1. Len(a) \in Nat /\ Len(<<"created">>) = 1 /\ <<"created">> \in Seq(ScanState)
  BY DEF ScanState
<1>2. Append(a, d) \in Seq(ScanState) /\ Len(Append(a, d)) = Len(a) + 1
      /\ (\A i \in 1 .. Len(a) : Append(a, d)[i] = a[i])
      /\ Append(a, d)[Len(a) + 1] = d
  OBVIOUS
<1>3. Len(life) = Len(a) + 1 /\ Len(next) = Len(a) + 2
  BY <1>1, <1>2
<1>4. \A i \in 1 .. Len(a) + 1 : life[i] = IF i = 1 THEN "created" ELSE a[i - 1]
  BY <1>1
<1>5. \A i \in 1 .. Len(a) + 2 : next[i] = IF i = 1 THEN "created" ELSE Append(a, d)[i - 1]
  <2> DEFINE b == Append(a, d)
  <2>1. b \in Seq(ScanState) /\ Len(b) = Len(a) + 1
    BY <1>2
  <2> HIDE DEF b
  <2>2. \A i \in 1 .. Len(b) + 1 : (<<"created">> \o b)[i] = IF i = 1 THEN "created" ELSE b[i - 1]
    BY <1>1, <2>1
  <2> QED
    BY <1>1, <2>1, <2>2 DEF b
<1> HIDE DEF life, next
<1>6. \A i \in 1 .. Len(a) + 1 : next[i] = life[i]
  <2> SUFFICES ASSUME NEW i \in 1 .. Len(a) + 1 PROVE next[i] = life[i]
    OBVIOUS
  <2>1. i \in 1 .. Len(a) + 2 /\ (i # 1 => i - 1 \in 1 .. Len(a))
    BY <1>1
  <2> QED
    BY <1>2, <1>4, <1>5, <2>1
<1>7. next[Len(a) + 2] = d
  <2>1. Len(a) + 2 \in 1 .. Len(a) + 2 /\ Len(a) + 2 # 1 /\ (Len(a) + 2) - 1 = Len(a) + 1
    BY <1>1
  <2> QED
    BY <1>2, <1>5, <2>1
<1>8. life[Len(a) + 1] = IF a = <<>> THEN "created" ELSE a[Len(a)]
  <2>1. Len(a) + 1 \in 1 .. Len(a) + 1 /\ (Len(a) + 1) - 1 = Len(a)
    BY <1>1
  <2>2. Len(a) + 1 = 1 <=> a = <<>>
    BY <1>1
  <2> QED
    BY <1>4, <2>1, <2>2
<1> QED
  BY <1>3, <1>6, <1>7, <1>8 DEF life, next

(* A transition continues the trail from the state that it ended in.       *)
LEMMA SetStateExtendsTrail ==
  ASSUME TypeOK, RowIsMemory, TrailInvariant,
         NEW r \in Runs, NEW dst \in ScanState, SetState(r, dst)
  PROVE  TrailInvariant'
<1> DEFINE s == ScanOf[r]
           a == audit[s]
           life == <<"created">> \o a
           next == <<"created">> \o Append(a, dst)
<1>1. s \in Scans /\ a \in Seq(ScanState) /\ Len(a) \in Nat
  <2>1. s \in Scans
    BY ConstantsAssumption DEF ConstantsAssumption
  <2> QED
    BY <2>1 DEF TypeOK
<1>2. /\ CanTransition(memState[r], dst)
      /\ rowState' = [rowState EXCEPT ![s] = dst]
      /\ audit' = [audit EXCEPT ![s] = Append(@, dst)]
  BY DEF SetState
<1>3. rowState'[s] = dst /\ audit'[s] = Append(a, dst)
      /\ \A q \in Scans \ {s} : rowState'[q] = rowState[q] /\ audit'[q] = audit[q]
  BY <1>1, <1>2 DEF TypeOK
<1>4. ASSUME NEW q \in Scans \ {s} PROVE TrailAt(q)'
  BY <1>3 DEF TrailInvariant, TrailAt
<1>5. memState[r] = IF a = <<>> THEN "created" ELSE a[Len(a)]
  <2>1. rowState[s] = IF memState[r] = "created" THEN "absent" ELSE memState[r]
    BY DEF RowIsMemory
  <2>2. IF a = <<>> THEN rowState[s] = "absent" ELSE rowState[s] = a[Len(a)]
    BY <1>1 DEF TrailInvariant, TrailAt
  <2>3. memState[r] # "absent" /\ (a # <<>> => a[Len(a)] # "absent")
    <3>1. memState[r] \in ScanState /\ (a # <<>> => a[Len(a)] \in ScanState)
      BY <1>1 DEF TypeOK
    <3> QED
      BY <3>1 DEF ScanState
  <2> QED
    BY <2>1, <2>2, <2>3
<1>6. /\ Len(life) = Len(a) + 1 /\ Len(next) = Len(a) + 2
      /\ \A i \in 1 .. Len(a) + 1 : next[i] = life[i]
      /\ next[Len(a) + 2] = dst
      /\ life[Len(a) + 1] = IF a = <<>> THEN "created" ELSE a[Len(a)]
  BY <1>1, TrailGrows
<1>7. \A i \in 1 .. Len(life) - 1 : CanTransition(life[i], life[i + 1])
  BY <1>1 DEF TrailInvariant, TrailAt
<1> HIDE DEF life, next
<1>8. ASSUME NEW i \in 1 .. Len(next) - 1
      PROVE  CanTransition(next[i], next[i + 1])
  <2>1. i \in 1 .. Len(a) + 1
    BY <1>1, <1>6, <1>8
  <2>2. CASE i \in 1 .. Len(a)
    <3>1. i + 1 \in 1 .. Len(a) + 1 /\ i \in 1 .. Len(life) - 1
      BY <1>1, <1>6, <2>2
    <3> QED
      BY <1>6, <1>7, <2>1, <3>1
  <2>3. CASE i = Len(a) + 1
    <3>1. next[i] = memState[r] /\ i + 1 = Len(a) + 2
      BY <1>1, <1>5, <1>6, <2>1, <2>3
    <3> QED
      BY <1>2, <1>6, <3>1
  <2> QED
    BY <1>1, <2>1, <2>2, <2>3
<1>9. /\ Append(a, dst) # <<>> /\ Len(Append(a, dst)) = Len(a) + 1
      /\ Append(a, dst)[Len(a) + 1] = dst
  BY <1>1
<1>10. TrailAt(s)'
  <2>1. \A i \in 1 .. Len(<<"created">> \o audit'[s]) - 1 :
          CanTransition((<<"created">> \o audit'[s])[i], (<<"created">> \o audit'[s])[i + 1])
    BY <1>3, <1>8 DEF next
  <2>2. audit'[s] # <<>> /\ rowState'[s] = audit'[s][Len(audit'[s])]
    BY <1>3, <1>9
  <2> QED
    BY <2>1, <2>2 DEF TrailAt
<1> QED
  BY <1>4, <1>10 DEF TrailInvariant

(* The trail is only ever extended, by the transitions of the scan.        *)
LEMMA TrailStep ==
  ASSUME TypeOK, RowIsMemory, TrailInvariant, [Next]_vars
  PROVE  TrailInvariant'
<1> USE DEF dbVars, scanVars
<1>k. UNCHANGED <<rowState, audit>> => TrailInvariant'
  BY DEF TrailInvariant, TrailAt
<1>1. ASSUME NEW r \in Runs, EnterQueued(r) PROVE TrailInvariant'
  <2>1. SetState(r, "queued") /\ "queued" \in ScanState
    BY <1>1 DEF EnterQueued, ScanState
  <2> QED
    BY <2>1, SetStateExtendsTrail
<1>2. ASSUME NEW r \in Runs, EnterPlanning(r) PROVE TrailInvariant'
  <2>1. SetState(r, "planning") /\ "planning" \in ScanState
    BY <1>2 DEF EnterPlanning, ScanState
  <2> QED
    BY <2>1, SetStateExtendsTrail
<1>3. ASSUME NEW r \in Runs, RefuseUnauthorized(r) PROVE TrailInvariant'
  <2>1. SetState(r, "failed") /\ "failed" \in ScanState
    BY <1>3 DEF RefuseUnauthorized, ScanState
  <2> QED
    BY <2>1, SetStateExtendsTrail
<1>4. ASSUME NEW r \in Runs, EnterRunning(r) PROVE TrailInvariant'
  <2>1. SetState(r, "running") /\ "running" \in ScanState
    BY <1>4 DEF EnterRunning, ScanState
  <2> QED
    BY <2>1, SetStateExtendsTrail
<1>5. ASSUME NEW r \in Runs, EnterCorrelating(r) PROVE TrailInvariant'
  <2>1. SetState(r, "correlating") /\ "correlating" \in ScanState
    BY <1>5 DEF EnterCorrelating, ScanState
  <2> QED
    BY <2>1, SetStateExtendsTrail
<1>6. ASSUME NEW r \in Runs, EnterValidating(r) PROVE TrailInvariant'
  <2>1. SetState(r, "validating") /\ "validating" \in ScanState
    BY <1>6 DEF EnterValidating, ScanState
  <2> QED
    BY <2>1, SetStateExtendsTrail
<1>7. ASSUME NEW r \in Runs, EnterReporting(r) PROVE TrailInvariant'
  <2>1. SetState(r, "reporting") /\ "reporting" \in ScanState
    BY <1>7 DEF EnterReporting, ScanState
  <2> QED
    BY <2>1, SetStateExtendsTrail
<1>8. ASSUME NEW r \in Runs, Complete(r) PROVE TrailInvariant'
  <2>1. SetState(r, "completed") /\ "completed" \in ScanState
    BY <1>8 DEF Complete, ScanState
  <2> QED
    BY <2>1, SetStateExtendsTrail
<1>9. ASSUME NEW r \in Runs,
             Submit(r) \/ SkipUnbound(r) \/ StartEngine(r) \/
             EngineHealthy(r) \/ EnginePrepare(r) \/ EngineExecute(r) \/
             EngineCollect(r)
      PROVE  TrailInvariant'
  BY <1>9, <1>k DEF Submit, SkipUnbound, StartEngine, EngineHealthy,
               EnginePrepare, EngineExecute, EngineCollect, Advance
<1>10. ASSUME NEW r \in Runs,
             EngineUnavailable(r) \/ EngineCleanup(r) \/ EngineRaises(r)
      PROVE  TrailInvariant'
  BY <1>10, <1>k DEF EngineUnavailable, EngineCleanup, EngineRaises,
               EngineReturns
<1>11. ASSUME NEW r \in Runs,
             PersistObservations(r) \/ ValidateOne(r) \/
             ValidateRaises(r) \/ CorrelateAndCarry(r)
      PROVE  TrailInvariant'
  BY <1>11, <1>k DEF PersistObservations, ValidateOne, ValidateRaises,
               CorrelateAndCarry
<1>12. ASSUME NEW r \in Runs,
             PersistFindings(r) \/ Assess(r) \/ AssessRaises(r) \/
             LoseRun(r)
      PROVE  TrailInvariant'
  BY <1>12, <1>k DEF PersistFindings, Assess, AssessRaises, LoseRun
<1>13. CASE (\E t \in Targets : AuthorizationExpires(t)) \/ UNCHANGED vars
  BY <1>13, <1>k DEF AuthorizationExpires, vars
<1> QED
  BY <1>1, <1>2, <1>3, <1>4, <1>5, <1>6, <1>7, <1>8, <1>9, <1>10, <1>11,
     <1>12, <1>13 DEF Next, Step, EngineStep, AllOver

(* The trail of a scan that nobody runs yet is empty.                      *)
LEMMA TrailInit == Init => TrailInvariant
<1>1. Len(<<"created">> \o <<>>) = 1
  OBVIOUS
<1>2. \A i \in 1 .. Len(<<"created">> \o <<>>) - 1 : FALSE
  BY <1>1
<1> QED
  BY <1>2 DEF Init, TrailInvariant, TrailAt

(* The audit trail of a scan that is run once shows legal transitions only *)
(* and ends in the state of its row, wherever its run was interrupted.     *)
THEOREM AuditTellsTheLifeHolds ==
  ASSUME OneRunPerScan
  PROVE  Spec => []AuditTellsTheLife
<1>1. RunInvariant /\ StoreInvariant /\ TrailInvariant /\ [Next]_vars => TrailInvariant'
  BY TrailStep DEF RunInvariant, BasicInvariant, StoreInvariant
<1>2. TrailInvariant => AuditTellsTheLife
  BY DEF TrailInvariant, TrailAt, AuditTellsTheLife
<1> QED
  BY InvariantHolds, TrailInit, <1>1, <1>2, PTL DEF Spec

-----------------------------------------------------------------------------
(* The history of a target *)

(* A scan that was created after another one had finished, with none       *)
(* between them, takes its history from that one: the first of the rows    *)
(* that _merge_history orders by created_at.                               *)
LEMMA FollowedIsLast ==
  ASSUME TypeOK, CreationOrdered, NEW s \in Scans, NEW n \in Scans, s # n, Follows(s, n)
  PROVE  PreviousScans(n) # {} /\ LastScan(n) = s
<1>1. s \in PreviousScans(n) /\ createdAt[s] # 0
  BY DEF Follows, PreviousScans, CreationOrdered
<1>2. \A p \in PreviousScans(n) : p \in Scans /\ createdAt[p] \in Nat /\ createdAt[p] <= createdAt[s]
  <2> SUFFICES ASSUME NEW p \in PreviousScans(n)
               PROVE  p \in Scans /\ createdAt[p] \in Nat /\ createdAt[p] <= createdAt[s]
    OBVIOUS
  <2>1. p \in Scans /\ p # n /\ createdAt[p] \in Nat /\ createdAt[s] \in Nat
    BY DEF PreviousScans, TypeOK
  <2>2. ~(createdAt[p] > createdAt[s])
    BY <2>1 DEF Follows
  <2> QED
    BY <2>1, <2>2
<1>3. /\ LastScan(n) \in PreviousScans(n)
      /\ \A p \in PreviousScans(n) : createdAt[p] <= createdAt[LastScan(n)]
  BY <1>1, <1>2 DEF LastScan
<1>4. createdAt[LastScan(n)] = createdAt[s]
  <2>1. createdAt[LastScan(n)] \in Nat /\ createdAt[s] \in Nat
    BY <1>1, <1>2, <1>3
  <2> QED
    BY <1>1, <1>2, <1>3, <2>1
<1> QED
  BY <1>1, <1>2, <1>3, <1>4 DEF CreationOrdered

(* merge_across_scans takes first_seen from the old finding with the same  *)
(* fingerprint, when there is one such.                                    *)
LEMMA CarryForwardCarries ==
  ASSUME NEW P, NEW f \in P, \A g \in P : g.fp = f.fp => g = f,
         NEW h \in Findings, h.fp = f.fp, NEW t
  PROVE  CarryForward(P, h, t).first = f.first
<1> DEFINE old == CHOOSE g \in P : g.fp = h.fp
<1>1. old = f
  BY DEF old
<1>2. CarryForward(P, h, t) = [h EXCEPT !.first = old.first, !.last = t]
  BY DEF CarryForward
<1> HIDE DEF old
<1> QED
  BY <1>1, <1>2 DEF Findings

(* The order of creation stands as long as no scan is created.             *)
LEMMA OrderKept ==
  ASSUME TypeOK, CreationOrdered, now' \in Nat, now <= now', UNCHANGED createdAt,
         \A q \in Runs : pc'[q] # "new" => pc[q] # "new",
         \A s \in Scans : rowState'[s] # "absent" => createdAt[s] # 0
  PROVE  CreationOrdered'
<1>1. \A s \in Scans : createdAt'[s] <= now'
  BY DEF CreationOrdered, TypeOK
<1> QED
  BY <1>1 DEF CreationOrdered

(* As long as no finding is stored and no other scan followed, it is       *)
(* enough that the runs keep the times of what they hold.                  *)
LEMMA CarriedKept ==
  ASSUME TypeOK, HistoryInvariant, CreationOrdered',
         ConstantsAssumption, FindingsPartition,
         UNCHANGED findingRows,
         \A s, n \in Scans : Follows(s, n)' =>
           Follows(s, n) \/ /\ \A g \in findingRows : g.scan # n
                            /\ \A r \in Runs : ScanOf[r] = n => pc[r] \notin Correlated,
         \A r \in Runs : pc'[r] \in Correlated =>
           /\ pc[r] \in Correlated
           /\ \A g \in findings'[r] : \E h \in findings[r] :
                g.scan = h.scan /\ g.fp = h.fp /\ g.first = h.first
  PROVE  HistoryInvariant'
<1>1. \A f \in findingRows : f.scan \in Scans
  BY DEF TypeOK, Findings
<1>2. ASSUME NEW r \in Runs, pc'[r] \in Correlated, NEW g \in findings'[r] PROVE Carries(g)'
  <2>1. PICK h \in findings[r] : g.scan = h.scan /\ g.fp = h.fp /\ g.first = h.first
    BY <1>2
  <2>2. pc[r] \in Correlated /\ h.scan = ScanOf[r] /\ h.scan \in Scans
    BY <1>2, <2>1 DEF FindingsPartition, ConstantsAssumption
  <2>3. Carries(h)
    BY <2>1, <2>2 DEF HistoryInvariant
  <2>4. \A f \in findingRows : Follows(f.scan, h.scan)' => Follows(f.scan, h.scan)
    BY <1>1, <2>2
  <2> QED
    BY <2>1, <2>3, <2>4 DEF Carries
<1>3. ASSUME NEW g \in findingRows PROVE Carries(g)'
  <2>1. Carries(g)
    BY DEF HistoryInvariant
  <2>2. \A f \in findingRows : Follows(f.scan, g.scan)' => Follows(f.scan, g.scan)
    BY <1>1
  <2> QED
    BY <2>1, <2>2 DEF Carries
<1> QED
  BY <1>2, <1>3 DEF HistoryInvariant

(* A commit of _set_state lets no scan follow another one that did not     *)
(* follow it: the scan that completes does so after all that are created.  *)
LEMMA SetStateFollows ==
  ASSUME TypeOK, CreationOrdered, ConstantsAssumption, NEW r \in Runs, NEW dst \in ScanState,
         SetState(r, dst), NEW s \in Scans, NEW n \in Scans, Follows(s, n)'
  PROVE  Follows(s, n)
<1>1. /\ rowState' = [rowState EXCEPT ![ScanOf[r]] = dst] /\ UNCHANGED createdAt
      /\ ScanOf[r] \in Scans
  BY DEF SetState, ConstantsAssumption
<1>2. CASE s = ScanOf[r]
  <2>1. dst = "completed"
    BY <1>1, <1>2 DEF Follows, TypeOK
  <2>2. finishedAt'[s] = now + 1
    BY <1>1, <1>2, <2>1 DEF SetState, TerminalStates, TypeOK
  <2>3. createdAt'[n] <= now /\ createdAt'[n] \in Nat /\ now \in Nat
    BY <1>1 DEF CreationOrdered, TypeOK
  <2>4. finishedAt'[s] < createdAt'[n]
    BY DEF Follows
  <2> QED
    BY <2>2, <2>3, <2>4
<1>3. CASE s # ScanOf[r]
  <2>1. rowState'[s] = rowState[s]
    BY <1>1, <1>3 DEF TypeOK
  <2>2. finishedAt'[s] = finishedAt[s]
    BY <1>1, <1>3 DEF SetState, TypeOK
  <2> QED
    BY <1>1, <2>1, <2>2 DEF Follows
<1> QED
  BY <1>2, <1>3

(* So that a step that commits a state leaves the history as it is.        *)
LEMMA HistoryAtCommit ==
  ASSUME TypeOK, FindingsPartition, HistoryInvariant, ConstantsAssumption,
         NEW r \in Runs, NEW dst \in ScanState, NEW from, NEW to,
         Goto(r, from, to), from # "new", to \in Correlated => from \in Correlated, SetState(r, dst),
         \A g \in findings'[r] : \E h \in findings[r] :
           g.scan = h.scan /\ g.fp = h.fp /\ g.first = h.first,
         \A q \in Runs \ {r} : findings'[q] = findings[q]
  PROVE  HistoryInvariant'
<1>1. CreationOrdered /\ createdAt[ScanOf[r]] # 0
  BY DEF HistoryInvariant, CreationOrdered, Goto
<1>2. /\ now' \in Nat /\ now <= now' /\ UNCHANGED createdAt
      /\ rowState' = [rowState EXCEPT ![ScanOf[r]] = dst] /\ UNCHANGED findingRows
  BY SetStateTypes DEF SetState
<1>3. pc[r] = from /\ pc'[r] = to /\ \A q \in Runs \ {r} : pc'[q] = pc[q]
  BY DEF Goto, TypeOK
<1>4. \A s \in Scans : rowState'[s] # "absent" => createdAt[s] # 0
  BY <1>1, <1>2 DEF CreationOrdered, TypeOK
<1>5. CreationOrdered'
  <2>1. \A q \in Runs : pc'[q] # "new" => pc[q] # "new"
    BY <1>3
  <2> QED
    BY <1>1, <1>2, <1>4, <2>1, OrderKept
<1>6. \A s, n \in Scans : Follows(s, n)' => Follows(s, n)
  BY <1>1, SetStateFollows
<1>7. \A q \in Runs : pc'[q] \in Correlated =>
        /\ pc[q] \in Correlated
        /\ \A g \in findings'[q] : \E h \in findings[q] :
             g.scan = h.scan /\ g.fp = h.fp /\ g.first = h.first
  BY <1>3
<1> QED
  BY <1>2, <1>5, <1>6, <1>7, CarriedKept

(* And so does one that touches neither a row nor a finding.               *)
LEMMA HistoryKept ==
  ASSUME TypeOK, FindingsPartition, HistoryInvariant, ConstantsAssumption,
         UNCHANGED <<rowState, createdAt, finishedAt, findingRows, findings>>,
         now' \in Nat, now <= now',
         \A q \in Runs : pc'[q] = pc[q] \/ (pc[q] # "new" /\ pc'[q] \notin Correlated)
  PROVE  HistoryInvariant'
<1>1. CreationOrdered'
  BY OrderKept DEF HistoryInvariant, CreationOrdered
<1>2. \A s, n \in Scans : Follows(s, n)' => Follows(s, n)
  BY DEF Follows
<1> QED
  BY <1>1, <1>2, CarriedKept

(* Correlation carries the times of the one scan that was followed; what   *)
(* others hold and what is stored stay as they are.                        *)
LEMMA CorrelateCarries ==
  ASSUME TypeOK, TimesPast, RowIsMemory, MemoryAtStep, FindingsPartition, FindingsStoredPartition,
         HistoryInvariant, ConstantsAssumption, NEW r \in Runs, CorrelateAndCarry(r)
  PROVE  HistoryInvariant'
<1> USE DEF dbVars
<1> DEFINE n == ScanOf[r]
           P == PreviousFindings(n)
<1>1. /\ UNCHANGED <<rowState, createdAt, finishedAt, findingRows>>
      /\ pc[r] = "validate" /\ pc'[r] = "correlated" /\ \A q \in Runs \ {r} : pc'[q] = pc[q]
      /\ now' \in Nat /\ now <= now'
      /\ findings'[r] = {CarryForward(P, f, now + 1) : f \in Correlate(n, obs[r])}
      /\ \A q \in Runs \ {r} : findings'[q] = findings[q]
      /\ n \in Scans /\ obs[r] \in SUBSET Observations
  BY DEF CorrelateAndCarry, Goto, TypeOK, ConstantsAssumption
<1>2. CreationOrdered'
  BY <1>1, OrderKept DEF HistoryInvariant, CreationOrdered
<1>3. \A s, m \in Scans : Follows(s, m)' <=> Follows(s, m)
  BY <1>1 DEF Follows
<1>4. \A f \in findingRows : f.scan \in Scans
  BY DEF TypeOK, Findings
<1>5. rowState[n] = "correlating"
  BY <1>1, StatesAtPlaces DEF MemoryAtStep, RowIsMemory
<1> HIDE DEF n, P
<1>6. ASSUME NEW g \in findings'[r] PROVE Carries(g)'
  <2>1. PICK h \in Correlate(n, obs[r]) : g = CarryForward(P, h, now + 1)
    BY <1>1
  <2>2. /\ h \in Findings /\ h.scan = n
        /\ P \in SUBSET Findings
    <3>1. \A o \in obs[r] : o.at <= now
      BY DEF TimesPast
    <3>2. h \in Findings
      BY <1>1, <2>1, <3>1, CorrelateType DEF TypeOK
    <3>3. h.scan = n
      BY <1>1, <2>1, CorrelatePartitions
    <3> QED
      BY <3>2, <3>3 DEF P, PreviousFindings, TypeOK
  <2>3. g.scan = n /\ g.fp = h.fp
    BY <2>1, <2>2, CarryForwardKeeps
  <2> SUFFICES ASSUME NEW f \in findingRows, f.fp = g.fp, Follows(f.scan, n)
               PROVE  g.first = f.first
    BY <1>1, <1>3, <1>4, <2>3 DEF Carries
  <2>4. f.scan # n
    BY <1>5 DEF Follows
  <2>5. PreviousScans(n) # {} /\ LastScan(n) = f.scan
    BY <1>1, <1>4, <2>4, FollowedIsLast DEF HistoryInvariant
  <2>6. P = {x \in findingRows : x.scan = f.scan}
    BY <2>5 DEF P, PreviousFindings
  <2>7. f \in P /\ \A x \in P : x.fp = f.fp => x = f
    BY <2>6 DEF FindingsStoredPartition
  <2>8. CarryForward(P, h, now + 1).first = f.first
    BY <2>2, <2>3, <2>7, CarryForwardCarries
  <2> QED
    BY <2>1, <2>8
<1>7. ASSUME NEW q \in Runs \ {r}, pc'[q] \in Correlated, NEW g \in findings'[q] PROVE Carries(g)'
  <2>1. Carries(g) /\ g.scan \in Scans
    BY <1>1, <1>7 DEF HistoryInvariant, FindingsPartition, ConstantsAssumption
  <2> QED
    BY <1>1, <1>3, <1>4, <2>1 DEF Carries
<1>8. ASSUME NEW g \in findingRows' PROVE Carries(g)'
  <2>1. Carries(g) /\ g.scan \in Scans
    BY <1>1, <1>4, <1>8 DEF HistoryInvariant
  <2> QED
    BY <1>1, <1>3, <1>4, <2>1 DEF Carries
<1> QED
  BY <1>2, <1>6, <1>7, <1>8 DEF HistoryInvariant

(* The findings of a run are stored while its scan is not completed, so    *)
(* that nobody follows it; they carry already what they have to.           *)
LEMMA PersistCarries ==
  ASSUME TypeOK, RowIsMemory, MemoryAtStep, FindingsPartition, HistoryInvariant,
         ConstantsAssumption, NEW r \in Runs, PersistFindings(r)
  PROVE  HistoryInvariant'
<1> USE DEF scanVars, resultVars
<1>1. /\ UNCHANGED <<rowState, createdAt, finishedAt, findings, now>>
      /\ pc[r] = "reporting" /\ pc'[r] = "assess" /\ \A q \in Runs \ {r} : pc'[q] = pc[q]
      /\ findingRows' \subseteq findingRows \cup findings[r]
      /\ now \in Nat
  BY DEF PersistFindings, Goto, TypeOK
<1>2. CreationOrdered'
  BY <1>1, OrderKept DEF HistoryInvariant, CreationOrdered
<1>3. \A s, m \in Scans : Follows(s, m)' <=> Follows(s, m)
  BY <1>1 DEF Follows
<1>4. \A f \in findings[r] : f.scan = ScanOf[r] /\ ScanOf[r] \in Scans
  BY <1>1 DEF FindingsPartition, Correlated, ConstantsAssumption
<1>5. rowState[ScanOf[r]] = "reporting"
  BY <1>1, StatesAtPlaces DEF MemoryAtStep, RowIsMemory
<1>6. \A f \in findingRows' : f.scan \in Scans /\ \A m : Follows(f.scan, m) => f \in findingRows
  BY <1>1, <1>4, <1>5 DEF TypeOK, Findings, Follows
<1>7. ASSUME NEW g, Carries(g), g.scan \in Scans PROVE Carries(g)'
  BY <1>3, <1>6, <1>7 DEF Carries
<1>8. ASSUME NEW q \in Runs, pc'[q] \in Correlated, NEW g \in findings'[q] PROVE Carries(g)'
  <2>1. pc[q] \in Correlated /\ g \in findings[q]
    BY <1>1, <1>8 DEF Correlated
  <2>2. Carries(g) /\ g.scan \in Scans
    BY <2>1 DEF HistoryInvariant, FindingsPartition, ConstantsAssumption
  <2> QED
    BY <1>7, <2>2
<1>9. ASSUME NEW g \in findingRows' PROVE Carries(g)'
  <2>1. Carries(g) /\ g.scan \in Scans
    BY <1>1, <1>6, <1>9 DEF HistoryInvariant, Correlated
  <2> QED
    BY <1>7, <2>1
<1> QED
  BY <1>2, <1>8, <1>9 DEF HistoryInvariant

(* A scan that is created follows another, but has no finding yet.         *)
LEMMA SubmitCarries ==
  ASSUME OneRunPerScan, TypeOK, FindingsPartition, FindingsStoredPartition, HistoryInvariant,
         ConstantsAssumption, NEW r \in Runs, Submit(r)
  PROVE  HistoryInvariant'
<1> USE DEF resultVars
<1> DEFINE n == ScanOf[r]
<1>1. /\ UNCHANGED <<rowState, finishedAt, findingRows, findings>>
      /\ pc[r] = "new" /\ pc'[r] = "submitted" /\ \A q \in Runs \ {r} : pc'[q] = pc[q]
      /\ n \in Scans /\ now \in Nat
  BY DEF Submit, Goto, TypeOK, ConstantsAssumption
<1>2. CASE createdAt[n] # 0
  <2>1. UNCHANGED <<createdAt, now>>
    BY <1>2 DEF Submit
  <2>2. CreationOrdered'
    BY <1>1, <1>2, <2>1 DEF HistoryInvariant, CreationOrdered
  <2>3. \A s, m \in Scans : Follows(s, m)' => Follows(s, m)
    BY <1>1, <2>1 DEF Follows
  <2>4. \A q \in Runs : pc'[q] \in Correlated => pc[q] \in Correlated
    BY <1>1 DEF Correlated
  <2> QED
    BY <1>1, <2>2, <2>3, <2>4, CarriedKept
<1>3. CASE createdAt[n] = 0
  <2>1. now' = now + 1 /\ createdAt' = [createdAt EXCEPT ![n] = now + 1]
    BY <1>3 DEF Submit
  <2>2. /\ \A s \in Scans : createdAt[s] \in Nat /\ createdAt[s] <= now
        /\ createdAt'[n] = now + 1 /\ \A s \in Scans \ {n} : createdAt'[s] = createdAt[s]
    BY <1>1, <2>1 DEF HistoryInvariant, CreationOrdered, TypeOK
  <2>3. CreationOrdered'
    <3>1. \A s \in Scans : createdAt'[s] <= now'
      BY <1>1, <2>1, <2>2
    <3>2. \A s, q \in Scans : createdAt'[s] = createdAt'[q] /\ createdAt'[s] # 0 => s = q
      BY <1>1, <2>2 DEF HistoryInvariant, CreationOrdered
    <3>3. \A q \in Runs : pc'[q] # "new" => createdAt'[ScanOf[q]] # 0
      BY <1>1, <2>2 DEF HistoryInvariant, CreationOrdered, ConstantsAssumption
    <3>4. \A s \in Scans : rowState'[s] # "absent" => createdAt'[s] # 0
      BY <1>1, <2>2 DEF HistoryInvariant, CreationOrdered
    <3> QED
      BY <3>1, <3>2, <3>3, <3>4 DEF CreationOrdered
  <2>4. ASSUME NEW s \in Scans, NEW m \in Scans, Follows(s, m)', m # n PROVE Follows(s, m)
    <3>1. rowState[s] = "completed" /\ s # n
      BY <1>1, <1>3, <2>4 DEF Follows, HistoryInvariant, CreationOrdered
    <3>2. \A q \in Scans : createdAt[q] > createdAt[s] => createdAt'[q] > createdAt'[s]
      BY <1>1, <2>2, <3>1
    <3> QED
      BY <1>1, <2>2, <2>4, <3>1, <3>2 DEF Follows
  <2>5. /\ \A g \in findingRows : g.scan # n
        /\ \A q \in Runs : ScanOf[q] = n => pc[q] \notin Correlated
    BY <1>1 DEF OneRunPerScan, FindingsStoredPartition, FindingsOf, BeforeFindings, BeforeRunning, Correlated
  <2>6. \A q \in Runs : pc'[q] \in Correlated => pc[q] \in Correlated
    BY <1>1 DEF Correlated
  <2> HIDE DEF n
  <2> QED
    BY <1>1, <2>3, <2>4, <2>5, <2>6, CarriedKept
<1> QED
  BY <1>2, <1>3

(* One step of a run with a scan of its own keeps the history.             *)
LEMMA HistoryStep ==
  ASSUME OneRunPerScan, RunInvariant, StoreInvariant, HistoryInvariant, [Next]_vars
  PROVE  HistoryInvariant'
<1> USE ConstantsAssumption DEF dbVars, scanVars, ctxVars, loopVars, reportVars, resultVars, worldVars
<1>0. /\ TypeOK /\ TimesPast /\ MemoryAtStep /\ RowIsMemory
      /\ FindingsPartition /\ FindingsStoredPartition
  BY DEF RunInvariant, BasicInvariant, StoreInvariant
<1>1. ASSUME NEW r \in Runs, Submit(r) PROVE HistoryInvariant'
  BY <1>0, <1>1, SubmitCarries
<1>2. ASSUME NEW r \in Runs, NEW dst \in ScanState, NEW from, NEW to,
             Goto(r, from, to), from # "new", to \in Correlated => from \in Correlated,
             SetState(r, dst), UNCHANGED findings
      PROVE  HistoryInvariant'
  <2>1. \A g \in findings'[r] : \E h \in findings[r] : g.scan = h.scan /\ g.fp = h.fp /\ g.first = h.first
    BY <1>2
  <2> QED
    BY <1>0, <1>2, <2>1, HistoryAtCommit
<1>3. ASSUME NEW r \in Runs,
             EnterQueued(r) \/ EnterPlanning(r) \/ RefuseUnauthorized(r) \/ EnterRunning(r) \/ EnterCorrelating(r)
      PROVE  HistoryInvariant'
  <2> USE DEF ScanState, Correlated
  <2>1. CASE EnterQueued(r)
    BY <1>2, <2>1 DEF EnterQueued
  <2>2. CASE EnterPlanning(r)
    BY <1>2, <2>2 DEF EnterPlanning
  <2>3. CASE RefuseUnauthorized(r)
    BY <1>2, <2>3 DEF RefuseUnauthorized
  <2>4. CASE EnterRunning(r)
    BY <1>2, <2>4 DEF EnterRunning
  <2>5. CASE EnterCorrelating(r)
    BY <1>2, <2>5 DEF EnterCorrelating
  <2> QED
    BY <1>3, <2>1, <2>2, <2>3, <2>4, <2>5
<1>4. ASSUME NEW r \in Runs, EnterReporting(r) \/ Complete(r) PROVE HistoryInvariant'
  <2> USE DEF ScanState, Correlated
  <2>1. CASE EnterReporting(r)
    BY <1>2, <2>1 DEF EnterReporting
  <2>2. CASE Complete(r)
    BY <1>2, <2>2 DEF Complete
  <2> QED
    BY <1>4, <2>1, <2>2
<1>5. ASSUME NEW r \in Runs, EnterValidating(r) PROVE HistoryInvariant'
  <2>1. findings'[r] = {[f EXCEPT !.risk = f.conf] : f \in findings[r]} /\ findings[r] \subseteq Findings
    BY <1>0, <1>5 DEF EnterValidating, TypeOK
  <2>2. ASSUME NEW f \in Findings
        PROVE  /\ [f EXCEPT !.risk = f.conf].scan = f.scan
               /\ [f EXCEPT !.risk = f.conf].fp = f.fp
               /\ [f EXCEPT !.risk = f.conf].first = f.first
    BY DEF Findings
  <2>3. ASSUME NEW g \in findings'[r]
        PROVE  \E h \in findings[r] : g.scan = h.scan /\ g.fp = h.fp /\ g.first = h.first
    <3>1. PICK f \in findings[r] : g = [f EXCEPT !.risk = f.conf]
      BY <2>1
    <3> QED
      BY <2>1, <2>2, <3>1
  <2>4. \A q \in Runs \ {r} : findings'[q] = findings[q]
    BY <1>0, <1>5 DEF EnterValidating, TypeOK
  <2> QED
    BY <1>0, <1>5, <2>3, <2>4, HistoryAtCommit DEF EnterValidating, ScanState, Correlated
<1>6. ASSUME NEW r \in Runs, CorrelateAndCarry(r) PROVE HistoryInvariant'
  BY <1>0, <1>6, CorrelateCarries
<1>7. ASSUME NEW r \in Runs, PersistFindings(r) PROVE HistoryInvariant'
  BY <1>0, <1>7, PersistCarries
<1>8. ASSUME UNCHANGED <<rowState, createdAt, finishedAt, findingRows, findings>>,
             now' \in {now, now + 1},
             \A q \in Runs : pc'[q] = pc[q] \/ (pc[q] # "new" /\ pc'[q] \notin Correlated)
      PROVE  HistoryInvariant'
  <2>1. now' \in Nat /\ now <= now'
    BY <1>0, <1>8 DEF TypeOK
  <2> QED
    BY <1>0, <1>8, <2>1, HistoryKept
<1>9. ASSUME NEW r \in Runs,
             \/ SkipUnbound(r) \/ StartEngine(r) \/ PersistObservations(r) \/ ValidateOne(r)
             \/ ValidateRaises(r) \/ Assess(r) \/ AssessRaises(r) \/ LoseRun(r)
      PROVE  HistoryInvariant'
  <2>1. CASE SkipUnbound(r) \/ StartEngine(r)
    BY <1>0, <1>8, <2>1 DEF SkipUnbound, StartEngine, Goto, TypeOK, Correlated
  <2>2. CASE PersistObservations(r) \/ Assess(r) \/ AssessRaises(r)
    BY <1>0, <1>8, <2>2 DEF PersistObservations, Assess, AssessRaises, Goto, TypeOK, Correlated
  <2>3. CASE ValidateOne(r) \/ ValidateRaises(r)
    <3>1. UNCHANGED <<rowState, createdAt, finishedAt, findingRows, findings, pc>> /\ now' \in {now, now + 1}
      BY <2>3 DEF ValidateOne, ValidateRaises
    <3> QED
      BY <1>8, <3>1
  <2>4. CASE LoseRun(r)
    BY <1>0, <1>8, <2>4 DEF LoseRun, TypeOK, Correlated
  <2> QED
    BY <1>9, <2>1, <2>2, <2>3, <2>4
<1>10. ASSUME NEW r \in Runs, EngineStep(r) PROVE HistoryInvariant'
  <2>1. ASSUME NEW O, EngineReturns(r, O), pc[r] \in EngineSteps PROVE HistoryInvariant'
    BY <1>0, <1>8, <2>1 DEF EngineReturns, EngineSteps, TypeOK, Correlated
  <2>2. ASSUME NEW from, NEW to, Advance(r, from, to), from # "new", to \notin Correlated, now' \in {now, now + 1}
        PROVE  HistoryInvariant'
    BY <1>0, <1>8, <2>2 DEF Advance, Goto, TypeOK
  <2>3. CASE EngineHealthy(r) \/ EnginePrepare(r) \/ EngineExecute(r)
    BY <2>2, <2>3 DEF EngineHealthy, EnginePrepare, EngineExecute, Correlated
  <2>4. CASE EngineCollect(r)
    BY <2>2, <2>4 DEF EngineCollect, Correlated
  <2>5. CASE EngineUnavailable(r) \/ EngineCleanup(r) \/ EngineRaises(r)
    BY <2>1, <2>5 DEF EngineUnavailable, EngineCleanup, EngineRaises, EngineSteps
  <2> QED
    BY <1>10, <2>3, <2>4, <2>5 DEF EngineStep
<1>11. CASE (\E t \in Targets : AuthorizationExpires(t)) \/ UNCHANGED vars
  BY <1>8, <1>11 DEF AuthorizationExpires, vars
<1> QED
  BY <1>1, <1>3, <1>4, <1>5, <1>6, <1>7, <1>9, <1>10, <1>11 DEF Next, Step, AllOver

(* Before anything was created there is no history.                        *)
LEMMA HistoryInit == Init => HistoryInvariant
BY ConstantsAssumption DEF Init, HistoryInvariant, CreationOrdered, Correlated, ConstantsAssumption

(* first_seen <= last_seen <= now in every stored finding, and first_seen  *)
(* is carried from one scan to the next of a target, whatever engines,     *)
(* failures and other scans do: _merge_history and merge_across_scans.     *)
THEOREM HistoryIsConsistentHolds ==
  ASSUME OneRunPerScan
  PROVE  Spec => []HistoryIsConsistent
<1>1. RunInvariant /\ StoreInvariant /\ HistoryInvariant /\ [Next]_vars => HistoryInvariant'
  BY HistoryStep
<1>2. TypeOK /\ HistoryInvariant => FirstSeenCarried
  BY DEF HistoryInvariant, FirstSeenCarried, Carries, Follows, TypeOK, Findings
<1>3. RunInvariant => TypeOK
  BY DEF RunInvariant, BasicInvariant
<1> QED
  BY InvariantHolds, SeenInOrderHolds, HistoryInit, <1>1, <1>2, <1>3, PTL DEF Spec, HistoryIsConsistent

-----------------------------------------------------------------------------
(* The strengthening as a whole, which the runs check: it is inductive     *)
(* when every scan is run once and there are finitely many URLs.           *)
THEOREM InductiveInvariantHolds ==
  ASSUME OneRunPerScan, IsFiniteSet(Urls)
  PROVE  Spec => []InductiveInvariant
<1>1. Init => InductiveInvariant
  BY RunInit, AttemptInit, FeedbackInit, StoreInit, TrailInit, HistoryInit DEF InductiveInvariant
<1>2. ASSUME InductiveInvariant, [Next]_vars PROVE InductiveInvariant'
  <2>1. /\ RunInvariant /\ AttemptInvariant /\ FeedbackInvariant /\ StoreInvariant /\ TrailInvariant
        /\ HistoryInvariant /\ TypeOK /\ RowIsMemory
    BY <1>2 DEF InductiveInvariant, RunInvariant, BasicInvariant, StoreInvariant
  <2>2. RunInvariant' /\ StoreInvariant'
    BY <1>2, <2>1, RunStep, StoreStep
  <2>3. AttemptInvariant' /\ FeedbackInvariant' /\ TrailInvariant' /\ HistoryInvariant'
    BY <1>2, <2>1, AttemptStep, FeedbackStep, TrailStep, HistoryStep
  <2> QED
    BY <2>2, <2>3 DEF InductiveInvariant
<1> QED
  BY <1>1, <1>2, PTL DEF Spec
=============================================================================
