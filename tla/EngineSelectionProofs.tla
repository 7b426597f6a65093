------------------------ MODULE EngineSelectionProofs ------------------------
(***************************************************************************)
(* Which engines can be started, and what the planner makes of a request,  *)
(* for any manifests, lock file and policy, any requests, and any changes  *)
(* to the registry.                                                        *)
(***************************************************************************)
EXTENDS EngineSelection, FiniteSetTheorems, TLAPS

(* Where the registration of an engine found a problem, it has one still:  *)
(* approving the engine removes some problems and records one more.        *)
ProblemsStay ==
  \A e \in Engines : problems[e] = {} => RegistrationProblems(e) = {}

SelectionInv == TypeOK /\ ProblemsStay /\ OnlyVettedEnginesStart

(* An engine that is registered without a problem is vetted.               *)
LEMMA CleanIsVetted ==
  ASSUME NEW e \in Engines, RegistrationProblems(e) = {}
  PROVE  Vetted(e)
<1>1. CASE Ungated(e)
  BY <1>1 DEF Ungated, Vetted
<1>2. CASE ~Ungated(e)
  <2>1. ClassProblems(e) = {} /\ LockProblems(e) = {} /\ ImageProblems(e) = {}
    BY <1>2 DEF RegistrationProblems
  <2>2. ClassOf[License[e]] = "GREEN"
    BY <2>1, RegistryAssumption DEF ClassProblems, LicenseClass
  <2>3. e \in Locked /\ LockLicense[e] \in {"", License[e]}
    BY <2>1 DEF LockProblems
  <2>4. Integration[e] \in Containerized =>
          Image[e] # "none" /\ (e \in LockDigest => Image[e] = "digest")
    BY <2>1 DEF ImageProblems
  <2> QED
    BY <2>2, <2>3, <2>4 DEF Vetted
<1> QED
  BY <1>1, <1>2

(* Registration finds known problems and a known status. *)
LEMMA RegistrationType ==
  ASSUME NEW e \in Engines
  PROVE  /\ RegistrationProblems(e) \in SUBSET Problems
         /\ ClassApproval(e) \in ApprovalStatus
<1> ClassOf[License[e]] \in LicenseClass
  BY RegistryAssumption
<1>1. ClassProblems(e) \in SUBSET Problems
  BY DEF ClassProblems, Problems, LicenseClass
<1>2. LockProblems(e) \in SUBSET Problems
  BY DEF LockProblems, Problems
<1>3. ImageProblems(e) \in SUBSET Problems
  BY DEF ImageProblems, Problems
<1>4. ClassApproval(e) \in ApprovalStatus
  BY DEF ClassApproval, ApprovalStatus, LicenseClass
<1> QED
  BY <1>1, <1>2, <1>3, <1>4 DEF RegistrationProblems

(* Every step keeps types, problems and who was started.                   *)
LEMMA SelectionInvHolds == Spec => []SelectionInv
<1> USE SelectionAssumption
<1>1. Init => SelectionInv
  <2> SUFFICES ASSUME Init PROVE SelectionInv
    OBVIOUS
  <2>1. TypeOK
    BY RegistrationType DEF Init, Load, TypeOK, ApprovalStatus
  <2> QED
    BY <2>1 DEF SelectionInv, ProblemsStay, OnlyVettedEnginesStart, Init, Load
<1>2. SelectionInv /\ [Next]_vars => SelectionInv'
  <2> SUFFICES ASSUME SelectionInv, [Next]_vars PROVE SelectionInv'
    OBVIOUS
  <2> USE DEF SelectionInv, ProblemsStay, OnlyVettedEnginesStart
  <2>1. CASE BindNative \/ BindOss
    BY <2>1 DEF BindNative, BindOss, Bind, TypeOK, scanVars
  <2>2. CASE Detect
    <3>1. /\ UNCHANGED <<problems, approval, bound, idx, changes, started, cleared>>
          /\ enabled' \in [Engines -> BOOLEAN]
          /\ phase' = "oss" /\ present' \subseteq OssAdapters
      BY <2>2 DEF Detect, Enable, TypeOK, scanVars, registryVars
    <3> QED
      BY <3>1 DEF TypeOK
  <2>3. CASE ChangeEnabled \/ ChangeBound
    <3>1. /\ UNCHANGED <<problems, approval, phase, present, idx, started, cleared>>
          /\ enabled' \in [Engines -> BOOLEAN] /\ bound' \subseteq Engines
          /\ changes' \in Nat
      BY <2>3 DEF ChangeEnabled, ChangeBound, Change, Enable, Bind, TypeOK, buildVars, scanVars
    <3> QED
      BY <3>1 DEF TypeOK
  <2>4. CASE RecordApproval
    <3>1. PICK e \in Engines : Approve(e) /\ cleared' = cleared \cup {e}
      BY <2>4 DEF RecordApproval
    <3>2. /\ UNCHANGED <<enabled, bound, phase, present, idx, started>>
          /\ changes' \in Nat
      BY <2>4, <3>1 DEF RecordApproval, Change, Approve, buildVars, scanVars, TypeOK
    <3>3. TypeOK'
      BY <3>1, <3>2 DEF TypeOK, Approve, Problems, ApprovalStatus
    <3>4. \A d \in Engines : problems'[d] = {} => problems[d] = {}
      BY <3>1 DEF TypeOK, Approve
    <3> QED
      BY <3>2, <3>3, <3>4
  <2>5. CASE PlanScan \/ SkipTask \/ EndScan
    BY <2>5 DEF PlanScan, SkipTask, EndScan, AtTask, TypeOK, registryVars, buildVars
  <2>6. CASE StartTask
    <3> DEFINE e == plan.tasks[idx].engine
    <3>1. /\ Usable(e) /\ e \in Engines
          /\ started' = started \cup {e} /\ idx' \in Nat
          /\ UNCHANGED <<problems, approval, enabled, bound, phase, present, changes, cleared>>
      BY <2>6 DEF StartTask, HasAdapter, TypeOK, registryVars, buildVars
    <3>2. Vetted(e)
      BY <3>1, CleanIsVetted DEF Usable
    <3> HIDE DEF e
    <3> QED
      BY <3>1, <3>2 DEF TypeOK
  <2>7. CASE UNCHANGED vars
    BY <2>7 DEF vars, TypeOK
  <2> QED
    BY <2>1, <2>2, <2>3, <2>4, <2>5, <2>6, <2>7 DEF Next
<1> QED
  BY <1>1, <1>2, PTL DEF Spec

(* The registry, build and the scan are of their types in every reachable  *)
(* state.                                                                  *)
THEOREM TypeCorrect == Spec => []TypeOK
<1>1. SelectionInv => TypeOK
  BY DEF SelectionInv
<1> QED
  BY <1>1, SelectionInvHolds, PTL

(* The registry never offers, and no scan ever starts, an engine that is   *)
(* not vetted, however it is enabled, bound, approved and planned.         *)
THEOREM OnlyVettedEnginesStartHolds == Spec => []OnlyVettedEnginesStart
<1>1. SelectionInv => OnlyVettedEnginesStart
  BY DEF SelectionInv
<1> QED
  BY <1>1, SelectionInvHolds, PTL

-----------------------------------------------------------------------------
(* How far build has come tells what it has bound. *)
BuildInv ==
  /\ phase # "ready" => idx = 0 /\ changes = 0
  /\ phase \in {"detect", "oss"} => bound = NativeAdapters
  /\ phase = "native" => bound = {}
  /\ DetectionDecidesTheOss

(* After build and until somebody changes the registry, the bundled        *)
(* engines that are bound are the usable ones among those on the host.     *)
THEOREM DetectionDecidesTheOssHolds == Spec => []DetectionDecidesTheOss
<1>1. Init => BuildInv
  BY DEF Init, Load, BuildInv, DetectionDecidesTheOss
<1>2. SelectionInv /\ BuildInv /\ [Next]_vars => BuildInv'
  <2> SUFFICES ASSUME SelectionInv, BuildInv, [Next]_vars PROVE BuildInv'
    OBVIOUS
  <2> USE DEF BuildInv, DetectionDecidesTheOss
  <2>1. CASE BindNative
    BY <2>1 DEF BindNative, Bind, scanVars
  <2>2. CASE Detect
    BY <2>2 DEF Detect, Enable, registryVars, scanVars
  <2>3. CASE BindOss
    <3>1. \A e : Usable(e)' = Usable(e)
      BY <2>3 DEF BindOss, Bind, Usable
    <3> QED
      BY <2>3, <3>1 DEF BindOss, Bind, scanVars
  <2>4. CASE ChangeEnabled \/ ChangeBound \/ RecordApproval
    <3>1. phase' = "ready" /\ changes' # 0 /\ idx' = idx
      BY <2>4 DEF ChangeEnabled, ChangeBound, RecordApproval, Change, SelectionInv, TypeOK,
                  buildVars, scanVars
    <3> QED
      BY <3>1
  <2>5. CASE PlanScan \/ StartTask \/ SkipTask \/ EndScan
    <3>1. UNCHANGED <<problems, approval, enabled, bound, phase, present, changes>>
      BY <2>5 DEF PlanScan, StartTask, SkipTask, EndScan, registryVars, buildVars
    <3>2. phase = "ready"
      BY <2>5 DEF PlanScan, StartTask, SkipTask, EndScan, AtTask, SelectionInv, TypeOK, NoPlan
    <3> QED
      BY <3>1, <3>2 DEF Usable
  <2>6. CASE UNCHANGED vars
    BY <2>6 DEF vars, Usable
  <2> QED
    BY <2>1, <2>2, <2>3, <2>4, <2>5, <2>6 DEF Next
<1>3. BuildInv => DetectionDecidesTheOss
  BY DEF BuildInv
<1> QED
  BY <1>1, <1>2, <1>3, SelectionInvHolds, PTL DEF Spec
-----------------------------------------------------------------------------
(* A set of naturals that is not empty has a least one.                    *)
LEMMA LeastNatural ==
  ASSUME NEW T, T \subseteq Nat, T # {}
  PROVE  \E m \in T : \A n \in T : m <= n
<1> DEFINE less == {p \in Nat \X Nat : p[1] < p[2]}
<1>1. IsWellFoundedOn(less, Nat)
  BY NatLessThanWellFounded DEF OpToRel
<1>2. PICK m \in T : \A n \in T : <<n, m>> \notin less
  BY <1>1, WFMin
<1>3. \A n \in T : ~(n < m)
  BY <1>2
<1> QED
  BY <1>3

(* Induction over the turns of a loop, for a set of numbers of turns.      *)
LEMMA TurnByTurn ==
  ASSUME NEW N \in Nat, NEW T, 0 \in T, \A n \in 1 .. N : n - 1 \in T => n \in T
  PROVE  \A n \in 0 .. N : n \in T
<1> DEFINE bad == {n \in 0 .. N : n \notin T}
<1> SUFFICES ASSUME bad # {} PROVE FALSE
  OBVIOUS
<1>1. bad \subseteq Nat
  OBVIOUS
<1>2. PICK m \in bad : \A n \in bad : m <= n
  <2> HIDE DEF bad
  <2> QED
    BY <1>1, LeastNatural
<1>3. m \in 1 .. N /\ m - 1 \in 0 .. N /\ m - 1 \notin bad
  BY <1>2
<1> QED
  BY <1>2, <1>3

(* The course of a loop of N turns: what it has after each of them.        *)
Course(S, base, N, G, f) ==
  f \in [0 .. N -> S] /\ f[0] = base /\ \A n \in 1 .. N : f[n] = G[n][f[n - 1]]

(* A loop that starts with base and makes each turn G has a course.        *)
LEMMA LoopRuns ==
  ASSUME NEW S, NEW base \in S, NEW N \in Nat, NEW G \in [1 .. N -> [S -> S]]
  PROVE  \E f : Course(S, base, N, G, f)
<1> DEFINE Goes(m, f) == Course(S, base, m, G, f)
           T == {m \in 0 .. N : \E f : Goes(m, f)}
<1>1. 0 \in T
  <2> DEFINE f == [n \in 0 .. 0 |-> base]
  <2>1. f \in [0 .. 0 -> S] /\ f[0] = base
    OBVIOUS
  <2>2. Goes(0, f)
    BY <2>1 DEF Course
  <2> HIDE DEF f
  <2>3. 0 \in 0 .. N
    OBVIOUS
  <2> QED
    BY <2>2, <2>3
<1>2. ASSUME NEW m \in 1 .. N, m - 1 \in T PROVE m \in T
  <2>1. PICK f : Goes(m - 1, f)
    BY <1>2 DEF Course
  <2> DEFINE last == G[m][f[m - 1]]
             g == [n \in 0 .. m |-> IF n = m THEN last ELSE f[n]]
  <2>2. m - 1 \in 0 .. m - 1 /\ f[m - 1] \in S /\ last \in S
    BY <2>1 DEF Course
  <2>3. g \in [0 .. m -> S] /\ (\A n \in 0 .. m - 1 : g[n] = f[n]) /\ g[m] = last
    <3> HIDE DEF last
    <3> QED
      BY <2>1, <2>2 DEF Course
  <2> HIDE DEF g
  <2>4. ASSUME NEW n \in 1 .. m PROVE g[n] = G[n][g[n - 1]]
    <3>1. n - 1 \in 0 .. m - 1 /\ g[n - 1] = f[n - 1]
      BY <2>3
    <3>2. CASE n = m
      BY <2>3, <3>1, <3>2
    <3>3. CASE n # m
      <4>1. n \in 1 .. m - 1 /\ n \in 0 .. m - 1
        BY <3>3
      <4> QED
        BY <2>1, <2>3, <3>1, <4>1 DEF Course
    <3> QED
      BY <3>2, <3>3
  <2>5. g[0] = base
    BY <2>1, <2>3 DEF Course
  <2>6. Goes(m, g)
    BY <2>3, <2>4, <2>5 DEF Course
  <2>7. m \in 0 .. N
    OBVIOUS
  <2> QED
    BY <2>6, <2>7
<1> HIDE DEF T
<1>3. N \in T
  <2>1. \A n \in 0 .. N : n \in T
    BY <1>1, <1>2, TurnByTurn
  <2> QED
    BY <2>1
<1> QED
  BY <1>3 DEF T

(* What a filtered list is, for as many entries as have been looked at.    *)
Filtered(s, T, n, l) ==
  /\ l \in Seq(T)
  /\ \A e : (\E j \in DOMAIN l : l[j] = e) <=> (\E i \in 1 .. n : s[i] = e /\ e \in T)
  /\ l # <<>> => \E i \in 1 .. n : l[1] = s[i] /\ \A j \in 1 .. i - 1 : s[j] \notin T

(* A list is cut down to its entries in the set, the first of them first. *)
LEMMA KeptFilters ==
  ASSUME NEW A, NEW s \in Seq(A), NEW T
  PROVE  Filtered(s, T, Len(s), Kept(s, T))
<1> DEFINE N == Len(s)
           S == Seq(T)
           Body(k) == [i \in 0 .. N |-> IF i = 0 THEN <<>>
                          ELSE IF s[i] \in T THEN Append(k[i - 1], s[i]) ELSE k[i - 1]]
           kept == CHOOSE k : k = Body(k)
           G == [n \in 1 .. N |-> [l \in S |-> IF s[n] \in T THEN Append(l, s[n]) ELSE l]]
<1>1. Kept(s, T) = kept[N]
  BY DEF Kept
<1>2. N \in Nat /\ <<>> \in S /\ G \in [1 .. N -> [S -> S]]
  OBVIOUS
<1>3. PICK f \in [0 .. N -> S] : f[0] = <<>> /\ \A n \in 1 .. N : f[n] = G[n][f[n - 1]]
  <2> DEFINE base == <<>>
  <2>1. base \in S
    OBVIOUS
  <2> HIDE DEF N, S, G, base
  <2>2. \E f : Course(S, base, N, G, f)
    BY <1>2, <2>1, LoopRuns
  <2> QED
    BY <2>2 DEF base, Course
<1>4. f = Body(f)
  <2>1. ASSUME NEW n \in 1 .. N
        PROVE  f[n] = IF s[n] \in T THEN Append(f[n - 1], s[n]) ELSE f[n - 1]
    <3>1. n - 1 \in 0 .. N
      OBVIOUS
    <3>2. f[n - 1] \in S
      BY <3>1
    <3> QED
      BY <1>3, <3>2
  <2>2. \A n \in 0 .. N : n = 0 \/ n \in 1 .. N
    BY <1>2
  <2> HIDE DEF N, S
  <2>3. Body(f)[0] = <<>> /\ \A n \in 1 .. N : Body(f)[n] = f[n]
    BY <2>1, <1>2
  <2> QED
    BY <1>3, <2>1, <2>2, <2>3
<1>5. kept = Body(kept)
  <2> HIDE DEF Body
  <2> QED
    BY <1>4
<1> DEFINE Good == {n \in 0 .. N : Filtered(s, T, n, kept[n])}
<1> HIDE DEF kept
<1>6. 0 \in Good
  <2>1. kept[0] = <<>>
    BY <1>2, <1>5
  <2>2. Filtered(s, T, 0, <<>>)
    BY DEF Filtered
  <2>3. 0 \in 0 .. N
    BY <1>2
  <2> QED
    BY <2>1, <2>2, <2>3
<1>7. ASSUME NEW n \in 1 .. N, n - 1 \in Good PROVE n \in Good
  <2>1. Filtered(s, T, n - 1, kept[n - 1]) /\ n \in 0 .. N
    BY <1>7
  <2>2. kept[n] = IF s[n] \in T THEN Append(kept[n - 1], s[n]) ELSE kept[n - 1]
    <3>1. n \in 0 .. N /\ n # 0
      OBVIOUS
    <3> HIDE DEF N
    <3> QED
      BY <1>5, <3>1
  <2> DEFINE l == kept[n - 1]
  <2> HIDE DEF l
  <2>3. CASE s[n] \in T
    <3> DEFINE m == Append(l, s[n])
    <3>1. l \in Seq(T)
      BY <2>1 DEF Filtered, l
    <3>2. /\ m \in Seq(T) /\ Len(m) = Len(l) + 1 /\ m[Len(l) + 1] = s[n]
          /\ Len(l) \in Nat /\ DOMAIN l = 1 .. Len(l) /\ DOMAIN m = 1 .. Len(l) + 1
          /\ \A j \in 1 .. Len(l) : m[j] = l[j]
      BY <2>3, <3>1
    <3>3. kept[n] = m
      BY <2>2, <2>3 DEF l
    <3> HIDE DEF m
    <3>4. \A e : (\E j \in DOMAIN m : m[j] = e) <=> ((\E j \in DOMAIN l : l[j] = e) \/ e = s[n])
      BY <3>2
    <3>5. \A e : (\E i \in 1 .. n : s[i] = e /\ e \in T)
                   <=> ((\E i \in 1 .. n - 1 : s[i] = e /\ e \in T) \/ e = s[n])
      BY <2>3
    <3>6. \E i \in 1 .. n : m[1] = s[i] /\ \A j \in 1 .. i - 1 : s[j] \notin T
      <4>1. CASE l = <<>>
        <5>1. m[1] = s[n]
          BY <3>2, <4>1
        <5>2. \A j \in 1 .. n - 1 : s[j] \notin T
          BY <2>1, <4>1 DEF Filtered, l
        <5> QED
          BY <5>1, <5>2
      <4>2. CASE l # <<>>
        <5>1. m[1] = l[1]
          BY <3>1, <3>2, <4>2
        <5>2. PICK i \in 1 .. n - 1 : l[1] = s[i] /\ \A j \in 1 .. i - 1 : s[j] \notin T
          BY <2>1, <4>2 DEF Filtered, l
        <5> QED
          BY <5>1, <5>2
      <4> QED
        BY <4>1, <4>2
    <3>7. Filtered(s, T, n, m)
      BY <2>1, <3>2, <3>4, <3>5, <3>6 DEF Filtered, l
    <3> QED
      BY <2>1, <3>3, <3>7
  <2>4. CASE s[n] \notin T
    <3>1. kept[n] = l
      BY <2>2, <2>4 DEF l
    <3>2. \A e : (\E i \in 1 .. n : s[i] = e /\ e \in T)
                   <=> (\E i \in 1 .. n - 1 : s[i] = e /\ e \in T)
      BY <2>4
    <3>3. Filtered(s, T, n, l)
      BY <2>1, <3>2 DEF Filtered, l
    <3> QED
      BY <2>1, <3>1, <3>3
  <2> QED
    BY <2>3, <2>4
<1>8. N \in Good
  <2> HIDE DEF Good
  <2>1. \A n \in 0 .. N : n \in Good
    BY <1>2, <1>6, <1>7, TurnByTurn
  <2> QED
    BY <1>2, <2>1
<1> QED
  BY <1>1, <1>8
-----------------------------------------------------------------------------
Stages == {"fingerprint", "discovery", "audit", "validation"}

Task == [engine : Engines, stage : Stages, caps : SUBSET Capability]

(* A list of tasks has one for engine e that covers c.                     *)
Covers(l, e, c) == \E i \in DOMAIN l : l[i].engine = e /\ c \in l[i].caps

(* The tasks of a stage are for what its engines provide there, one for    *)
(* each engine.                                                            *)
StageTasks(l, s) ==
  /\ l \in Seq(Task)
  /\ \A i \in DOMAIN l :
       /\ l[i].stage = s
       /\ l[i].caps \subseteq {c \in Provides[l[i].engine] : CapStage(c) = s}
  /\ \A i, j \in DOMAIN l : l[i].engine = l[j].engine => i = j

TidyStages == {stages \in [Stages -> Seq(Task)] : \A s \in Stages : StageTasks(stages[s], s)}

(* The stages cover what they did before and cap by the engines of E.      *)
CoverMore(before, after, E, cap) ==
  \A s \in Stages : \A x, c :
    Covers(after[s], x, c)
      <=> Covers(before[s], x, c) \/ (s = CapStage(cap) /\ x \in E /\ c = cap)

(* Every capability belongs to a stage.                                    *)
LEMMA CapabilitiesHaveStages == \A c \in Capability : CapStage(c) \in Stages
BY DEF Capability, CapStage, Stages

(* A function on 1 .. n is a list of n entries.                            *)
LEMMA FunctionIsList ==
  ASSUME NEW S, NEW n \in Nat, NEW f \in [1 .. n -> S]
  PROVE  f \in Seq(S) /\ Len(f) = n
OBVIOUS

(* Covering a capability adds it to the engine's task in its stage.        *)
LEMMA CoverAdds ==
  ASSUME NEW stages \in TidyStages, NEW e \in Engines, NEW cap \in Capability, cap \in Provides[e]
  PROVE  /\ Cover(stages, e, cap) \in TidyStages
         /\ CoverMore(stages, Cover(stages, e, cap), {e}, cap)
<1> DEFINE s == CapStage(cap)
           l == stages[s]
           mine == {i \in DOMAIN l : l[i].engine = e}
           new == [engine |-> e, stage |-> s, caps |-> {cap}]
           longer == Append(l, new)
           richer == [i \in DOMAIN l |->
                        IF i \in mine THEN [l[i] EXCEPT !.caps = @ \cup {cap}] ELSE l[i]]
           result == IF mine = {} THEN longer ELSE richer
           fine == /\ StageTasks(result, s)
                   /\ \A x, c : Covers(result, x, c) <=> Covers(l, x, c) \/ (x = e /\ c = cap)
<1>1. s \in Stages
  BY CapabilitiesHaveStages
<1>2. stages \in [Stages -> Seq(Task)] /\ \A z \in Stages : StageTasks(stages[z], z)
  BY DEF TidyStages
<1>3. Cover(stages, e, cap) = [stages EXCEPT ![s] = result]
  BY <1>1, <1>2 DEF Cover
<1>4. /\ l \in Seq(Task) /\ DOMAIN l = 1 .. Len(l) /\ Len(l) \in Nat
      /\ StageTasks(l, s) /\ \A i \in DOMAIN l : l[i] \in Task
  BY <1>1, <1>2
<1> HIDE DEF s, l
<1>5. ASSUME mine = {} PROVE fine
  <2>1. new \in Task
    BY <1>1 DEF Task
  <2>2. /\ longer \in Seq(Task) /\ DOMAIN longer = 1 .. Len(l) + 1
        /\ longer[Len(l) + 1] = new /\ \A i \in DOMAIN l : longer[i] = l[i]
    BY <1>4, <2>1
  <2>3. new.engine = e /\ new.stage = s /\ new.caps = {cap}
    OBVIOUS
  <2>4. \A i \in DOMAIN longer : i \in DOMAIN l \/ i = Len(l) + 1
    BY <1>4, <2>2
  <2> HIDE DEF new, longer
  <2>5. \A i \in DOMAIN longer :
          /\ longer[i].stage = s
          /\ longer[i].caps \subseteq {c \in Provides[longer[i].engine] : CapStage(c) = s}
    <3>1. {cap} \subseteq {c \in Provides[e] : CapStage(c) = s}
      BY DEF s
    <3> QED
      BY <1>4, <2>2, <2>3, <2>4, <3>1 DEF StageTasks
  <2>6. \A i, j \in DOMAIN longer : longer[i].engine = longer[j].engine => i = j
    BY <1>4, <1>5, <2>2, <2>3, <2>4 DEF StageTasks
  <2>7. \A x, c : Covers(longer, x, c) <=> Covers(l, x, c) \/ (x = e /\ c = cap)
    <3>1. DOMAIN l \subseteq DOMAIN longer /\ Len(l) + 1 \in DOMAIN longer
      BY <1>4, <2>2
    <3> QED
      BY <2>2, <2>3, <2>4, <3>1 DEF Covers
  <2>8. result = longer
    BY <1>5
  <2> HIDE DEF result
  <2> QED
    BY <2>2, <2>5, <2>6, <2>7, <2>8 DEF StageTasks
<1>6. ASSUME mine # {} PROVE fine
  <2>1. DOMAIN richer = 1 .. Len(l) /\ DOMAIN richer = DOMAIN l
    BY <1>4
  <2>2. ASSUME NEW i \in DOMAIN l
        PROVE  /\ richer[i] \in Task /\ richer[i].engine = l[i].engine /\ richer[i].stage = l[i].stage
               /\ richer[i].caps = IF l[i].engine = e THEN l[i].caps \cup {cap} ELSE l[i].caps
    <3>1. CASE i \in mine
      <4>1. richer[i] = [l[i] EXCEPT !.caps = @ \cup {cap}]
        BY <3>1
      <4>2. l[i] \in Task /\ l[i].engine = e
        BY <1>4, <3>1
      <4> HIDE DEF richer
      <4> QED
        BY <4>1, <4>2 DEF Task
    <3>2. CASE i \notin mine
      <4>1. richer[i] = l[i] /\ l[i].engine # e
        BY <3>2
      <4> QED
        BY <1>4, <4>1
    <3> QED
      BY <3>1, <3>2
  <2>3. result = richer
    BY <1>6
  <2> HIDE DEF richer
  <2>4. richer \in Seq(Task)
    <3>1. richer \in [1 .. Len(l) -> Task]
      BY <1>4, <2>1, <2>2 DEF richer
    <3> QED
      BY <1>4, <3>1, FunctionIsList
  <2>5. \A i \in DOMAIN richer :
          /\ richer[i].stage = s
          /\ richer[i].caps \subseteq {c \in Provides[richer[i].engine] : CapStage(c) = s}
    <3>1. {cap} \subseteq {c \in Provides[e] : CapStage(c) = s}
      BY DEF s
    <3>2. \A i \in DOMAIN l : l[i].stage = s
                /\ l[i].caps \subseteq {c \in Provides[l[i].engine] : CapStage(c) = s}
      BY <1>4 DEF StageTasks
    <3>3. ASSUME NEW i \in DOMAIN l
          PROVE  /\ richer[i].stage = s
                 /\ richer[i].caps \subseteq {c \in Provides[richer[i].engine] : CapStage(c) = s}
      <4>1. CASE l[i].engine = e
        <5> DEFINE P == {c \in Provides[e] : CapStage(c) = s}
        <5>1. l[i].caps \subseteq P
          BY <3>2, <4>1
        <5>2. richer[i].caps = l[i].caps \cup {cap} /\ richer[i].engine = e
          BY <2>2, <4>1
        <5>3. richer[i].caps \subseteq P
          BY <3>1, <5>1, <5>2
        <5> QED
          BY <2>2, <3>2, <5>2, <5>3
      <4>2. CASE l[i].engine # e
        BY <2>2, <3>2, <4>2
      <4> QED
        BY <4>1, <4>2
    <3> QED
      BY <2>1, <3>3
  <2>6. \A i, j \in DOMAIN richer : richer[i].engine = richer[j].engine => i = j
    BY <1>4, <2>1, <2>2 DEF StageTasks
  <2>7. \A x, c : Covers(richer, x, c) <=> Covers(l, x, c) \/ (x = e /\ c = cap)
    <3>1. PICK k \in DOMAIN l : l[k].engine = e
      BY <1>6
    <3> QED
      BY <2>1, <2>2, <3>1 DEF Covers
  <2> HIDE DEF result
  <2> QED
    BY <2>3, <2>4, <2>5, <2>6, <2>7 DEF StageTasks
<1> HIDE DEF result
<1>7. /\ StageTasks(result, s) /\ result \in Seq(Task)
      /\ \A x, c : Covers(result, x, c) <=> Covers(l, x, c) \/ (x = e /\ c = cap)
  <2>1. fine
    BY <1>5, <1>6
  <2> QED
    BY <2>1 DEF StageTasks
<1>8. ASSUME NEW z \in Stages
      PROVE  Cover(stages, e, cap)[z] = IF z = s THEN result ELSE stages[z]
  BY <1>2, <1>3
<1>9. Cover(stages, e, cap) \in TidyStages
  <2>1. Cover(stages, e, cap) \in [Stages -> Seq(Task)]
    BY <1>1, <1>2, <1>3, <1>7
  <2> QED
    BY <1>2, <1>7, <1>8, <2>1 DEF TidyStages
<1>10. CoverMore(stages, Cover(stages, e, cap), {e}, cap)
  BY <1>7, <1>8 DEF CoverMore, s, l
<1> QED
  BY <1>9, <1>10

(* The chosen engines, which all provide a capability, cover it.           *)
LEMMA CoverAllAdds ==
  ASSUME NEW stages \in TidyStages, NEW chosen \in Seq(Engines), NEW cap \in Capability,
         \A i \in DOMAIN chosen : cap \in Provides[chosen[i]]
  PROVE  /\ CoverAll(stages, chosen, cap) \in TidyStages
         /\ CoverMore(stages, CoverAll(stages, chosen, cap), ToSet(chosen), cap)
<1> DEFINE N == Len(chosen)
           Body(k) == [i \in 0 .. N |-> IF i = 0 THEN stages ELSE Cover(k[i - 1], chosen[i], cap)]
           covered == CHOOSE k : k = Body(k)
           G == [i \in 1 .. N |-> [st \in TidyStages |-> Cover(st, chosen[i], cap)]]
<1>1. CoverAll(stages, chosen, cap) = covered[N]
  BY DEF CoverAll
<1>2. /\ N \in Nat /\ DOMAIN chosen = 1 .. N
      /\ \A i \in 1 .. N : chosen[i] \in Engines /\ cap \in Provides[chosen[i]]
  OBVIOUS
<1>3. ASSUME NEW i \in 1 .. N, NEW st \in TidyStages
      PROVE  /\ Cover(st, chosen[i], cap) \in TidyStages
             /\ CoverMore(st, Cover(st, chosen[i], cap), {chosen[i]}, cap)
  BY <1>2, CoverAdds
<1>4. PICK f : Course(TidyStages, stages, N, G, f)
  <2>1. G \in [1 .. N -> [TidyStages -> TidyStages]]
    BY <1>3
  <2> HIDE DEF N, G
  <2> QED
    BY <1>2, <2>1, LoopRuns
<1>5. ASSUME NEW i \in 1 .. N PROVE f[i - 1] \in TidyStages /\ f[i] = Cover(f[i - 1], chosen[i], cap)
  <2>1. i - 1 \in 0 .. N
    BY <1>2
  <2>2. f[i - 1] \in TidyStages
    BY <1>4, <2>1 DEF Course
  <2>3. f[i] = G[i][f[i - 1]]
    BY <1>4 DEF Course
  <2> QED
    BY <2>2, <2>3
<1>6. f = Body(f)
  <2>1. \A i \in 0 .. N : i = 0 \/ i \in 1 .. N
    BY <1>2
  <2>2. f[0] = stages /\ f \in [0 .. N -> TidyStages]
    BY <1>4 DEF Course
  <2> HIDE DEF N, G
  <2> QED
    BY <1>2, <1>5, <2>1, <2>2
<1>7. covered = Body(covered)
  <2> HIDE DEF Body
  <2> QED
    BY <1>6
<1> DEFINE Reached(i) == {chosen[j] : j \in 1 .. i}
           Good == {i \in 0 .. N : /\ covered[i] \in TidyStages
                                   /\ CoverMore(stages, covered[i], Reached(i), cap)}
<1> HIDE DEF covered
<1>8. covered[0] = stages /\ \A i \in 1 .. N : covered[i] = Cover(covered[i - 1], chosen[i], cap)
  <2>1. 0 \in 0 .. N /\ \A i \in 1 .. N : i \in 0 .. N /\ i # 0
    BY <1>2
  <2> HIDE DEF N
  <2> QED
    BY <1>7, <2>1
<1> HIDE DEF N, Body
<1>9. 0 \in Good
  <2>1. CoverMore(stages, stages, {}, cap)
    BY DEF CoverMore
  <2>2. Reached(0) = {} /\ 0 \in 0 .. N
    BY <1>2
  <2> QED
    BY <1>8, <2>1, <2>2
<1>10. ASSUME NEW i \in 1 .. N, i - 1 \in Good PROVE i \in Good
  <2>1. covered[i - 1] \in TidyStages /\ CoverMore(stages, covered[i - 1], Reached(i - 1), cap)
    BY <1>10
  <2>2. covered[i] \in TidyStages /\ CoverMore(covered[i - 1], covered[i], {chosen[i]}, cap)
    BY <1>3, <1>8, <2>1
  <2>3. Reached(i) = Reached(i - 1) \cup {chosen[i]} /\ i \in 0 .. N
    BY <1>2
  <2> HIDE DEF Reached
  <2>4. CoverMore(stages, covered[i], Reached(i), cap)
    BY <2>1, <2>2, <2>3 DEF CoverMore
  <2> QED
    BY <2>2, <2>3, <2>4
<1>11. N \in Good
  <2> HIDE DEF Good
  <2>1. \A i \in 0 .. N : i \in Good
    BY <1>2, <1>9, <1>10, TurnByTurn
  <2> QED
    BY <1>2, <2>1
<1>12. Reached(N) = ToSet(chosen)
  BY <1>2 DEF ToSet
<1> QED
  BY <1>1, <1>11, <1>12

-----------------------------------------------------------------------------
(* What the registry may offer: engines that provide what is asked for,    *)
(* the first-party ones before the others.                                 *)
IsOffer(offers) ==
  \A c \in Capability :
    /\ offers[c] \in Seq(Engines)
    /\ \A k \in DOMAIN offers[c] : c \in Provides[offers[c][k]]
    /\ \A k, m \in DOMAIN offers[c] :
         k < m /\ Integration[offers[c][m]] = "native" => Integration[offers[c][k]] = "native"

(* The registry offers such engines.                                       *)
LEMMA RegistryOffers ==
  ASSUME TypeOK PROVE IsOffer([c \in Capability |-> EnginesFor(c)])
<1> SUFFICES ASSUME NEW c \in Capability
             PROVE  /\ EnginesFor(c) \in Seq(Engines)
                    /\ \A k \in DOMAIN EnginesFor(c) : c \in Provides[EnginesFor(c)[k]]
                    /\ \A k, m \in DOMAIN EnginesFor(c) :
                         k < m /\ Integration[EnginesFor(c)[m]] = "native"
                           => Integration[EnginesFor(c)[k]] = "native"
  BY DEF IsOffer
<1> DEFINE matches == {e \in bound : Usable(e) /\ c \in Provides[e]}
           native  == {e \in matches : Integration[e] = "native"}
           own     == Kept(LoadOrder, native)
           others  == Kept(LoadOrder, matches \ native)
<1>1. EnginesFor(c) = own \o others
  BY DEF EnginesFor
<1>2. matches \subseteq Engines
  BY DEF TypeOK
<1>3. own \in Seq(native) /\ others \in Seq(matches \ native)
  BY RegistryAssumption, KeptFilters DEF Filtered
<1> HIDE DEF own, others
<1>4. /\ \A k \in DOMAIN own : own[k] \in native
      /\ \A k \in DOMAIN others : others[k] \in matches \ native
      /\ own \in Seq(Engines) /\ others \in Seq(Engines)
      /\ Len(own) \in Nat /\ DOMAIN own = 1 .. Len(own)
      /\ Len(others) \in Nat /\ DOMAIN others = 1 .. Len(others)
  <2>1. native \subseteq Engines /\ matches \ native \subseteq Engines
    BY <1>2
  <2> HIDE DEF matches, native
  <2> QED
    BY <1>3, <2>1
<1> DEFINE joined == own \o others
<1>5. /\ joined \in Seq(Engines) /\ DOMAIN joined = 1 .. Len(own) + Len(others)
      /\ \A k \in 1 .. Len(own) + Len(others) :
           joined[k] = IF k <= Len(own) THEN own[k] ELSE others[k - Len(own)]
  BY <1>4
<1>6. \A k \in DOMAIN joined :
        /\ joined[k] \in matches
        /\ joined[k] \in native <=> k <= Len(own)
  <2> SUFFICES ASSUME NEW k \in DOMAIN joined
               PROVE  joined[k] \in matches /\ (joined[k] \in native <=> k <= Len(own))
    OBVIOUS
  <2> HIDE DEF joined, matches
  <2>1. CASE k <= Len(own)
    BY <1>4, <1>5, <2>1
  <2>2. CASE ~(k <= Len(own))
    <3>1. k - Len(own) \in DOMAIN others
      BY <1>4, <1>5, <2>2
    <3> QED
      BY <1>4, <1>5, <2>2, <3>1
  <2> QED
    BY <2>1, <2>2
<1> HIDE DEF joined
<1>7. \A k \in DOMAIN joined : c \in Provides[joined[k]]
                             /\ (Integration[joined[k]] = "native" <=> k <= Len(own))
  BY <1>6
<1>8. \A k, m \in DOMAIN joined : k < m /\ m <= Len(own) => k <= Len(own)
  BY <1>4, <1>5
<1>9. EnginesFor(c) = joined
  BY <1>1 DEF joined
<1> QED
  BY <1>5, <1>7, <1>8, <1>9

(* The wanted capabilities are capabilities.                               *)
LEMMA WantedAreCapabilities ==
  ASSUME NEW q \in Requests PROVE Wanted(q) \in Seq(Capability)
<1> DEFINE listed == IF q.caps = <<>> THEN ProfileCaps(q.profile) ELSE q.caps
           allowed == IF q.kind = "unknown" THEN Capability
                      ELSE UniversalCaps \cup KindCaps(q.kind)
<1>1. q.profile \in ScanProfile /\ q.kind \in ApplicationKind /\ q.caps \in Seq(Capability)
  BY SelectionAssumption
<1>2. ProfileCaps(q.profile) \in Seq(Capability)
  <2>1. CASE q.profile = "passive"
    BY <2>1 DEF ProfileCaps, Capability
  <2>2. CASE q.profile = "standard"
    BY <2>2 DEF ProfileCaps, Capability
  <2>3. CASE q.profile = "deep"
    BY <2>3 DEF ProfileCaps, Capability
  <2> QED
    BY <1>1, <2>1, <2>2, <2>3 DEF ScanProfile
<1>3. allowed \subseteq Capability
  BY <1>1 DEF UniversalCaps, KindCaps, Capability, ApplicationKind
<1>4. listed \in Seq(Capability)
  BY <1>1, <1>2
<1>5. Wanted(q) = Kept(listed, allowed)
  BY DEF Wanted
<1> HIDE DEF listed, allowed
<1>6. Kept(listed, allowed) \in Seq(allowed)
  BY <1>4, KeptFilters DEF Filtered
<1> QED
  BY <1>3, <1>5, <1>6

(* The engines chosen of those offered: all that are not excluded, or the  *)
(* first of them.                                                          *)
IsChoice(q, offered, chosen) ==
  /\ chosen \in Seq(Engines)
  /\ ToSet(chosen) \subseteq ToSet(offered) \ q.disabled
  /\ chosen = <<>> <=> ToSet(offered) \ q.disabled = {}
  /\ q.redundant => ToSet(chosen) = ToSet(offered) \ q.disabled
  /\ ~q.redundant /\ chosen # <<>> =>
       /\ Len(chosen) = 1
       /\ \E k \in DOMAIN offered : chosen[1] = offered[k]
                                   /\ \A m \in 1 .. k - 1 : offered[m] \in q.disabled

(* The planner chooses so.                                                 *)
LEMMA ChosenIsChoice ==
  ASSUME NEW q, NEW offered \in Seq(Engines)
  PROVE  IsChoice(q, offered, Chosen(q, offered))
<1> DEFINE T == ToSet(offered) \ q.disabled
           allowed == Kept(offered, T)
           first == <<allowed[1]>>
<1>1. Filtered(offered, T, Len(offered), allowed)
  BY KeptFilters
<1>2. Chosen(q, offered) = IF q.redundant \/ allowed = <<>> THEN allowed ELSE first
  BY DEF Chosen
<1>3. /\ T \subseteq Engines /\ DOMAIN offered = 1 .. Len(offered) /\ Len(offered) \in Nat
      /\ \A i \in 1 .. Len(offered) : offered[i] \in T <=> offered[i] \notin q.disabled
      /\ \A e \in T : \E i \in 1 .. Len(offered) : offered[i] = e
  BY DEF ToSet
<1> HIDE DEF T
<1>4. allowed \in Seq(T) /\ ToSet(allowed) = T
  <2>1. \A e : e \in ToSet(allowed) <=> \E j \in DOMAIN allowed : allowed[j] = e
    BY DEF ToSet
  <2> HIDE DEF allowed
  <2>2. \A e : e \in ToSet(allowed) <=> e \in T
    BY <1>1, <1>3, <2>1 DEF Filtered
  <2> QED
    BY <1>1, <2>2 DEF Filtered
<1> HIDE DEF allowed
<1>5. allowed \in Seq(Engines) /\ (allowed = <<>> <=> T = {})
  <2>1. allowed = <<>> <=> DOMAIN allowed = {}
    BY <1>4
  <2>2. allowed = <<>> <=> ToSet(allowed) = {}
    BY <2>1 DEF ToSet
  <2> QED
    BY <1>3, <1>4, <2>2
<1>6. CASE q.redundant \/ allowed = <<>>
  <2>1. Chosen(q, offered) = allowed
    BY <1>2, <1>6
  <2> QED
    BY <1>4, <1>5, <1>6, <2>1 DEF IsChoice, T
<1>7. CASE ~(q.redundant \/ allowed = <<>>)
  <2>1. Chosen(q, offered) = first /\ ~q.redundant
    BY <1>2, <1>7
  <2>2. allowed[1] \in T
    BY <1>4, <1>7
  <2>3. first \in Seq(Engines) /\ Len(first) = 1 /\ first # <<>> /\ first[1] = allowed[1]
    BY <1>3, <2>2
  <2>4. ToSet(first) = {allowed[1]}
    BY DEF ToSet
  <2>5. \E k \in DOMAIN offered : allowed[1] = offered[k]
                                /\ \A m \in 1 .. k - 1 : offered[m] \in q.disabled
    <3>1. PICK k \in 1 .. Len(offered) :
            allowed[1] = offered[k] /\ \A m \in 1 .. k - 1 : offered[m] \notin T
      BY <1>1, <1>7 DEF Filtered
    <3>2. \A m \in 1 .. k - 1 : m \in 1 .. Len(offered)
      BY <1>3
    <3> QED
      BY <1>3, <3>1, <3>2
  <2> HIDE DEF first
  <2> QED
    BY <1>5, <1>7, <2>1, <2>2, <2>3, <2>4, <2>5 DEF IsChoice, T
<1> QED
  BY <1>6, <1>7

-----------------------------------------------------------------------------
Accounts == [stages : TidyStages, skipped : SUBSET Capability]

(* After n turns the wanted capabilities seen so far are covered by the    *)
(* engines chosen for them, and those that nobody covers are skipped.      *)
Accounted(q, offers, n, acc) ==
  LET seen(c)    == \E m \in 1 .. n : Wanted(q)[m] = c
      chosen(c)  == Chosen(q, offers[c])
  IN  /\ \A c : c \in acc.skipped <=> seen(c) /\ chosen(c) = <<>>
      /\ \A s \in Stages : \A x, c :
           Covers(acc.stages[s], x, c) <=> seen(c) /\ s = CapStage(c) /\ x \in ToSet(chosen(c))

(* One turn of the planner's loop.                                         *)
LEMMA TurnAccounts ==
  ASSUME NEW acc \in Accounts, NEW chosen \in Seq(Engines), NEW cap \in Capability,
         \A i \in DOMAIN chosen : cap \in Provides[chosen[i]]
  PROVE  /\ Turn(acc, chosen, cap) \in Accounts
         /\ Turn(acc, chosen, cap).skipped = IF chosen = <<>> THEN acc.skipped \cup {cap}
                                             ELSE acc.skipped
         /\ CoverMore(acc.stages, Turn(acc, chosen, cap).stages, ToSet(chosen), cap)
<1>1. acc.stages \in TidyStages /\ acc.skipped \in SUBSET Capability
  BY DEF Accounts
<1>2. CASE chosen = <<>>
  <2>1. Turn(acc, chosen, cap) = [acc EXCEPT !.skipped = @ \cup {cap}]
    BY <1>2 DEF Turn
  <2>2. /\ Turn(acc, chosen, cap) \in Accounts
        /\ Turn(acc, chosen, cap).skipped = acc.skipped \cup {cap}
        /\ Turn(acc, chosen, cap).stages = acc.stages
    BY <1>1, <2>1 DEF Accounts
  <2>3. ToSet(chosen) = {}
    BY <1>2 DEF ToSet
  <2>4. CoverMore(acc.stages, acc.stages, {}, cap)
    BY DEF CoverMore
  <2> QED
    BY <1>2, <2>2, <2>3, <2>4
<1>3. CASE chosen # <<>>
  <2> DEFINE covered == CoverAll(acc.stages, chosen, cap)
  <2>1. covered \in TidyStages /\ CoverMore(acc.stages, covered, ToSet(chosen), cap)
    BY <1>1, CoverAllAdds
  <2>2. Turn(acc, chosen, cap) = [acc EXCEPT !.stages = covered]
    BY <1>3 DEF Turn
  <2> HIDE DEF covered
  <2>3. /\ Turn(acc, chosen, cap) \in Accounts
        /\ Turn(acc, chosen, cap).skipped = acc.skipped
        /\ Turn(acc, chosen, cap).stages = covered
    BY <1>1, <2>1, <2>2 DEF Accounts
  <2> QED
    BY <1>3, <2>1, <2>3
<1> QED
  BY <1>2, <1>3

(* The planner's loop over what is wanted accounts for all of it.          *)
LEMMA LoopAccounts ==
  ASSUME NEW q \in Requests, NEW offers, IsOffer(offers)
  PROVE  \E end \in Accounts :
           /\ Accounted(q, offers, Len(Wanted(q)), end)
           /\ MakePlan(q, offers) =
                [tasks   |-> end.stages["fingerprint"] \o end.stages["discovery"]
                               \o end.stages["audit"] \o end.stages["validation"],
                 skipped |-> end.skipped]
<1> DEFINE wanted == Wanted(q)
           N == Len(wanted)
           start == [stages |-> NoTasks, skipped |-> {}]
           chosen(n) == Chosen(q, offers[wanted[n]])
           Body(k) == [n \in 0 .. N |-> IF n = 0 THEN start ELSE Turn(k[n - 1], chosen(n), wanted[n])]
           done == CHOOSE k : k = Body(k)
           G == [n \in 1 .. N |-> [acc \in Accounts |-> Turn(acc, chosen(n), wanted[n])]]
           end == done[N]
<1>1. MakePlan(q, offers) =
        [tasks   |-> end.stages["fingerprint"] \o end.stages["discovery"]
                       \o end.stages["audit"] \o end.stages["validation"],
         skipped |-> end.skipped]
  BY DEF MakePlan, StageOrder
<1>2. N \in Nat /\ DOMAIN wanted = 1 .. N /\ \A n \in 1 .. N : wanted[n] \in Capability
  <2>1. wanted \in Seq(Capability)
    BY WantedAreCapabilities
  <2> HIDE DEF wanted
  <2> QED
    BY <2>1
<1> HIDE DEF wanted
<1>3. ASSUME NEW n \in 1 .. N
      PROVE  IsChoice(q, offers[wanted[n]], chosen(n))
  <2>1. offers[wanted[n]] \in Seq(Engines)
    BY <1>2 DEF IsOffer
  <2> QED
    BY <2>1, ChosenIsChoice
<1>4. ASSUME NEW n \in 1 .. N
      PROVE  chosen(n) \in Seq(Engines) /\ \A i \in DOMAIN chosen(n) : wanted[n] \in Provides[chosen(n)[i]]
  <2> DEFINE C == chosen(n)
             offered == offers[wanted[n]]
  <2>1. IsChoice(q, offered, C)
    BY <1>3
  <2>2. \A k \in DOMAIN offered : wanted[n] \in Provides[offered[k]]
    BY <1>2 DEF IsOffer
  <2> HIDE DEF C, offered
  <2>3. ASSUME NEW i \in DOMAIN C PROVE wanted[n] \in Provides[C[i]]
    <3>1. C[i] \in ToSet(C)
      BY DEF ToSet
    <3>2. C[i] \in ToSet(offered)
      BY <2>1, <3>1 DEF IsChoice
    <3> QED
      BY <2>2, <3>2 DEF ToSet
  <2>4. C \in Seq(Engines) /\ \A i \in DOMAIN C : wanted[n] \in Provides[C[i]]
    BY <2>1, <2>3 DEF IsChoice
  <2> QED
    BY <2>4 DEF C
<1>5. /\ start \in Accounts /\ start.skipped = {}
      /\ \A s \in Stages : start.stages[s] = <<>>
  <2>1. NoTasks = [s \in Stages |-> <<>>]
    BY DEF NoTasks, StageOrder, Stages
  <2>2. <<>> \in Seq(Task) /\ \A s \in Stages : StageTasks(<<>>, s)
    BY DEF StageTasks
  <2>3. NoTasks \in TidyStages
    BY <2>1, <2>2 DEF TidyStages
  <2> QED
    BY <2>1, <2>3 DEF Accounts
<1> HIDE DEF start, chosen
<1>6. ASSUME NEW n \in 1 .. N, NEW acc \in Accounts
      PROVE  Turn(acc, chosen(n), wanted[n]) \in Accounts
  BY <1>2, <1>4, TurnAccounts
<1>7. PICK f : Course(Accounts, start, N, G, f)
  <2>1. G \in [1 .. N -> [Accounts -> Accounts]]
    BY <1>6
  <2> HIDE DEF N, G
  <2> QED
    BY <1>2, <1>5, <2>1, LoopRuns
<1>8. ASSUME NEW n \in 1 .. N PROVE f[n] = Turn(f[n - 1], chosen(n), wanted[n])
  <2>1. n - 1 \in 0 .. N
    BY <1>2
  <2>2. f[n - 1] \in Accounts
    BY <1>7, <2>1 DEF Course
  <2>3. f[n] = G[n][f[n - 1]]
    BY <1>7 DEF Course
  <2> QED
    BY <2>2, <2>3
<1>9. f = Body(f)
  <2>1. \A n \in 0 .. N : n = 0 \/ n \in 1 .. N
    BY <1>2
  <2>2. f[0] = start /\ f \in [0 .. N -> Accounts]
    BY <1>7 DEF Course
  <2> HIDE DEF N, G
  <2> QED
    BY <1>2, <1>8, <2>1, <2>2
<1>10. done = Body(done)
  <2> HIDE DEF Body
  <2> QED
    BY <1>9
<1> HIDE DEF done
<1>11. done[0] = start /\ \A n \in 1 .. N : done[n] = Turn(done[n - 1], chosen(n), wanted[n])
  <2>1. 0 \in 0 .. N /\ \A n \in 1 .. N : n \in 0 .. N /\ n # 0
    BY <1>2
  <2> HIDE DEF N
  <2> QED
    BY <1>10, <2>1
<1> DEFINE Good == {n \in 0 .. N : done[n] \in Accounts /\ Accounted(q, offers, n, done[n])}
<1> HIDE DEF N, Body
<1>12. 0 \in Good
  <2>1. Accounted(q, offers, 0, start)
    BY <1>5 DEF Accounted, Covers
  <2> QED
    BY <1>2, <1>5, <1>11, <2>1
<1>13. ASSUME NEW n \in 1 .. N, n - 1 \in Good PROVE n \in Good
  <2> DEFINE cap == wanted[n]
             C == chosen(n)
             old == done[n - 1]
             new == done[n]
  <2>1. old \in Accounts /\ Accounted(q, offers, n - 1, old)
    BY <1>13
  <2>2. /\ new \in Accounts
        /\ new.skipped = IF C = <<>> THEN old.skipped \cup {cap} ELSE old.skipped
        /\ CoverMore(old.stages, new.stages, ToSet(C), cap)
    <3>1. new = Turn(old, C, cap)
      BY <1>11
    <3>2. cap \in Capability /\ C \in Seq(Engines) /\ \A i \in DOMAIN C : cap \in Provides[C[i]]
      BY <1>2, <1>4
    <3> HIDE DEF new, old, C, cap
    <3> QED
      BY <2>1, <3>1, <3>2, TurnAccounts
  <2>3. \A c : (\E m \in 1 .. n : wanted[m] = c) <=> (\E m \in 1 .. n - 1 : wanted[m] = c) \/ c = cap
    BY <1>2
  <2>4. C = Chosen(q, offers[cap])
    BY DEF chosen
  <2> HIDE DEF C, old, new, cap
  <2>5. \A c : c \in new.skipped
                 <=> (\E m \in 1 .. n : wanted[m] = c) /\ Chosen(q, offers[c]) = <<>>
    BY <2>1, <2>2, <2>3, <2>4 DEF Accounted, wanted
  <2>6. \A s \in Stages : \A x, c :
          Covers(new.stages[s], x, c) <=> /\ \E m \in 1 .. n : wanted[m] = c
                                          /\ s = CapStage(c) /\ x \in ToSet(Chosen(q, offers[c]))
    <3> TAKE s \in Stages
    <3> TAKE x, c
    <3>1. Covers(old.stages[s], x, c)
            <=> /\ \E m \in 1 .. n - 1 : wanted[m] = c
                /\ s = CapStage(c) /\ x \in ToSet(Chosen(q, offers[c]))
      BY <2>1 DEF Accounted, wanted
    <3>2. Covers(new.stages[s], x, c)
            <=> Covers(old.stages[s], x, c) \/ (s = CapStage(cap) /\ x \in ToSet(C) /\ c = cap)
      BY <2>2 DEF CoverMore
    <3>3. CASE c = cap
      BY <2>3, <2>4, <3>1, <3>2, <3>3
    <3>4. CASE c # cap
      BY <2>3, <3>1, <3>2, <3>4
    <3> QED
      BY <3>3, <3>4
  <2>7. Accounted(q, offers, n, new)
    BY <2>5, <2>6 DEF Accounted, wanted
  <2>8. n \in 0 .. N
    BY <1>2
  <2> QED
    BY <2>2, <2>7, <2>8 DEF new
<1>14. N \in Good
  <2> HIDE DEF Good
  <2>1. \A n \in 0 .. N : n \in Good
    BY <1>2, <1>12, <1>13, TurnByTurn
  <2> QED
    BY <1>2, <2>1
<1>15. end \in Accounts /\ Accounted(q, offers, Len(Wanted(q)), end)
  BY <1>14 DEF N, wanted
<1> HIDE DEF end
<1> QED
  BY <1>1, <1>15

-----------------------------------------------------------------------------
(* A list of tasks in the order of the stages from lo to hi, for what      *)
(* their engines provide there, one for each engine in each stage.         *)
Place(s) == CASE s = "fingerprint" -> 1 [] s = "discovery" -> 2
              [] s = "audit" -> 3 [] s = "validation" -> 4

InStageOrder(l, lo, hi) ==
  /\ l \in Seq(Task)
  /\ \A i \in DOMAIN l :
       /\ Place(l[i].stage) \in lo .. hi
       /\ l[i].caps \subseteq {c \in Provides[l[i].engine] : CapStage(c) = l[i].stage}
  /\ \A i, j \in DOMAIN l : i < j =>
       /\ Place(l[i].stage) <= Place(l[j].stage)
       /\ l[i].stage = l[j].stage => l[i].engine # l[j].engine

(* The tasks of one stage are in order.                                    *)
LEMMA StageIsInOrder ==
  ASSUME NEW s \in Stages, NEW l, StageTasks(l, s)
  PROVE  InStageOrder(l, Place(s), Place(s))
<1>1. Place(s) \in 1 .. 4
  BY DEF Stages, Place
<1>2. \A i \in DOMAIN l : l[i].stage = s
  BY DEF StageTasks
<1>3. l \in Seq(Task)
  BY DEF StageTasks
<1>4. \A i, j \in DOMAIN l : i < j => i # j
  BY <1>3
<1> QED
  BY <1>1, <1>2, <1>4 DEF StageTasks, InStageOrder

(* Tasks of earlier stages and tasks of later ones, joined.                *)
LEMMA JoinInOrder ==
  ASSUME NEW lo \in Nat, NEW mid \in Nat, NEW up \in Nat, NEW hi \in Nat, lo <= mid, mid < up, up <= hi,
         NEW k, InStageOrder(k, lo, mid), NEW l, InStageOrder(l, up, hi)
  PROVE  /\ InStageOrder(k \o l, lo, hi)
         /\ \A x, c : Covers(k \o l, x, c) <=> Covers(k, x, c) \/ Covers(l, x, c)
<1> DEFINE m == k \o l
           n == Len(k)
<1>1. /\ k \in Seq(Task) /\ l \in Seq(Task)
      /\ n \in Nat /\ Len(l) \in Nat /\ DOMAIN k = 1 .. n /\ DOMAIN l = 1 .. Len(l)
  BY DEF InStageOrder
<1>2. /\ m \in Seq(Task) /\ DOMAIN m = 1 .. n + Len(l)
      /\ \A i \in 1 .. n : m[i] = k[i]
      /\ \A i \in 1 .. Len(l) : m[n + i] = l[i]
  BY <1>1
<1>3. ASSUME NEW i \in DOMAIN m
      PROVE  \/ i \in DOMAIN k /\ m[i] = k[i]
             \/ i > n /\ i - n \in DOMAIN l /\ m[i] = l[i - n]
  <2>1. CASE i <= n
    BY <1>1, <1>2, <2>1
  <2>2. CASE i > n
    <3>1. i - n \in 1 .. Len(l) /\ n + (i - n) = i
      BY <1>1, <1>2, <2>2
    <3> QED
      BY <1>1, <1>2, <2>2, <3>1
  <2> QED
    BY <1>1, <1>2, <2>1, <2>2
<1> HIDE DEF m, n
<1>4. \A i \in DOMAIN k : Place(k[i].stage) \in lo .. mid
  BY DEF InStageOrder
<1>5. \A i \in DOMAIN l : Place(l[i].stage) \in up .. hi
  BY DEF InStageOrder
<1>6. ASSUME NEW i \in DOMAIN m
      PROVE  /\ Place(m[i].stage) \in lo .. hi
             /\ m[i].caps \subseteq {c \in Provides[m[i].engine] : CapStage(c) = m[i].stage}
  <2>1. CASE i \in DOMAIN k /\ m[i] = k[i]
    BY <1>4, <2>1 DEF InStageOrder
  <2>2. CASE i - n \in DOMAIN l /\ m[i] = l[i - n]
    BY <1>5, <2>2 DEF InStageOrder
  <2> QED
    BY <1>3, <2>1, <2>2
<1>7. ASSUME NEW i \in DOMAIN m, NEW j \in DOMAIN m, i < j
      PROVE  /\ Place(m[i].stage) <= Place(m[j].stage)
             /\ m[i].stage = m[j].stage => m[i].engine # m[j].engine
  <2>1. CASE /\ i \in DOMAIN k /\ m[i] = k[i]
             /\ j \in DOMAIN k /\ m[j] = k[j]
    BY <1>7, <2>1 DEF InStageOrder
  <2>2. CASE /\ i \in DOMAIN k /\ m[i] = k[i]
             /\ j - n \in DOMAIN l /\ m[j] = l[j - n]
    <3>1. Place(m[i].stage) \in lo .. mid /\ Place(m[j].stage) \in up .. hi
      BY <1>4, <1>5, <2>2
    <3> QED
      BY <3>1
  <2>3. CASE /\ i - n \in DOMAIN l /\ m[i] = l[i - n]
             /\ j - n \in DOMAIN l /\ m[j] = l[j - n]
    <3>1. i - n < j - n
      BY <1>1, <1>2, <1>7
    <3> QED
      BY <2>3, <3>1 DEF InStageOrder
  <2>4. CASE i > n /\ j \in DOMAIN k
    BY <1>1, <1>2, <1>7, <2>4
  <2> QED
    BY <1>3, <2>1, <2>2, <2>3, <2>4
<1>8. InStageOrder(m, lo, hi)
  BY <1>2, <1>6, <1>7 DEF InStageOrder
<1>9. ASSUME NEW x, NEW c PROVE Covers(m, x, c) <=> Covers(k, x, c) \/ Covers(l, x, c)
  <2>1. Covers(m, x, c) => Covers(k, x, c) \/ Covers(l, x, c)
    BY <1>3 DEF Covers
  <2>2. Covers(k, x, c) => Covers(m, x, c)
    <3>1. \A i \in DOMAIN k : i \in DOMAIN m /\ m[i] = k[i]
      BY <1>1, <1>2
    <3> QED
      BY <3>1 DEF Covers
  <2>3. Covers(l, x, c) => Covers(m, x, c)
    <3>1. \A i \in DOMAIN l : n + i \in DOMAIN m /\ m[n + i] = l[i]
      BY <1>1, <1>2
    <3> QED
      BY <3>1 DEF Covers
  <2> QED
    BY <2>1, <2>2, <2>3
<1> QED
  BY <1>8, <1>9 DEF m

-----------------------------------------------------------------------------
Wants(q, c) == \E m \in DOMAIN Wanted(q) : Wanted(q)[m] = c

(* A plan covers what is wanted by the engines chosen for it, in order,    *)
(* and skips what has none.                                                *)
IsPlan(q, offers, made) ==
  /\ InStageOrder(made.tasks, 1, 4)
  /\ \A x, c : Covers(made.tasks, x, c) <=> Wants(q, c) /\ x \in ToSet(Chosen(q, offers[c]))
  /\ \A c : c \in made.skipped <=> Wants(q, c) /\ Chosen(q, offers[c]) = <<>>

(* The planner makes such a plan.                                          *)
LEMMA PlannerPlans ==
  ASSUME NEW q \in Requests, NEW offers, IsOffer(offers)
  PROVE  IsPlan(q, offers, MakePlan(q, offers))
<1> DEFINE made == MakePlan(q, offers)
<1>1. PICK end \in Accounts :
        /\ Accounted(q, offers, Len(Wanted(q)), end)
        /\ made = [tasks   |-> end.stages["fingerprint"] \o end.stages["discovery"]
                                 \o end.stages["audit"] \o end.stages["validation"],
                   skipped |-> end.skipped]
  BY LoopAccounts
<1>2. Wanted(q) \in Seq(Capability)
  BY WantedAreCapabilities
<1> HIDE DEF made
<1>3. \A c : (\E m \in 1 .. Len(Wanted(q)) : Wanted(q)[m] = c) <=> Wants(q, c)
  BY <1>2 DEF Wants
<1>4. \A c : Wants(q, c) => CapStage(c) \in Stages
  BY <1>2, CapabilitiesHaveStages DEF Wants
<1> DEFINE A == end.stages["fingerprint"]
           B == end.stages["discovery"]
           C == end.stages["audit"]
           D == end.stages["validation"]
<1>5. /\ InStageOrder(A, 1, 1) /\ InStageOrder(B, 2, 2)
      /\ InStageOrder(C, 3, 3) /\ InStageOrder(D, 4, 4)
  <2>1. \A s \in Stages : StageTasks(end.stages[s], s)
    BY DEF Accounts, TidyStages
  <2>2. \A s \in Stages : InStageOrder(end.stages[s], Place(s), Place(s))
    BY <2>1, StageIsInOrder
  <2>3. /\ Place("fingerprint") = 1 /\ Place("discovery") = 2
        /\ Place("audit") = 3 /\ Place("validation") = 4
    BY DEF Place
  <2>4. {"fingerprint", "discovery", "audit", "validation"} \subseteq Stages
    BY DEF Stages
  <2> QED
    BY <2>2, <2>3, <2>4
<1> DEFINE E == A \o B
           F == E \o C
           T == F \o D
<1>6. made.tasks = T /\ made.skipped = end.skipped
  BY <1>1
<1>7. ASSUME NEW x, NEW c
      PROVE  (Covers(A, x, c) \/ Covers(B, x, c) \/ Covers(C, x, c) \/ Covers(D, x, c))
               <=> \E s \in Stages : Covers(end.stages[s], x, c)
  BY DEF Stages
<1> HIDE DEF A, B, C, D
<1>8. InStageOrder(E, 1, 2) /\ \A x, c : Covers(E, x, c) <=> Covers(A, x, c) \/ Covers(B, x, c)
  BY <1>5, JoinInOrder
<1> HIDE DEF E
<1>9. InStageOrder(F, 1, 3) /\ \A x, c : Covers(F, x, c) <=> Covers(E, x, c) \/ Covers(C, x, c)
  BY <1>5, <1>8, JoinInOrder
<1> HIDE DEF F
<1>10. InStageOrder(T, 1, 4) /\ \A x, c : Covers(T, x, c) <=> Covers(F, x, c) \/ Covers(D, x, c)
  BY <1>5, <1>9, JoinInOrder
<1> HIDE DEF T
<1>11. ASSUME NEW x, NEW c
       PROVE  Covers(T, x, c) <=> Wants(q, c) /\ x \in ToSet(Chosen(q, offers[c]))
  <2>1. Covers(T, x, c) <=> \E s \in Stages : Covers(end.stages[s], x, c)
    BY <1>7, <1>8, <1>9, <1>10
  <2>2. \A s \in Stages : Covers(end.stages[s], x, c)
          <=> Wants(q, c) /\ s = CapStage(c) /\ x \in ToSet(Chosen(q, offers[c]))
    BY <1>1, <1>3 DEF Accounted
  <2> QED
    BY <1>4, <2>1, <2>2
<1>12. \A c : c \in end.skipped <=> Wants(q, c) /\ Chosen(q, offers[c]) = <<>>
  BY <1>1, <1>3 DEF Accounted
<1>13. IsPlan(q, offers, made)
  BY <1>6, <1>10, <1>11, <1>12 DEF IsPlan
<1> QED
  BY <1>13 DEF made

(* The plan of a scan is the one made of its request and of what was       *)
(* offered when it was made, whatever changed in the registry since.       *)
PlanInv ==
  IF idx = 0 THEN plan = NoPlan
  ELSE request \in Requests /\ IsOffer(offer) /\ IsPlan(request, offer, plan)

(* Such a plan accounts for what is wanted.                                *)
LEMMA PlanAccountsForAll ==
  ASSUME request \in Requests, IsOffer(offer), IsPlan(request, offer, plan)
  PROVE  CapabilitiesAccounted
<1> SUFFICES ASSUME NEW i \in DOMAIN Wanted(request)
             PROVE  LET cap       == Wanted(request)[i]
                        offered   == {offer[cap][k] : k \in DOMAIN offer[cap]} \ request.disabled
                        providers == {t \in DOMAIN plan.tasks : cap \in plan.tasks[t].caps}
                    IN  /\ (cap \in plan.skipped) = (offered = {})
                        /\ {plan.tasks[t].engine : t \in providers} \subseteq offered
                        /\ Cardinality(providers) =
                             IF request.redundant THEN Cardinality(offered)
                             ELSE IF offered = {} THEN 0 ELSE 1
  BY DEF CapabilitiesAccounted
<1> DEFINE cap       == Wanted(request)[i]
           offered   == {offer[cap][k] : k \in DOMAIN offer[cap]} \ request.disabled
           providers == {t \in DOMAIN plan.tasks : cap \in plan.tasks[t].caps}
           chosen    == Chosen(request, offer[cap])
           engines   == ToSet(chosen)
           engineOf  == [t \in providers |-> plan.tasks[t].engine]
<1>1. cap \in Capability /\ Wants(request, cap)
  <2>1. Wanted(request) \in Seq(Capability)
    BY WantedAreCapabilities
  <2> QED
    BY <2>1 DEF Wants
<1>2. ToSet(offer[cap]) \ request.disabled = offered
  BY DEF ToSet
<1>3. IsChoice(request, offer[cap], chosen)
  BY <1>1, ChosenIsChoice DEF IsOffer
<1> HIDE DEF cap, offered, chosen
<1>4. (cap \in plan.skipped) = (offered = {})
  BY <1>1, <1>2, <1>3 DEF IsPlan, IsChoice, chosen
<1>5. \A x : x \in engines <=> \E t \in providers : plan.tasks[t].engine = x
  <2>1. \A x : Covers(plan.tasks, x, cap) <=> x \in engines
    BY <1>1 DEF IsPlan, chosen
  <2> QED
    BY <2>1 DEF Covers
<1>6. ASSUME NEW t \in providers, NEW u \in providers, plan.tasks[t].engine = plan.tasks[u].engine
      PROVE  t = u
  <2>1. plan.tasks \in Seq(Task) /\ t \in DOMAIN plan.tasks /\ u \in DOMAIN plan.tasks
    BY DEF IsPlan, InStageOrder
  <2>2. plan.tasks[t].stage = CapStage(cap) /\ plan.tasks[u].stage = CapStage(cap)
    BY <2>1 DEF IsPlan, InStageOrder
  <2>3. ~(t < u) /\ ~(u < t)
    BY <1>6, <2>1, <2>2 DEF IsPlan, InStageOrder
  <2> QED
    BY <2>1, <2>3
<1> HIDE DEF providers, engines
<1>7. ExistsBijection(providers, engines)
  <2>1. engineOf \in [providers -> engines]
    BY <1>5
  <2>2. \A t, u \in providers : engineOf[t] = engineOf[u] => t = u
    BY <1>6
  <2>3. \A x \in engines : \E t \in providers : engineOf[t] = x
    BY <1>5
  <2> HIDE DEF engineOf
  <2>4. engineOf \in Bijection(providers, engines)
    BY <2>1, <2>2, <2>3 DEF Bijection, Injection, Surjection, IsInjective
  <2> QED
    BY <2>4 DEF ExistsBijection
<1>8. IsFiniteSet(providers)
  <2> DEFINE n == Len(plan.tasks)
  <2>1. n \in Nat /\ DOMAIN plan.tasks = 1 .. n
    BY DEF IsPlan, InStageOrder
  <2> HIDE DEF n
  <2>2. providers \subseteq 1 .. n
    BY <2>1 DEF providers
  <2>3. IsFiniteSet(1 .. n)
    BY <2>1, FS_Interval
  <2> QED
    BY <2>2, <2>3, FS_Subset
<1>9. Cardinality(providers) = Cardinality(engines)
  BY <1>7, <1>8, FS_Bijection
<1>10. engines \subseteq offered
  BY <1>2, <1>3 DEF IsChoice, engines
<1>11. Cardinality(engines) = IF request.redundant THEN Cardinality(offered)
                              ELSE IF offered = {} THEN 0 ELSE 1
  <2>1. CASE request.redundant
    BY <1>2, <1>3, <2>1 DEF IsChoice, engines
  <2>2. CASE ~request.redundant /\ offered = {}
    <3>1. engines = {}
      BY <1>10, <2>2
    <3> QED
      BY <2>2, <3>1, FS_EmptySet
  <2>3. CASE ~request.redundant /\ offered # {}
    <3>1. Len(chosen) = 1 /\ chosen \in Seq(Engines)
      BY <1>2, <1>3, <2>3 DEF IsChoice
    <3>2. engines = {chosen[1]}
      BY <3>1 DEF engines, ToSet
    <3> QED
      BY <2>3, <3>2, FS_Singleton
  <2> QED
    BY <2>1, <2>2, <2>3
<1>12. {plan.tasks[t].engine : t \in providers} \subseteq offered
  BY <1>5, <1>10
<1> QED
  BY <1>4, <1>9, <1>11, <1>12 DEF providers, offered, cap

(* Its tasks are merged and in the order of the stages.                    *)
LEMMA PlanIsMerged ==
  ASSUME IsPlan(request, offer, plan) PROVE TasksMergedInOrder
<1> SUFFICES ASSUME NEW t \in DOMAIN plan.tasks, NEW u \in DOMAIN plan.tasks
             PROVE  LET a == plan.tasks[t]
                        b == plan.tasks[u]
                    IN  /\ a.caps \subseteq {c \in Provides[a.engine] : CapStage(c) = a.stage}
                        /\ t < u => /\ <<a.engine, a.stage>> # <<b.engine, b.stage>>
                                    /\ \E i, j \in DOMAIN StageOrder :
                                         i <= j /\ StageOrder[i] = a.stage /\ StageOrder[j] = b.stage
  BY DEF TasksMergedInOrder
<1> DEFINE a == plan.tasks[t]
           b == plan.tasks[u]
<1>1. /\ a \in Task /\ b \in Task
      /\ a.caps \subseteq {c \in Provides[a.engine] : CapStage(c) = a.stage}
      /\ t < u => /\ Place(a.stage) <= Place(b.stage)
                  /\ a.stage = b.stage => a.engine # b.engine
  BY DEF IsPlan, InStageOrder
<1>2. a.stage \in Stages /\ b.stage \in Stages
  BY <1>1 DEF Task
<1>3. \A s \in Stages : Place(s) \in DOMAIN StageOrder /\ StageOrder[Place(s)] = s
  BY DEF Stages, Place, StageOrder
<1> HIDE DEF a, b
<1>4. t < u => <<a.engine, a.stage>> # <<b.engine, b.stage>>
  BY <1>1
<1>5. t < u => \E i, j \in DOMAIN StageOrder :
                 i <= j /\ StageOrder[i] = a.stage /\ StageOrder[j] = b.stage
  BY <1>1, <1>2, <1>3
<1> QED
  BY <1>1, <1>4, <1>5 DEF a, b

(* It prefers first-party engines.                                         *)
LEMMA PlanPrefersFirstParty ==
  ASSUME request \in Requests, IsOffer(offer), IsPlan(request, offer, plan)
  PROVE  FirstPartyFirst
<1> SUFFICES ASSUME ~request.redundant, NEW t \in DOMAIN plan.tasks,
                    NEW cap \in plan.tasks[t].caps,
                    Integration[plan.tasks[t].engine] # "native",
                    NEW k \in DOMAIN offer[cap], Integration[offer[cap][k]] = "native"
             PROVE  offer[cap][k] \in request.disabled
  BY DEF FirstPartyFirst
<1> DEFINE e == plan.tasks[t].engine
           offered == offer[cap]
           chosen == Chosen(request, offered)
<1>1. Wants(request, cap) /\ e \in ToSet(chosen)
  <2>1. Covers(plan.tasks, e, cap)
    BY DEF Covers
  <2> QED
    BY <2>1 DEF IsPlan
<1>2. cap \in Capability
  <2>1. Wanted(request) \in Seq(Capability)
    BY WantedAreCapabilities
  <2> QED
    BY <1>1, <2>1 DEF Wants
<1>3. /\ offered \in Seq(Engines)
      /\ \A i, j \in DOMAIN offered :
           i < j /\ Integration[offered[j]] = "native" => Integration[offered[i]] = "native"
  BY <1>2 DEF IsOffer
<1>4. IsChoice(request, offered, chosen)
  BY <1>3, ChosenIsChoice
<1>5. k \in DOMAIN offered /\ Integration[offered[k]] = "native" /\ Integration[e] # "native"
  OBVIOUS
<1> HIDE DEF e, offered, chosen
<1>6. chosen # <<>>
  BY <1>1 DEF ToSet
<1>7. PICK i \in DOMAIN offered : chosen[1] = offered[i]
                                 /\ \A m \in 1 .. i - 1 : offered[m] \in request.disabled
  BY <1>4, <1>6 DEF IsChoice
<1>8. e = offered[i]
  <2>1. Len(chosen) = 1 /\ chosen \in Seq(Engines)
    BY <1>4, <1>6 DEF IsChoice
  <2> QED
    BY <1>1, <1>7, <2>1 DEF ToSet
<1>9. i # k /\ ~(i < k)
  BY <1>3, <1>5, <1>8
<1>10. k \in 1 .. i - 1
  BY <1>3, <1>5, <1>7, <1>9
<1>11. offered[k] \in request.disabled
  BY <1>7, <1>10
<1> QED
  BY <1>11 DEF offered

(* A plan stays as it was made until the scan is over.                     *)
LEMMA PlanInvHolds == Spec => []PlanInv
<1>1. Init => PlanInv
  BY DEF Init, PlanInv
<1>2. SelectionInv /\ PlanInv /\ [Next]_vars => PlanInv'
  <2> SUFFICES ASSUME SelectionInv, PlanInv, [Next]_vars PROVE PlanInv'
    OBVIOUS
  <2>1. TypeOK
    BY DEF SelectionInv
  <2>2. CASE UNCHANGED <<request, plan, idx, offer>>
    BY <2>2 DEF PlanInv
  <2>3. CASE BindNative \/ Detect \/ BindOss
    BY <2>2, <2>3 DEF BindNative, Detect, BindOss, scanVars
  <2>4. CASE ChangeEnabled \/ ChangeBound \/ RecordApproval
    BY <2>2, <2>4 DEF ChangeEnabled, ChangeBound, RecordApproval, Change, scanVars
  <2>5. CASE PlanScan
    <3>1. PICK q \in Requests : request' = q /\ plan' = MakePlan(q, offer')
      BY <2>5 DEF PlanScan
    <3>2. IsOffer(offer') /\ idx' = 1
      BY <2>1, <2>5, RegistryOffers DEF PlanScan
    <3>3. IsPlan(q, offer', plan')
      BY <3>1, <3>2, PlannerPlans
    <3> QED
      BY <3>1, <3>2, <3>3 DEF PlanInv
  <2>6. CASE StartTask \/ SkipTask
    <3>1. idx \in Nat /\ idx # 0 /\ idx' = idx + 1 /\ UNCHANGED <<request, plan, offer>>
      BY <2>1, <2>6 DEF StartTask, SkipTask, AtTask, TypeOK
    <3> QED
      BY <3>1 DEF PlanInv
  <2>7. CASE EndScan
    BY <2>7 DEF EndScan, PlanInv
  <2>8. CASE UNCHANGED vars
    BY <2>2, <2>8 DEF vars
  <2> QED
    BY <2>3, <2>4, <2>5, <2>6, <2>7, <2>8 DEF Next
<1> QED
  BY <1>1, <1>2, SelectionInvHolds, PTL DEF Spec

(* Every plan accounts for every capability that was wanted, gives an      *)
(* engine one task in each stage, in the order of the stages, and prefers  *)
(* first-party engines, whatever is requested and offered, and whatever    *)
(* changes in the registry while the scan runs.                            *)
THEOREM PlansAreSoundHolds == Spec => []PlansAreSound
<1>1. SelectionInv /\ PlanInv => PlansAreSound
  <2> SUFFICES ASSUME SelectionInv, PlanInv PROVE PlansAreSound
    OBVIOUS
  <2>1. CASE idx = 0
    <3>1. DOMAIN plan.tasks = {}
      BY <2>1 DEF PlanInv, NoPlan
    <3>2. ~(idx > 0)
      BY <2>1
    <3> QED
      BY <3>1, <3>2 DEF PlansAreSound, CapabilitiesAccounted, PlansAreOrdered,
                        TasksMergedInOrder, FirstPartyFirst
  <2>2. CASE idx # 0
    <3>1. request \in Requests /\ IsOffer(offer) /\ IsPlan(request, offer, plan)
      BY <2>2 DEF PlanInv
    <3> QED
      BY <3>1, PlanAccountsForAll, PlanIsMerged, PlanPrefersFirstParty
         DEF PlansAreSound, PlansAreOrdered
  <2> QED
    BY <2>1, <2>2
<1> QED
  BY <1>1, SelectionInvHolds, PlanInvHolds, PTL
=============================================================================
