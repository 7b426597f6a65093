--------------------------- MODULE EngineSelection --------------------------
(***************************************************************************)
(* From manifests to running engines: VantageApp.build (app.py) binds      *)
(* adapters in the registry, the planner plans scans with the engines the  *)
(* registry offers, and the orchestrator looks each planned engine up      *)
(* again when its turn comes, while whoever embeds the application may     *)
(* enable, disable, approve or bind engines.                               *)
(***************************************************************************)
EXTENDS EngineRegistry, ScanPlanner

CONSTANTS
  NativeAdapters,  \* engines with a native adapter
  OssAdapters,     \* engines with a bundled adapter
  Requests,        \* what scans may ask the planner for
  MaxChanges       \* bound on changes of the registry after build

ASSUME SelectionAssumption ==
  /\ NativeAdapters \subseteq Engines /\ OssAdapters \subseteq Engines
  /\ MaxChanges \in Nat
  /\ \A q \in Requests :
       /\ q.profile \in ScanProfile /\ q.kind \in ApplicationKind
       /\ q.caps \in Seq(Capability) /\ q.redundant \in BOOLEAN

VARIABLES
  phase,         \* how far build has come; "ready": the application runs
  present,       \* engines build may bind: all, or those detected on the host
  request,       \* what the current scan asked for
  plan,          \* its plan
  idx,           \* the task the scan is at; 0: no scan
  changes,       \* changes of the registry after build
  (* history, never read by an action *)
  offer,         \* what the registry offered when the plan was made
  started,       \* engines whose adapter a scan was given
  cleared        \* engines whose approval was recorded

buildVars == <<phase, present>>
scanVars  == <<request, plan, idx, offer>>
vars == <<problems, approval, enabled, bound, phase, present, request, plan,
          idx, changes, offer, started, cleared>>

NoPlan    == [tasks |-> <<>>, skipped |-> {}]
NoRequest == [profile |-> "standard", kind |-> "unknown", caps |-> <<>>,
              disabled |-> {}, redundant |-> FALSE]

Init ==
  /\ Load
  /\ phase   = "native"
  /\ present = {}
  /\ request = NoRequest
  /\ plan    = NoPlan
  /\ idx     = 0
  /\ changes = 0
  /\ offer   = [c \in Capability |-> <<>>]
  /\ started = {}
  /\ cleared = {}

BindNative ==
  /\ phase = "native"
  /\ phase' = "detect"
  /\ Bind(NativeAdapters)
  /\ UNCHANGED <<present, scanVars, changes, started, cleared>>

(* With auto_detect the bundled engines found on the host are enabled, and *)
(* only they may be bound; without it all of them may be; without bind_oss *)
(* none.                                                                   *)
Detect ==
  /\ phase = "detect"
  /\ phase' = "oss"
  /\ \/ /\ present' \in {OssAdapters, {}}
        /\ UNCHANGED registryVars
     \/ \E D \in SUBSET OssAdapters : present' \in {D, {}} /\ Enable(D, TRUE)
  /\ UNCHANGED <<scanVars, changes, started, cleared>>

(* Mutant: what is usable is decided before the host is looked at. *)
BindOssEarly ==
  /\ phase = "oss"
  /\ phase' = "ready"
  /\ Bind({e \in present : Usable(e) /\ e \in EnabledFirst})
  /\ UNCHANGED <<present, scanVars, changes, started, cleared>>

BindOss ==
  /\ phase = "oss"
  /\ phase' = "ready"
  /\ Bind({e \in present : Usable(e)})
  /\ UNCHANGED <<present, scanVars, changes, started, cleared>>

Change ==
  /\ phase = "ready"
  /\ changes < MaxChanges
  /\ changes' = changes + 1
  /\ UNCHANGED <<buildVars, scanVars, started>>

ChangeEnabled == Change /\ UNCHANGED cleared
                   /\ \E e \in Engines, on \in BOOLEAN : Enable({e}, on)
ChangeBound   == Change /\ UNCHANGED cleared /\ \E e \in Engines : Bind({e})
RecordApproval ==
  /\ Change
  /\ \E e \in Engines : Approve(e) /\ cleared' = cleared \cup {e}

(* Orchestrator.run makes the plan of a scan. *)
PlanScan ==
  /\ phase = "ready" /\ idx = 0
  /\ idx' = 1
  /\ offer' = [c \in Capability |-> EnginesFor(c)]
  /\ \E q \in Requests : request' = q /\ plan' = MakePlan(q, offer')
  /\ UNCHANGED <<registryVars, buildVars, changes, started, cleared>>

AtTask == idx \in 1 .. Len(plan.tasks)

(* The orchestrator comes to a task: its engine is run if the registry     *)
(* still has an adapter for it, and is reported as failed otherwise.       *)
StartTask ==
  /\ AtTask
  /\ HasAdapter(plan.tasks[idx].engine)
  /\ started' = started \cup {plan.tasks[idx].engine}
  /\ idx' = idx + 1
  /\ UNCHANGED <<registryVars, buildVars, request, plan, offer, changes, cleared>>

SkipTask ==
  /\ AtTask
  /\ ~HasAdapter(plan.tasks[idx].engine)
  /\ idx' = idx + 1
  /\ UNCHANGED <<registryVars, buildVars, request, plan, offer, changes, started,
                 cleared>>

EndScan ==
  /\ idx > 0 /\ idx > Len(plan.tasks)
  /\ idx' = 0
  /\ request' = NoRequest /\ plan' = NoPlan
  /\ offer' = [c \in Capability |-> <<>>]
  /\ UNCHANGED <<registryVars, buildVars, changes, started, cleared>>

Next ==
  \/ BindNative \/ Detect \/ BindOss
  \/ ChangeEnabled \/ ChangeBound \/ RecordApproval
  \/ PlanScan \/ StartTask \/ SkipTask \/ EndScan

Spec == Init /\ [][Next]_vars

-----------------------------------------------------------------------------
TypeOK ==
  /\ problems \in [Engines -> SUBSET Problems]
  /\ approval \in [Engines -> ApprovalStatus]
  /\ enabled \in [Engines -> BOOLEAN]
  /\ bound \subseteq Engines
  /\ phase \in {"native", "detect", "oss", "ready"}
  /\ present \subseteq OssAdapters
  /\ idx \in Nat /\ changes \in Nat
  /\ started \subseteq Engines /\ cleared \subseteq Engines

(* What registry.py:3-7 asks of an engine before it may run: first-party   *)
(* code, a service the customer hosts, or an engine with a permissive      *)
(* licence, locked under that licence, and with an image that is pinned    *)
(* when it runs in a container and the lock file has its digest.           *)
Vetted(e) ==
  \/ Integration[e] = "native"
  \/ Integration[e] = "external_service"
  \/ /\ ClassOf[License[e]] = "GREEN"
     /\ e \in Locked /\ LockLicense[e] \in {"", License[e]}
     /\ Integration[e] \in Containerized =>
          /\ Image[e] # "none"
          /\ e \in LockDigest => Image[e] = "digest"

(* No scan is ever given the adapter of an engine that was not vetted,     *)
(* whatever was detected, enabled, bound and approved before or since.     *)
OnlyVettedEnginesStart == \A e \in started : Vetted(e)

(* When build is done the bundled engines that are bound are the usable    *)
(* ones among those that it may bind: detection comes before binding.      *)
DetectionDecidesTheOss ==
  phase = "ready" /\ changes = 0 =>
    bound \ NativeAdapters = {e \in present : Usable(e)} \ NativeAdapters

(* A plan accounts for every capability that was wanted: one is skipped    *)
(* exactly when no engine that is offered and not excluded provides it,    *)
(* and is covered otherwise, by one task unless redundancy is configured.  *)
CapabilitiesAccounted ==
  idx > 0 => \A i \in DOMAIN Wanted(request) :
    LET cap       == Wanted(request)[i]
        offered   == {offer[cap][k] : k \in DOMAIN offer[cap]} \ request.disabled
        providers == {t \in DOMAIN plan.tasks : cap \in plan.tasks[t].caps}
    IN  /\ (cap \in plan.skipped) = (offered = {})
        /\ {plan.tasks[t].engine : t \in providers} \subseteq offered
        /\ Cardinality(providers) =
             IF request.redundant THEN Cardinality(offered)
             ELSE IF offered = {} THEN 0 ELSE 1

(* An engine runs once in a stage, for capabilities of that stage that it  *)
(* provides, and the stages come in order.                                 *)
TasksMergedInOrder ==
  \A t, u \in DOMAIN plan.tasks :
    LET a == plan.tasks[t]
        b == plan.tasks[u]
    IN  /\ a.caps \subseteq {c \in Provides[a.engine] : CapStage(c) = a.stage}
        /\ t < u => /\ <<a.engine, a.stage>> # <<b.engine, b.stage>>
                    /\ \E i, j \in DOMAIN StageOrder :
                         i <= j /\ StageOrder[i] = a.stage /\ StageOrder[j] = b.stage

(* registry.py:256-260, "first-party NATIVE engines first": an engine of   *)
(* another kind is planned for a capability only if no first-party engine  *)
(* that the scan may use offered it.                                       *)
FirstPartyFirst ==
  ~request.redundant =>
    \A t \in DOMAIN plan.tasks : \A cap \in plan.tasks[t].caps :
      Integration[plan.tasks[t].engine] # "native" =>
        \A k \in DOMAIN offer[cap] :
          Integration[offer[cap][k]] = "native" => offer[cap][k] \in request.disabled

(* The tasks of a plan are merged, in the order of the stages, and given   *)
(* to first-party engines first.                                           *)
PlansAreOrdered == TasksMergedInOrder /\ FirstPartyFirst

(* What the planner makes of a request and of the registry it asks: all    *)
(* that is wanted, in order.                                               *)
PlansAreSound == CapabilitiesAccounted /\ PlansAreOrdered

-----------------------------------------------------------------------------
(* registry.py:226-227, a RED or YELLOW engine "stays unusable until       *)
(* separately approved", and line 233, approve records the approval "for a *)
(* YELLOW/RED isolated engine": one that lacked only that is usable then.  *)
ApprovalUnlocks ==
  \A e \in cleared :
    RegistrationProblems(e) = {"recorded"} /\ enabled[e] => Usable(e)
=============================================================================
