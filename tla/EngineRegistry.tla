--------------------------- MODULE EngineRegistry ---------------------------
(***************************************************************************)
(* The engine registry (engines/registry.py): what the manifests, the lock *)
(* file and the licence policy make of each engine when the registry is    *)
(* loaded, and what enable, approve and bind_adapter change later.         *)
(***************************************************************************)
EXTENDS Sequences, FiniteSets, Listing

CONSTANTS
  Engines,       \* engine ids, one manifest each
  LoadOrder,     \* the engines in the order of their manifest files
  Integration,   \* Integration[e]: integration type in the manifest
  License,       \* License[e]: licence in the manifest
  Image,         \* Image[e]: "none", "tag", or "digest" (holds "@sha256:")
  EnabledFirst,  \* engines whose manifest says enabled
  Provides,      \* Provides[e]: capabilities in the manifest
  Locked,        \* engines with an entry in the lock file
  LockLicense,   \* LockLicense[e]: its licence there, "" when empty
  LockDigest,    \* engines whose entry has an image digest
  ClassOf,       \* ClassOf[l]: class of licence l under the policy
  ArmsLength     \* integration types at arm's length under the policy

IntegrationType ==
  {"native", "library", "container_cli", "container_api", "external_service"}
LicenseClass   == {"GREEN", "YELLOW", "RED", "UNKNOWN"}
ApprovalStatus == {"approved", "pending_review", "rejected"}

Containerized == {"container_cli", "container_api"}

(* "recorded": the problems whose text asks for a recorded review, which   *)
(* are the ones approve removes.                                           *)
Problems ==
  {"unpinned", "unknown_license", "recorded", "embedded_red",
   "license_mismatch", "no_image", "image_not_pinned", "approved"}

ASSUME RegistryAssumption ==
  /\ LoadOrder \in Seq(Engines)
  /\ Integration \in [Engines -> IntegrationType]
  /\ Image \in [Engines -> {"none", "tag", "digest"}]
  /\ EnabledFirst \subseteq Engines
  /\ Locked \subseteq Engines /\ LockDigest \subseteq Locked
  /\ \A e \in Engines : ClassOf[License[e]] \in LicenseClass
  /\ ArmsLength \subseteq IntegrationType

VARIABLES
  problems,      \* problems[e]: what blocks e
  approval,      \* approval[e]: approval_status of its metadata
  enabled,       \* enabled[e]: enabled flag of its manifest
  bound          \* engines with an adapter

registryVars == <<problems, approval, enabled, bound>>

(* First-party and customer-hosted engines are not under the policy. *)
Ungated(e) == Integration[e] \in {"native", "external_service"}

ClassApproval(e) ==
  LET class == ClassOf[License[e]] IN
  CASE class = "GREEN"   -> "approved"
    [] class = "YELLOW"  -> "pending_review"
    [] class = "RED"     -> IF Integration[e] \in ArmsLength THEN "pending_review"
                                                             ELSE "rejected"
    [] class = "UNKNOWN" -> "rejected"

ClassProblems(e) ==
  LET class == ClassOf[License[e]] IN
  CASE class = "GREEN"   -> {}
    [] class = "YELLOW"  -> {"recorded"}
    [] class = "RED"     -> IF Integration[e] \in ArmsLength THEN {"recorded"}
                                                             ELSE {"embedded_red"}
    [] class = "UNKNOWN" -> {"unknown_license"}

(* An engine that is not locked is given a lock entry with its own licence *)
(* and no digest.                                                          *)
LockProblems(e) ==
  IF e \notin Locked THEN {"unpinned"}
  ELSE {p \in {"license_mismatch"} : LockLicense[e] \notin {"", License[e]}}

ImageProblems(e) ==
  IF Integration[e] \notin Containerized THEN {}
  ELSE IF Image[e] = "none" THEN {"no_image"}
  ELSE {p \in {"image_not_pinned"} : e \in LockDigest /\ Image[e] # "digest"}

(* Mutant: a licence that differs from the locked one goes unnoticed. *)
RegistrationProblemsUnmatched(e) ==
  IF Ungated(e) THEN {}
  ELSE (ClassProblems(e) \cup LockProblems(e) \cup ImageProblems(e))
         \ {"license_mismatch"}

(* _register_manifest *)
RegistrationProblems(e) ==
  IF Ungated(e) THEN {}
  ELSE ClassProblems(e) \cup LockProblems(e) \cup ImageProblems(e)

Load ==
  /\ problems = [e \in Engines |-> RegistrationProblems(e)]
  /\ approval = [e \in Engines |-> IF Ungated(e) THEN "approved" ELSE ClassApproval(e)]
  /\ enabled  = [e \in Engines |-> e \in EnabledFirst]
  /\ bound    = {}

Usable(e) == problems[e] = {} /\ enabled[e] /\ approval[e] = "approved"

(* The engines the planner is offered for a capability: first-party ones   *)
(* first, in load order within each group.                                 *)
EnginesFor(cap) ==
  LET matches == {e \in bound : Usable(e) /\ cap \in Provides[e]}
      native  == {e \in matches : Integration[e] = "native"}
  IN  Kept(LoadOrder, native) \o Kept(LoadOrder, matches \ native)

(* adapter_for gives an adapter. *)
HasAdapter(e) == Usable(e) /\ e \in bound

Bind(E) == bound' = bound \cup E /\ UNCHANGED <<problems, approval, enabled>>

Enable(E, on) ==
  /\ enabled' = [e \in Engines |-> IF e \in E THEN on ELSE enabled[e]]
  /\ UNCHANGED <<problems, approval, bound>>

(* approve: the problem that asked for the review is removed, and a note   *)
(* of the approval is added, to the list of problems.                      *)
Approve(e) ==
  /\ approval' = [approval EXCEPT ![e] = "approved"]
  /\ problems' = [problems EXCEPT ![e] = (@ \ {"recorded"}) \cup {"approved"}]
  /\ UNCHANGED <<enabled, bound>>
=============================================================================
