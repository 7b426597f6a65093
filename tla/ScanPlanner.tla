---------------------------- MODULE ScanPlanner -----------------------------
(***************************************************************************)
(* The scan planner (planner/planner.py): the capability tables, and the   *)
(* plan made of the engines offered for each capability that is wanted.    *)
(***************************************************************************)
EXTENDS Naturals, Sequences, SequencesExt, Listing

StageOrder == <<"fingerprint", "discovery", "audit", "validation">>

Capability ==
  {"crawl.http", "crawl.browser", "discovery.content", "discovery.js",
   "discovery.api_spec", "discovery.subdomain", "recon.http",
   "fingerprint.tech", "analysis.tls", "analysis.dns", "analysis.headers",
   "analysis.secrets", "audit.passive", "audit.active", "audit.templates",
   "audit.api.rest", "audit.api.graphql", "audit.api.soap",
   "audit.websocket", "audit.authz", "oob.callback", "validation"}

ScanProfile == {"passive", "standard", "deep"}
ApplicationKind ==
  {"unknown", "traditional_web", "spa", "rest_api", "graphql_api",
   "soap_api", "websocket"}

ProfileCaps(profile) ==
  CASE profile = "passive" ->
         <<"fingerprint.tech", "crawl.http", "analysis.tls",
           "analysis.headers", "analysis.secrets", "audit.passive">>
    [] profile = "standard" ->
         <<"fingerprint.tech", "crawl.http", "discovery.js",
           "discovery.content", "analysis.tls", "analysis.headers",
           "analysis.secrets", "audit.passive", "audit.templates",
           "audit.active", "validation">>
    [] profile = "deep" ->
         <<"crawl.http", "crawl.browser", "discovery.content",
           "discovery.js", "discovery.api_spec", "discovery.subdomain",
           "recon.http", "fingerprint.tech", "analysis.tls",
           "analysis.dns", "analysis.headers", "analysis.secrets",
           "audit.passive", "audit.active", "audit.templates",
           "audit.api.rest", "audit.api.graphql", "audit.api.soap",
           "audit.websocket", "audit.authz", "oob.callback",
           "validation">>

KindCaps(kind) ==
  CASE kind = "traditional_web" ->
         {"crawl.http", "discovery.content", "audit.active", "audit.templates"}
    [] kind = "spa" ->
         {"crawl.browser", "discovery.js", "discovery.api_spec",
          "audit.active", "audit.templates"}
    [] kind = "rest_api" ->
         {"discovery.api_spec", "audit.api.rest", "audit.authz", "audit.templates"}
    [] kind = "graphql_api" ->
         {"discovery.api_spec", "audit.api.graphql", "audit.authz"}
    [] kind = "soap_api" ->
         {"discovery.api_spec", "audit.api.soap", "audit.api.rest"}
    [] kind = "websocket" -> {"audit.websocket"}

UniversalCaps ==
  {"fingerprint.tech", "analysis.tls", "analysis.headers",
   "analysis.secrets", "audit.passive", "validation", "oob.callback"}

CapStage(cap) ==
  CASE cap \in {"fingerprint.tech", "discovery.subdomain", "recon.http",
                "analysis.dns"}                           -> "fingerprint"
    [] cap \in {"crawl.http", "crawl.browser", "discovery.content",
                "discovery.js", "discovery.api_spec"}     -> "discovery"
    [] cap \in {"analysis.tls", "analysis.headers", "analysis.secrets",
                "audit.passive", "audit.active", "audit.templates",
                "audit.api.rest", "audit.api.graphql", "audit.api.soap",
                "audit.websocket", "audit.authz", "oob.callback"} -> "audit"
    [] cap = "validation"                                 -> "validation"

(* _wanted_capabilities: the policy's own list, or that of its profile,    *)
(* less what does not matter to the kind of application.                   *)
Wanted(request) ==
  LET listed == IF request.caps = <<>> THEN ProfileCaps(request.profile)
                                       ELSE request.caps
      allowed == IF request.kind = "unknown" THEN Capability
                 ELSE UniversalCaps \cup KindCaps(request.kind)
  IN  Kept(listed, allowed)

NoTasks == [s \in {StageOrder[i] : i \in DOMAIN StageOrder} |-> <<>>]

(* Engine e covers cap in its stage: by the task it has there, or by a new *)
(* one at the end of the stage.                                            *)
Cover(stages, e, cap) ==
  LET s     == CapStage(cap)
      tasks == stages[s]
      mine  == {i \in DOMAIN tasks : tasks[i].engine = e}
      new   == [engine |-> e, stage |-> s, caps |-> {cap}]
  IN  [stages EXCEPT ![s] =
         IF mine = {} THEN Append(tasks, new)
         ELSE [i \in DOMAIN tasks |->
                 IF i \in mine THEN [tasks[i] EXCEPT !.caps = @ \cup {cap}] ELSE tasks[i]]]

(* Mutant: the engines the scan excludes are not left out.                 *)
ChosenUnfiltered(request, offered) ==
  IF request.redundant \/ offered = <<>> THEN offered ELSE <<offered[1]>>

(* The engines that will cover a capability: the first one offered, or all *)
(* of them when the planner is configured for redundancy.                  *)
Chosen(request, offered) ==
  LET allowed == Kept(offered, ToSet(offered) \ request.disabled)
  IN  IF request.redundant \/ allowed = <<>> THEN allowed ELSE <<allowed[1]>>

(* The chosen engines cover a capability one after the other. *)
CoverAll(stages, chosen, cap) ==
  LET covered[k \in 0 .. Len(chosen)] ==
        IF k = 0 THEN stages ELSE Cover(covered[k - 1], chosen[k], cap)
  IN  covered[Len(chosen)]

(* A turn of plan's loop: a capability is covered, or skipped when no      *)
(* engine is left to do so.                                                *)
Turn(acc, chosen, cap) ==
  IF chosen = <<>> THEN [acc EXCEPT !.skipped = @ \cup {cap}]
  ELSE [acc EXCEPT !.stages = CoverAll(@, chosen, cap)]

(* plan: one pass over the wanted capabilities; offer[cap] is what the     *)
(* catalog answers.  The result lists the tasks stage by stage, and the    *)
(* capabilities no engine provides.                                        *)
MakePlan(request, offer) ==
  LET wanted == Wanted(request)
      done[n \in 0 .. Len(wanted)] ==
        IF n = 0 THEN [stages |-> NoTasks, skipped |-> {}]
        ELSE Turn(done[n - 1], Chosen(request, offer[wanted[n]]), wanted[n])
      end == done[Len(wanted)]
  IN  [tasks   |-> end.stages[StageOrder[1]] \o end.stages[StageOrder[2]]
                     \o end.stages[StageOrder[3]] \o end.stages[StageOrder[4]],
       skipped |-> end.skipped]
=============================================================================
