----------------------------- MODULE ControlPlane -----------------------------
(***************************************************************************)
(* The HTTP control plane (api/app.py) of a machine on which the commands  *)
(* of AiSetup run.  The application is built by the first request that     *)
(* needs it: GET /engines in a thread of the pool, POST /scans on the      *)
(* event loop, which the build holds while the threads go on.  Every       *)
(* application has an engine registry, a store of scans and an AI provider *)
(* of its own, the last from the configuration of the moment.              *)
(*                                                                         *)
(* Left out are the requests that change nothing, those refused with 404   *)
(* or 403 and the reads, and POST /targets: a scan is submitted with the   *)
(* target it is of.  The run of a scan is ScanOrchestrator's.              *)
(***************************************************************************)
EXTENDS AiSetup, Integers

CONSTANTS
  Threads,       \* threads of the pool that serve GET /engines
  Loop,          \* the event loop
  Scans,         \* scans of authorized targets
  AutoDetect     \* VANTAGE_AUTODETECT

ASSUME ServerAssumption == Loop \notin Threads /\ AutoDetect \in BOOLEAN

VARIABLES
  app,           \* state["app"]: 0 before it is built, or its number
  ai,            \* the model of its AI provider, or "none"
  building,      \* who is building: threads, and the loop
  read,          \* read[w]: the model w read for its build
  scan,          \* scan[s]: the application it runs on, or 0
  raced          \* this server has built while it was building

serverVars == <<app, ai, building, read, scan, raced>>
vars       == <<setupVars, serverVars>>

Workers == Threads \cup {Loop}

ServerInit ==
  /\ app      = 0
  /\ ai       = "none"
  /\ building = {}
  /\ read     = [w \in Workers |-> "none"]
  /\ scan     = [s \in Scans |-> 0]
  /\ raced    = FALSE

Init == SetupInit /\ ServerInit

(* build_ai_provider_from_env.                                             *)
AiProvider(cfg) == IF cfg.provider = "none" THEN "none" ELSE cfg.model

(* Mutant: the application is built for every request. *)
StartsAnew(w) ==
  /\ w \notin building
  /\ building' = building \cup {w}
  /\ read'     = [read EXCEPT ![w] = AiProvider(config)]
  /\ raced'    = (raced \/ building # {})
  /\ UNCHANGED <<app, ai>>

(* app_, the check, and from_env, which reads the configuration first.     *)
StartsBuilding(w) ==
  /\ app = 0 /\ w \notin building
  /\ building' = building \cup {w}
  /\ read'     = [read EXCEPT ![w] = AiProvider(config)]
  /\ raced'    = (raced \/ building # {})
  /\ UNCHANGED <<app, ai>>

GetEngines(w) ==
  /\ w # Loop
  /\ StartsBuilding(w)
  /\ UNCHANGED <<scan, setupVars>>

RunsOn(s, a) == scan[s] = 0 /\ scan' = [scan EXCEPT ![s] = a]

(* create_scan.  A build on the event loop raises under AutoDetect, which  *)
(* runs a loop of its own, and leaves nothing.                             *)
CreateScan(s) ==
  /\ Loop \notin building /\ app # 0
  /\ RunsOn(s, app)
  /\ UNCHANGED <<app, ai, building, read, raced, setupVars>>

CreateFirstScan ==
  /\ ~AutoDetect
  /\ \E s \in Scans : scan[s] = 0
  /\ StartsBuilding(Loop)
  /\ UNCHANGED <<scan, setupVars>>

(* The assignment to state["app"], whatever it holds by then, and on the   *)
(* loop the scan that was waiting for it.                                  *)
Built(w) ==
  /\ w \in building
  /\ app'      = app + 1
  /\ ai'       = read[w]
  /\ building' = building \ {w}
  /\ read'     = [read EXCEPT ![w] = "none"]
  /\ IF w = Loop THEN \E s \in Scans : RunsOn(s, app') ELSE UNCHANGED scan
  /\ UNCHANGED <<raced, setupVars>>

(* What the server keeps is in its memory. *)
Restart ==
  /\ app'      = 0
  /\ ai'       = "none"
  /\ building' = {}
  /\ read'     = [w \in Workers |-> "none"]
  /\ scan'     = [s \in Scans |-> 0]
  /\ raced'    = FALSE
  /\ UNCHANGED setupVars

ServerNext ==
  \/ \E w \in Workers : GetEngines(w) \/ Built(w)
  \/ \E s \in Scans : CreateScan(s)
  \/ CreateFirstScan \/ Restart

Next == (SetupNext /\ UNCHANGED serverVars) \/ ServerNext

Spec == Init /\ [][Next]_vars

-----------------------------------------------------------------------------
ServerTypeOK ==
  /\ app \in Nat /\ ai \in {"none"} \cup Models
  /\ building \subseteq Workers /\ read \in [Workers -> {"none"} \cup Models]
  /\ scan \in [Scans -> Nat]
  /\ raced \in BOOLEAN

TypeOK == SetupTypeOK /\ ServerTypeOK

Reviewed == {"none"} \cup Green \cup accepted

(* A YELLOW model is in the configuration, or used by the server, only     *)
(* after somebody accepted it: whatever commands read, overwrite and leave *)
(* half-written in the meantime.                                           *)
YellowOnlyAccepted == {config.model, ai} \subseteq Reviewed

(* The scans of a server run on one application, so that they share its    *)
(* store, its rate limits and its adapters, unless its first requests came *)
(* at the same time.                                                       *)
ScansShareTheApp ==
  ~raced => \A s, q \in Scans : scan[s] # 0 /\ scan[q] # 0 => scan[s] = scan[q]

(* What the proof of YellowOnlyAccepted needs besides: nobody is about to  *)
(* save, or to build with, a model that was not reviewed.                  *)
ReviewedThroughout ==
  /\ YellowOnlyAccepted
  /\ \A c \in Commands : choice[c].model \in Reviewed
  /\ \A w \in Workers : read[w] \in Reviewed
=============================================================================
