----------------------------- MODULE ScanStates -----------------------------
(***************************************************************************)
(* The life of a scan as a set of states and the legal moves between them: *)
(* domain/scan.py (ScanState, TERMINAL_STATES) and the transition table of *)
(* scan/orchestrator.py.  Shared by the abstract specification of a scan   *)
(* and by the model of the orchestrator.                                   *)
(***************************************************************************)

ScanState ==
  {"created", "queued", "planning", "running", "paused", "correlating",
   "validating", "reporting", "completed", "cancelling", "cancelled",
   "failed"}

TerminalStates == {"completed", "cancelled", "failed"}

(* Mutant: validation is followed by completion, reporting is not listed. *)
TransitionsNoReporting(src) ==
  CASE src = "created"     -> {"queued", "cancelled"}
    [] src = "queued"      -> {"planning", "cancelling", "cancelled"}
    [] src = "planning"    -> {"running", "failed", "cancelling"}
    [] src = "running"     -> {"correlating", "paused", "failed", "cancelling"}
    [] src = "paused"      -> {"running", "cancelling", "cancelled"}
    [] src = "correlating" -> {"validating", "failed", "cancelling"}
    [] src = "validating"  -> {"completed", "failed", "cancelling"}
    [] src = "cancelling"  -> {"cancelled"}
    [] OTHER               -> {}

(* _TRANSITIONS.get(src, set()): the states a scan in state src may enter. *)
Transitions(src) ==
  CASE src = "created"     -> {"queued", "cancelled"}
    [] src = "queued"      -> {"planning", "cancelling", "cancelled"}
    [] src = "planning"    -> {"running", "failed", "cancelling"}
    [] src = "running"     -> {"correlating", "paused", "failed", "cancelling"}
    [] src = "paused"      -> {"running", "cancelling", "cancelled"}
    [] src = "correlating" -> {"validating", "failed", "cancelling"}
    [] src = "validating"  -> {"reporting", "failed", "cancelling"}
    [] src = "reporting"   -> {"completed", "failed"}
    [] src = "cancelling"  -> {"cancelled"}
    [] OTHER               -> {}

CanTransition(src, dst) == dst \in Transitions(src)
=============================================================================
