----------------------------- MODULE SandboxRun -------------------------------
(***************************************************************************)
(* One run of an unmodified engine (engines/sandbox.py and the container   *)
(* adapters under adapters/oss): the runner starts a child process, waits  *)
(* for it and its output with a timeout, kills it when the time is over,   *)
(* and the adapter reads what came back.                                   *)
(*                                                                         *)
(* The child is the engine itself under the local runner, and the docker   *)
(* client under the docker runner, where the engine runs in a container    *)
(* of the daemon.  Under the local runner a helper process of the engine   *)
(* keeps the output pipes open.  Runs share no state: one stands for all.  *)
(***************************************************************************)
VARIABLES
  setup,      \* what this run meets; it does not change
  pc,         \* where _run_engine is with it
  alive,      \* the living processes: "client", "tool", "helper"
  timedOut,   \* timed_out
  written,    \* what the tool has written where its adapter looks for it
  collected   \* what collect_results made of it

vars == <<setup, pc, alive, timedOut, written, collected>>

(* dockerOnPath: shutil.which finds docker; daemonUp: "docker info" works; *)
(* installed: the tool is on PATH; toFile: the adapter reads a report file *)
(* and not stdout; forks: the tool starts a helper; long: what it writes   *)
(* is longer than max_output_bytes.                                        *)
Setups == [mode : {"auto", "docker", "local"}, dockerOnPath : BOOLEAN,
           daemonUp : BOOLEAN, installed : BOOLEAN, toFile : BOOLEAN,
           forks : BOOLEAN, long : BOOLEAN]

Over == {"unavailable", "returned", "raised", "lost"}
Places == {"health", "execute", "waiting", "draining", "collect"} \cup Over

Init ==
  /\ setup \in {s \in Setups : s.daemonUp => s.dockerOnPath}
  /\ pc = "health"
  /\ alive = {}
  /\ timedOut = FALSE
  /\ written = "nothing"
  /\ collected = "nothing"

(* select_runner: the client on PATH decides, whether or not it works.     *)
Docker == setup.mode = "docker" \/ (setup.mode = "auto" /\ setup.dockerOnPath)

Child == IF Docker THEN "client" ELSE "tool"

(* The processes that hold the pipes communicate() reads.                  *)
PipeHolders == IF Docker THEN {"client"} ELSE {"tool", "helper"}

(* Mutant: proc.wait() in place of communicate(), which reads to the end   *)
(* of the pipes.                                                           *)
ChildExited == Child \notin alive

OutputRead == alive \cap PipeHolders = {}

StepTo(from, to) == pc = from /\ pc' = to

(* health_check *)
RunnerAvailable ==
  /\ Docker => setup.daemonUp
  /\ StepTo("health", "execute")
  /\ UNCHANGED <<setup, alive, timedOut, written, collected>>

RunnerUnavailable ==
  /\ Docker /\ ~setup.daemonUp
  /\ StepTo("health", "unavailable")
  /\ UNCHANGED <<setup, alive, timedOut, written, collected>>

(* run: the local runner answers exit code 127 for a tool it cannot find.  *)
ToolMissing ==
  /\ ~Docker /\ ~setup.installed
  /\ StepTo("execute", "collect")
  /\ UNCHANGED <<setup, alive, timedOut, written, collected>>

(* The child is started; a container that cannot be created is a client    *)
(* without a tool.                                                         *)
StartChild ==
  /\ Docker \/ setup.installed
  /\ StepTo("execute", "waiting")
  /\ alive' \in {{Child}, {Child, "tool"}}
  /\ UNCHANGED <<setup, timedOut, written, collected>>

-----------------------------------------------------------------------------
(* The processes, each at its own pace.                                    *)

ToolWrites ==
  /\ "tool" \in alive
  /\ \/ written = "nothing" /\ written' \in {"part", "whole"}
     \/ written = "part" /\ written' = "whole"
  /\ UNCHANGED <<setup, pc, alive, timedOut, collected>>

ToolForks ==
  /\ setup.forks /\ ~Docker /\ "tool" \in alive
  /\ alive' = alive \cup {"helper"}
  /\ UNCHANGED <<setup, pc, timedOut, written, collected>>

(* A tool ends when it has finished or failed, a helper whenever it likes, *)
(* and the client once the container is gone.                              *)
ProcessExits(p) ==
  /\ p \in alive
  /\ p = "client" => "tool" \notin alive
  /\ alive' = alive \ {p}
  /\ UNCHANGED <<setup, pc, timedOut, written, collected>>

-----------------------------------------------------------------------------
(* communicate() returned in time.                                         *)
Communicated ==
  /\ OutputRead
  /\ StepTo("waiting", "collect")
  /\ UNCHANGED <<setup, alive, timedOut, written, collected>>

(* Mutant: the child is told to stop and not killed. *)
AfterTerminate == alive

(* proc.kill(): the child only, neither its helpers nor its container.     *)
AfterKill == alive \ {Child}

(* The time is over: the rest of the output is read after the kill.        *)
TimeIsOver ==
  /\ ~OutputRead
  /\ StepTo("waiting", "draining")
  /\ timedOut' = TRUE
  /\ alive' = AfterKill
  /\ UNCHANGED <<setup, written, collected>>

(* The time is over just when the child has ended and its pipes are        *)
(* closed: kill() finds no process and raises ProcessLookupError.          *)
KillTooLate ==
  /\ OutputRead
  /\ StepTo("waiting", "raised")
  /\ timedOut' = TRUE
  /\ UNCHANGED <<setup, alive, written, collected>>

Drained ==
  /\ OutputRead
  /\ StepTo("draining", "collect")
  /\ UNCHANGED <<setup, alive, timedOut, written, collected>>

(* Mutant: a result that timed out is parsed like any other. *)
CollectUnguarded ==
  CASE setup.toFile /\ (Docker \/ setup.long \/ written # "whole") -> "nothing"
    [] ~setup.toFile /\ setup.long /\ written = "whole"            -> "part"
    [] OTHER                                                       -> written

(* collect_results: stdout counts only in time (_guard_output), line by    *)
(* line, so that a cut leaves part of it; a report file is read although   *)
(* the run timed out, but only whole, and the docker runner returns none.  *)
Collect ==
  CASE setup.toFile /\ (Docker \/ setup.long \/ written # "whole") -> "nothing"
    [] ~setup.toFile /\ timedOut                                   -> "nothing"
    [] ~setup.toFile /\ ~timedOut /\ setup.long /\ written = "whole" -> "part"
    [] OTHER                                                       -> written

CollectResults ==
  /\ StepTo("collect", "returned")
  /\ collected' = Collect
  /\ UNCHANGED <<setup, alive, timedOut, written>>

(* The coroutine is cancelled, or the application ends: the child is       *)
(* killed if the event loop lives to dispose of it.                        *)
RunLost ==
  /\ pc \in {"waiting", "draining"}
  /\ pc' = "lost"
  /\ alive' \in {alive, alive \ {Child}}
  /\ UNCHANGED <<setup, timedOut, written, collected>>

Processes ==
  \/ ToolWrites \/ ToolForks
  \/ \E p \in {"client", "tool", "helper"} : ProcessExits(p)

Runner ==
  \/ RunnerAvailable \/ RunnerUnavailable \/ ToolMissing \/ StartChild
  \/ Communicated \/ TimeIsOver \/ KillTooLate \/ Drained \/ CollectResults

(* The run is over and nothing of it lives.                                *)
AllOver == pc \in Over /\ alive = {} /\ UNCHANGED vars

Next == Processes \/ Runner \/ RunLost \/ AllOver

Spec == Init /\ [][Next]_vars

(* The event loop runs what is ready and the timer fires; nothing makes a  *)
(* tool or a helper end by itself.                                         *)
Fairness == WF_vars(Runner)

FairSpec == Spec /\ Fairness

-----------------------------------------------------------------------------
(* The type invariant of a run.                                            *)
TypeOK ==
  /\ setup \in Setups
  /\ pc \in Places
  /\ alive \subseteq {"client", "tool", "helper"}
  /\ timedOut \in BOOLEAN
  /\ written \in {"nothing", "part", "whole"}
  /\ collected \in {"nothing", "part", "whole"}

(* What a run that returned leaves behind: nothing, but for the container  *)
(* of a docker run whose client was killed for its timeout, which no code  *)
(* stops.                                                                  *)
LeftoverIsAContainer ==
  pc \in {"collect", "returned"} /\ alive # {} =>
    Docker /\ timedOut /\ alive = {"tool"}

(* An engine that streams its results and was stopped for its timeout      *)
(* contributes nothing, however much it had written; what an engine that   *)
(* ended in time contributes is all it wrote, up to the cap, unless its    *)
(* report stayed in the container.                                         *)
ResultsAreOfEndedRuns ==
  pc = "returned" =>
    /\ ~setup.toFile /\ timedOut => collected = "nothing"
    /\ ~timedOut /\ ~setup.long /\ ~(setup.toFile /\ (Docker \/ written = "part"))
         => collected = written

(* A run ends whether or not its engine does, unless a helper of the       *)
(* engine outlives it: the second communicate() has no timeout.            *)
RunEndsUnlessForked == Docker \/ ~setup.forks => <>(pc \in Over)
=============================================================================
