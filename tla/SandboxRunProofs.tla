-------------------------- MODULE SandboxRunProofs ----------------------------
(***************************************************************************)
(* A sandboxed run leaves no process behind but the container of a docker  *)
(* run that timed out, and passes on no output of an engine that streams   *)
(* and was stopped, under every setup and interleaving.                    *)
(***************************************************************************)
EXTENDS SandboxRun, TLAPS

(* Who can live under which runner.                                        *)
RightProcesses ==
  /\ Docker  => alive \subseteq {"client", "tool"}
  /\ ~Docker => alive \subseteq {"tool", "helper"}

(* Nothing lives before the start; a container lives without its client    *)
(* only when the client was killed; the time is over once at most.         *)
Stages ==
  /\ pc \in {"health", "execute", "unavailable"} => alive = {} /\ ~timedOut
  /\ pc = "waiting"  => ~timedOut
  /\ pc = "draining" => timedOut
  /\ Docker /\ "tool" \in alive /\ "client" \notin alive => timedOut \/ pc = "lost"

Inv == TypeOK /\ RightProcesses /\ Stages
       /\ LeftoverIsAContainer /\ ResultsAreOfEndedRuns

-----------------------------------------------------------------------------
(* Nothing has started yet.                                                *)
LEMMA InitInv == Init => Inv
<1> SUFFICES ASSUME Init PROVE Inv
  OBVIOUS
<1>1. TypeOK
  <2>1. setup \in Setups
    BY Zenon DEF Init
  <2> QED
    BY <2>1 DEF Init, TypeOK, Places
<1> QED
  BY <1>1 DEF Init, Inv, RightProcesses, Stages, LeftoverIsAContainer,
              ResultsAreOfEndedRuns, Docker

(* The processes change who lives and what is written, not what a run that *)
(* left nothing behind has collected.                                      *)
LEMMA ProcessesInv == Inv /\ Processes => Inv'
<1> SUFFICES ASSUME Inv, Processes PROVE Inv'
  OBVIOUS
<1>0. UNCHANGED <<setup, pc, timedOut, collected>> /\ Docker' = Docker
  BY DEF Processes, ToolWrites, ToolForks, ProcessExits, Docker
<1>1. alive # {}
  BY DEF Processes, ToolWrites, ToolForks, ProcessExits
<1>2. pc \in {"collect", "returned"} => Docker /\ timedOut
  BY <1>1 DEF Inv, LeftoverIsAContainer
<1>3. CASE ToolWrites
  <2>1. TypeOK'
    BY <1>0, <1>3 DEF Inv, TypeOK, ToolWrites
  <2>2. RightProcesses' /\ Stages' /\ LeftoverIsAContainer'
    BY <1>0, <1>3 DEF Inv, RightProcesses, Stages, LeftoverIsAContainer, ToolWrites
  <2>3. ResultsAreOfEndedRuns'
    BY <1>0, <1>2, <1>3 DEF Inv, ResultsAreOfEndedRuns, ToolWrites
  <2> QED
    BY <2>1, <2>2, <2>3 DEF Inv
<1>4. CASE ToolForks
  <2>1. ~Docker /\ "tool" \in alive /\ alive' = alive \cup {"helper"} /\ written' = written
    BY <1>4 DEF ToolForks
  <2>2. TypeOK' /\ RightProcesses'
    BY <1>0, <2>1 DEF Inv, TypeOK, RightProcesses
  <2>3. Stages' /\ LeftoverIsAContainer' /\ ResultsAreOfEndedRuns'
    BY <1>0, <1>2, <2>1 DEF Inv, Stages, LeftoverIsAContainer, ResultsAreOfEndedRuns
  <2> QED
    BY <2>2, <2>3 DEF Inv
<1>5. ASSUME NEW p \in {"client", "tool", "helper"}, ProcessExits(p)
      PROVE  Inv'
  <2>1. /\ p \in alive /\ alive' = alive \ {p} /\ written' = written
        /\ p = "client" => "tool" \notin alive
    BY <1>5 DEF ProcessExits
  <2>2. TypeOK' /\ RightProcesses'
    BY <1>0, <2>1 DEF Inv, TypeOK, RightProcesses
  <2>3. Stages' /\ LeftoverIsAContainer' /\ ResultsAreOfEndedRuns'
    BY <1>0, <1>2, <2>1 DEF Inv, Stages, LeftoverIsAContainer, ResultsAreOfEndedRuns
  <2> QED
    BY <2>2, <2>3 DEF Inv
<1> QED
  BY <1>3, <1>4, <1>5 DEF Processes

(* With the pipes closed only a container can still live, and it does only *)
(* when its client was killed.                                             *)
LEMMA ReadToTheEnd ==
  ASSUME Inv, OutputRead
  PROVE  alive # {} => Docker /\ alive = {"tool"}
                       /\ (timedOut \/ pc = "lost")
<1>1. CASE Docker
  BY <1>1 DEF Inv, RightProcesses, Stages, OutputRead, PipeHolders
<1>2. CASE ~Docker
  BY <1>2 DEF Inv, RightProcesses, OutputRead, PipeHolders
<1> QED
  BY <1>1, <1>2

(* The steps of the coroutine.                                             *)
LEMMA RunnerInv == Inv /\ (Runner \/ RunLost) => Inv'
<1> SUFFICES ASSUME Inv, Runner \/ RunLost PROVE Inv'
  OBVIOUS
<1>0. UNCHANGED <<setup, written>> /\ Docker' = Docker /\ Child \in {"client", "tool"}
  BY DEF Runner, RunLost, RunnerAvailable, RunnerUnavailable, ToolMissing, StartChild,
         Communicated, TimeIsOver, KillTooLate, Drained, CollectResults, Docker, Child
<1>1. CASE RunnerAvailable \/ RunnerUnavailable \/ ToolMissing
  <2>1. /\ pc \in {"health", "execute"}
        /\ pc' \in {"execute", "unavailable", "collect"}
        /\ UNCHANGED <<alive, timedOut, collected>>
    BY <1>1 DEF RunnerAvailable, RunnerUnavailable, ToolMissing, StepTo
  <2>2. alive = {} /\ ~timedOut
    BY <2>1 DEF Inv, Stages
  <2> QED
    BY <1>0, <2>1, <2>2 DEF Inv, TypeOK, Places, Over, RightProcesses, Stages,
                            LeftoverIsAContainer, ResultsAreOfEndedRuns
<1>2. CASE StartChild
  <2>1. /\ pc = "execute" /\ pc' = "waiting" /\ ~timedOut
        /\ alive' \in {{Child}, {Child, "tool"}}
        /\ UNCHANGED <<timedOut, collected>>
    BY <1>2 DEF StartChild, StepTo, Inv, Stages
  <2>2. TypeOK'
    BY <1>0, <2>1 DEF Inv, TypeOK, Places
  <2>3. RightProcesses' /\ Stages'
    BY <1>0, <2>1 DEF RightProcesses, Stages, Child
  <2> QED
    BY <1>0, <2>1, <2>2, <2>3 DEF Inv, LeftoverIsAContainer, ResultsAreOfEndedRuns
<1>3. CASE Communicated \/ Drained
  <2>1. /\ OutputRead /\ pc \in {"waiting", "draining"} /\ pc' = "collect"
        /\ UNCHANGED <<alive, timedOut, collected>>
    BY <1>3 DEF Communicated, Drained, StepTo
  <2>2. alive # {} => Docker /\ alive = {"tool"} /\ timedOut
    BY <2>1, ReadToTheEnd
  <2> QED
    BY <1>0, <2>1, <2>2 DEF Inv, TypeOK, Places, RightProcesses, Stages,
                            LeftoverIsAContainer, ResultsAreOfEndedRuns
<1>4. CASE TimeIsOver \/ KillTooLate
  <2>1. /\ pc = "waiting" /\ pc' \in {"draining", "raised"} /\ timedOut' = TRUE
        /\ alive' \subseteq alive /\ collected' = collected
    BY <1>4 DEF TimeIsOver, KillTooLate, AfterKill, StepTo
  <2>2. TypeOK' /\ RightProcesses'
    BY <1>0, <2>1 DEF Inv, TypeOK, Places, Over, RightProcesses
  <2> QED
    BY <1>0, <2>1, <2>2 DEF Inv, Stages, LeftoverIsAContainer, ResultsAreOfEndedRuns
<1>5. CASE CollectResults
  <2>1. /\ pc = "collect" /\ pc' = "returned" /\ collected' = Collect
        /\ UNCHANGED <<alive, timedOut>>
    BY <1>5 DEF CollectResults, StepTo
  <2>2. Collect \in {"nothing", "part", "whole"}
    BY DEF Collect, Inv, TypeOK
  <2>3. /\ ~setup.toFile /\ timedOut => Collect = "nothing"
        /\ ~timedOut /\ ~setup.long /\ ~(setup.toFile /\ (Docker \/ written = "part"))
             => Collect = written
    <3>1. /\ setup.toFile \in BOOLEAN /\ setup.long \in BOOLEAN /\ Docker \in BOOLEAN
          /\ timedOut \in BOOLEAN /\ written \in {"nothing", "part", "whole"}
      BY DEF Inv, TypeOK, Setups, Docker
    <3>2. ASSUME ~setup.toFile, timedOut PROVE Collect = "nothing"
      BY <3>1, <3>2, SMT DEF Collect
    <3>3. ASSUME ~timedOut, ~setup.long, ~(setup.toFile /\ (Docker \/ written = "part"))
          PROVE  Collect = written
      BY <3>1, <3>3, SMT DEF Collect
    <3> QED
      BY <3>2, <3>3, Zenon
  <2>4. TypeOK' /\ RightProcesses' /\ Stages'
    BY <1>0, <2>1, <2>2 DEF Inv, TypeOK, Places, Over, RightProcesses, Stages
  <2>5. LeftoverIsAContainer' /\ ResultsAreOfEndedRuns'
    BY <1>0, <2>1, <2>3 DEF Inv, LeftoverIsAContainer, ResultsAreOfEndedRuns
  <2> QED
    BY <2>4, <2>5 DEF Inv
<1>6. CASE RunLost
  <2>1. /\ pc' = "lost" /\ alive' \subseteq alive /\ UNCHANGED <<timedOut, collected>>
    BY <1>6 DEF RunLost
  <2>2. TypeOK' /\ RightProcesses'
    BY <1>0, <2>1 DEF Inv, TypeOK, Places, Over, RightProcesses
  <2> QED
    BY <1>0, <2>1, <2>2 DEF Inv, Stages, LeftoverIsAContainer, ResultsAreOfEndedRuns
<1> QED
  BY <1>1, <1>2, <1>3, <1>4, <1>5, <1>6 DEF Runner

-----------------------------------------------------------------------------
(* The invariant of a run holds throughout.                                *)
LEMMA Invariance == Spec => []Inv
<1>1. Inv /\ UNCHANGED vars => Inv'
  BY DEF vars, Inv, TypeOK, RightProcesses, Stages, LeftoverIsAContainer,
         ResultsAreOfEndedRuns, Docker
<1>2. Inv /\ [Next]_vars => Inv'
  BY <1>1, ProcessesInv, RunnerInv DEF Next, AllOver
<1> QED
  BY InitInv, <1>2, PTL DEF Spec

(* The state of a run stays of its type.                                   *)
THEOREM SandboxTypes == Spec => []TypeOK
<1>1. Inv => TypeOK
  BY DEF Inv
<1> QED
  BY <1>1, Invariance, PTL

(* Of what run() starts only a container outlives it, after a timeout.     *)
THEOREM OnlyContainersAreLeft == Spec => []LeftoverIsAContainer
<1>1. Inv => LeftoverIsAContainer
  BY DEF Inv
<1> QED
  BY <1>1, Invariance, PTL

(* collect_results passes on what an engine that ended in time wrote, and  *)
(* nothing of a streaming engine that did not.                             *)
THEOREM ResultsAreSound == Spec => []ResultsAreOfEndedRuns
<1>1. Inv => ResultsAreOfEndedRuns
  BY DEF Inv
<1> QED
  BY <1>1, Invariance, PTL
=============================================================================
