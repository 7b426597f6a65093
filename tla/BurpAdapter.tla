----------------------------- MODULE BurpAdapter -----------------------------
(***************************************************************************)
(* Scans that run the one adapter of a Burp server at the same time        *)
(* (adapters/external/burp.py, driven by _run_engine): each starts a scan  *)
(* in Burp and polls it until it ends; all of them share the transport and *)
(* its HTTP client, which the first one to finish closes under the others. *)
(*                                                                         *)
(* A request is two steps, sent and answered, with other runs between      *)
(* them.  Time is counted in polls.  The variables lost, disturbed and     *)
(* overlapped are read by no action: they tell what a run met, for the     *)
(* properties.                                                             *)
(***************************************************************************)
EXTENDS Integers, FiniteSets

CONSTANTS
  Runs,          \* engine runs of the adapter, each of its own scan
  MaxPolls,      \* max_poll_seconds, in poll intervals
  NoClient       \* None

ASSUME BurpAssumption ==
  /\ IsFiniteSet(Runs)
  /\ MaxPolls \in Nat
  /\ NoClient \notin Nat

VARIABLES
  pc,            \* pc[r]: where _run_engine is
  held,          \* _client of the transport: NoClient or the client's number
  open,          \* the clients that are open
  using,         \* using[r]: the client the request in flight was sent with
  waited,        \* waited[r]: polls slept after
  scan,          \* scan[r]: its scan in Burp, which ends succeeded, finished,
                 \* completed, paused or failed
  got,           \* the runs that hold the issues of their scan
  lost,          \* lost[r]: "nothing", or to what the run lost its issues:
                 \* "to a cleanup" of the client it used, or "otherwise"
  disturbed,     \* runs that went on while another run's cleanup did
  overlapped     \* two cleanups went on at the same time

client  == <<held, open>>
history == <<lost, disturbed, overlapped>>
vars    == <<pc, client, using, waited, scan, got, history>>

Requesting == {"health", "start", "poll"}
Busy       == Requesting \cup {"sleep", "normalize", "cleanup", "closing"}

Init ==
  /\ pc         = [r \in Runs |-> "idle"]
  /\ held       = NoClient
  /\ open       = {}
  /\ using      = [r \in Runs |-> NoClient]
  /\ waited     = [r \in Runs |-> 0]
  /\ scan       = [r \in Runs |-> "none"]
  /\ got        = {}
  /\ lost       = [r \in Runs |-> "nothing"]
  /\ disturbed  = {}
  /\ overlapped = FALSE

Goto(r, from, to) == pc[r] = from /\ pc' = [pc EXCEPT ![r] = to]

(* The run gives up what Burp found and goes on at the given place. *)
GiveUp(r, to, why) ==
  /\ pc'   = [pc EXCEPT ![r] = to]
  /\ got'  = got \ {r}
  /\ lost' = [lost EXCEPT ![r] = why]

(* _run_engine: a run that begins while another cleans up. *)
Begin(r) ==
  /\ Goto(r, "idle", "health")
  /\ disturbed' = IF \E q \in Runs : pc[q] = "closing" THEN disturbed \cup {r} ELSE disturbed
  /\ UNCHANGED <<client, using, waited, scan, got, lost, overlapped>>

-----------------------------------------------------------------------------
(* A request.  A client's number is one that is in use nowhere.            *)
Fresh ==
  CHOOSE n \in 1 .. (Cardinality(Runs) + 2) :
    n \notin open \cup {held} \cup {using[q] : q \in Runs}

(* _ensure and the sending of the request, with no await between them: the *)
(* transport's client, or a new one.                                       *)
Send(r) ==
  /\ pc[r] \in Requesting /\ using[r] = NoClient
  /\ \/ held = NoClient /\ held' = Fresh /\ open' = open \cup {Fresh}
     \/ held \in open /\ UNCHANGED client
  /\ using' = [using EXCEPT ![r] = held']
  /\ UNCHANGED <<pc, waited, scan, got, history>>

(* Where a request that fails leads: a run that is not healthy ends there, *)
(* the others clean up.                                                    *)
AfterFailure(r) == IF pc[r] = "health" THEN "ended" ELSE "cleanup"

(* A client that was closed but is still held raises at once, and post and *)
(* get make an error of it.                                                *)
SendOnClosed(r) ==
  /\ pc[r] \in Requesting /\ using[r] = NoClient
  /\ held # NoClient /\ held \notin open
  /\ GiveUp(r, AfterFailure(r), "to a cleanup")
  /\ UNCHANGED <<client, using, waited, scan, disturbed, overlapped>>

Received(r) == using[r] # NoClient /\ using' = [using EXCEPT ![r] = NoClient]

(* The request in flight fails: the network did, or its client was closed. *)
RequestFails(r) ==
  /\ Received(r)
  /\ GiveUp(r, AfterFailure(r), IF using[r] \in open THEN "otherwise" ELSE "to a cleanup")
  /\ UNCHANGED <<client, waited, scan, disturbed, overlapped>>

(* health_check: 401 and 403 are degraded, and the run goes on. *)
HealthAnswered(r) ==
  /\ Goto(r, "health", "start")
  /\ Received(r)
  /\ UNCHANGED <<client, waited, scan, got, history>>

Unavailable(r) ==
  /\ pc[r] = "health" /\ Received(r)
  /\ GiveUp(r, "ended", "otherwise")
  /\ UNCHANGED <<client, waited, scan, disturbed, overlapped>>

NextPoll(polls) == IF polls < MaxPolls THEN "poll" ELSE "cleanup"

(* execute_scan: Burp starts the scan and says its id. *)
Started(r) ==
  /\ Goto(r, "start", NextPoll(0))
  /\ Received(r)
  /\ scan' = [scan EXCEPT ![r] = "running"]
  /\ lost' = [lost EXCEPT ![r] = IF MaxPolls = 0 THEN "otherwise" ELSE @]
  /\ UNCHANGED <<client, waited, got, disturbed, overlapped>>

(* It answers with another status, or with no id. *)
Refused(r) ==
  /\ pc[r] = "start" /\ Received(r)
  /\ GiveUp(r, "cleanup", "otherwise")
  /\ UNCHANGED <<client, waited, scan, disturbed, overlapped>>

(* _poll: the issues of a scan that ended, in whatever way. *)
PollEnded(r) ==
  /\ scan[r] = "ended"
  /\ Goto(r, "poll", "normalize")
  /\ Received(r)
  /\ got' = got \cup {r}
  /\ UNCHANGED <<client, waited, scan, history>>

PollRunning(r) ==
  /\ scan[r] = "running"
  /\ Goto(r, "poll", "sleep")
  /\ Received(r)
  /\ UNCHANGED <<client, waited, scan, got, history>>

(* Mutant: the time slept is not counted. *)
WakeUncounted(r) ==
  /\ Goto(r, "sleep", NextPoll(waited[r]))
  /\ UNCHANGED <<client, using, waited, scan, got, history>>

Wake(r) ==
  /\ Goto(r, "sleep", NextPoll(waited[r] + 1))
  /\ waited' = [waited EXCEPT ![r] = @ + 1]
  /\ lost' = [lost EXCEPT ![r] = IF waited[r] + 1 < MaxPolls THEN @ ELSE "otherwise"]
  /\ UNCHANGED <<client, using, scan, got, disturbed, overlapped>>

-----------------------------------------------------------------------------
(* normalize_results: an observation for each issue, or an exception on    *)
(* one of another shape, which ends the run without a cleanup.             *)
Normalize(r) ==
  /\ Goto(r, "normalize", "cleanup")
  /\ UNCHANGED <<client, using, waited, scan, got, history>>

NormalizeRaises(r) ==
  /\ pc[r] = "normalize"
  /\ GiveUp(r, "ended", "otherwise")
  /\ UNCHANGED <<client, using, waited, scan, disturbed, overlapped>>

Others(r) == {q \in Runs \ {r} : pc[q] \in Busy}

(* aclose, up to its await: there is nothing to close, or another run is   *)
(* closing it, or the client is closed from now on.                        *)
NothingToClose(r) ==
  /\ held = NoClient
  /\ Goto(r, "cleanup", "ended")
  /\ UNCHANGED <<client, using, waited, scan, got, history>>

AlreadyClosed(r) ==
  /\ held # NoClient /\ held \notin open
  /\ Goto(r, "cleanup", "ended")
  /\ held' = NoClient
  /\ overlapped' = (overlapped \/ \E q \in Runs : pc[q] = "closing")
  /\ UNCHANGED <<open, using, waited, scan, got, lost, disturbed>>

(* Mutant: the client is dropped without being closed. *)
CloseNothing(r) ==
  /\ held \in open
  /\ Goto(r, "cleanup", "ended")
  /\ held' = NoClient
  /\ UNCHANGED <<open, using, waited, scan, got, history>>

Close(r) ==
  /\ held \in open
  /\ Goto(r, "cleanup", "closing")
  /\ open' = open \ {held}
  /\ disturbed' = disturbed \cup Others(r)
  /\ overlapped' = (overlapped \/ \E q \in Runs : pc[q] = "closing")
  /\ UNCHANGED <<held, using, waited, scan, got, lost>>

(* Mutant: the client is closed and kept. *)
ForgetNothing(r) ==
  /\ Goto(r, "closing", "ended")
  /\ UNCHANGED <<client, using, waited, scan, got, history>>

(* After the await: whatever client the transport holds by now is          *)
(* forgotten.                                                              *)
Forget(r) ==
  /\ Goto(r, "closing", "ended")
  /\ held' = NoClient
  /\ UNCHANGED <<open, using, waited, scan, got, history>>

-----------------------------------------------------------------------------
(* The scan in Burp ends, or not.  What Burp does for a run that no longer *)
(* polls is nobody's concern.                                              *)
BurpEnds(r) ==
  /\ pc[r] \in {"poll", "sleep"}
  /\ scan[r] = "running"
  /\ scan' = [scan EXCEPT ![r] = "ended"]
  /\ UNCHANGED <<pc, client, using, waited, got, history>>

Step(r) ==
  \/ Send(r) \/ SendOnClosed(r) \/ RequestFails(r)
  \/ HealthAnswered(r) \/ Unavailable(r) \/ Started(r) \/ Refused(r)
  \/ PollEnded(r) \/ PollRunning(r) \/ Wake(r)
  \/ Normalize(r) \/ NormalizeRaises(r)
  \/ NothingToClose(r) \/ AlreadyClosed(r) \/ Close(r) \/ Forget(r)

Done == (\A r \in Runs : pc[r] = "ended") /\ UNCHANGED vars

Next == (\E r \in Runs : Begin(r) \/ Step(r) \/ BurpEnds(r)) \/ Done

Spec == Init /\ [][Next]_vars

(* The event loop schedules a coroutine that can go on, a request ends     *)
(* within its timeout of 30 seconds, and a sleep ends.                     *)
FairSpec == Spec /\ \A r \in Runs : WF_vars(Step(r))

-----------------------------------------------------------------------------
TypeOK ==
  /\ pc \in [Runs -> {"idle", "ended"} \cup Busy]
  /\ held \in Nat \cup {NoClient} /\ open \subseteq Nat
  /\ using \in [Runs -> Nat \cup {NoClient}]
  /\ waited \in [Runs -> Nat] /\ got \subseteq Runs
  /\ scan \in [Runs -> {"none", "running", "ended"}]
  /\ lost \in [Runs -> {"nothing", "to a cleanup", "otherwise"}]
  /\ disturbed \subseteq Runs /\ overlapped \in BOOLEAN

(* A run that no other run's cleanup met ends with every issue its scan in *)
(* Burp has, unless the network, the server, its budget or the shape of an *)
(* issue kept it from them: another run costs it nothing by having been    *)
(* there before, or by polling at the same time.                           *)
OnlyCleanupsDisturb ==
  \A r \in Runs \ disturbed :
    /\ lost[r] # "to a cleanup"
    /\ pc[r] = "ended" /\ lost[r] = "nothing" => scan[r] = "ended" /\ r \in got

(* An open client is the one the transport holds, so that the next cleanup *)
(* closes it, also after runs that ended without one; only cleanups at the *)
(* same time may forget a client that is open.                             *)
ClientsAreHeld == ~overlapped => open \subseteq {held}

(* A run that was begun ends, whether or not its scan in Burp ever does.   *)
EveryRunEnds == \A r \in Runs : pc[r] = "health" ~> pc[r] = "ended"
=============================================================================
