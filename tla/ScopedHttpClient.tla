-------------------------- MODULE ScopedHttpClient --------------------------
(***************************************************************************)
(* The HTTP client of the native engines and of the validation prober      *)
(* (adapters/http.py): a scope check, a token bucket behind a lock, a      *)
(* semaphore, a request.  Fetchers are the coroutines that share a client; *)
(* each has one fetch at a time and may be cancelled at any await.         *)
(*                                                                         *)
(* Time is counted in ticks, and tokens in the ticks it takes to earn      *)
(* them: a token is worth Interval = 1/rate, and a bucket holds what it    *)
(* earns in one second, Capacity (rate tokens, worth 1/rate each).         *)
(***************************************************************************)
EXTENDS Integers, Sequences, FiniteSets, SequencesExt

CONSTANTS
  Fetchers,      \* coroutines that fetch through the client
  Urls,          \* URLs they ask for
  InScope,       \* URLs the scope engine allows
  Interval,      \* ticks a token is worth
  Capacity,      \* ticks' worth of tokens in a full bucket
  Concurrency,   \* permits of the semaphore
  MaxAge,        \* bound on age: older makes no difference to the bucket
  MeterRate,     \* the meter that watches the tokens granted: what it earns
  MeterBurst     \* per tick, and how much of that it keeps

ASSUME ClientAssumption ==
  /\ IsFiniteSet(Fetchers)
  /\ InScope \subseteq Urls
  /\ Interval \in Nat \ {0} /\ Capacity \in Nat \ {0}
  /\ Concurrency \in Nat \ {0}
  /\ MaxAge \in Nat /\ MaxAge >= Capacity /\ MaxAge >= Interval
  /\ MeterRate \in Nat /\ MeterBurst \in Nat

VARIABLES
  pc,            \* pc[f]: where fetcher f is
  tokens,        \* _tokens
  age,           \* time since _updated
  lockQueue,     \* holder of the bucket's lock, then its waiters
  permits,       \* free permits of the semaphore
  permitQueue,   \* waiters of the semaphore
  meter          \* a token bucket of MeterRate and MeterBurst charged with
                 \* every token granted; read by no action

vars == <<pc, tokens, age, lockQueue, permits, permitQueue, meter>>

(* "gone": cancelled.  A fetch that returns leaves its fetcher idle.       *)
Places == {"idle", "locking", "sleeping", "permit", "inflight", "gone"}

AtMost(bound, n) == IF n < bound THEN n ELSE bound

(* A cancelled waiter leaves its queue, where it stands once. *)
Without(queue, f) ==
  IF \E i \in DOMAIN queue : queue[i] = f
  THEN RemoveAt(queue, CHOOSE i \in DOMAIN queue : queue[i] = f)
  ELSE queue

Init ==
  /\ pc          = [f \in Fetchers |-> "idle"]
  /\ tokens      = Capacity
  /\ age         = 0
  /\ lockQueue   = <<>>
  /\ permits     = Concurrency
  /\ permitQueue = <<>>
  /\ meter       = MeterBurst

Goto(f, from, to) ==
  /\ pc[f] = from
  /\ pc' = [pc EXCEPT ![f] = to]

(* fetch: a URL out of scope is answered at once and costs nothing.        *)
Fetch(f, u) ==
  /\ u \in InScope
  /\ Goto(f, "idle", "locking")
  /\ lockQueue' = Append(lockQueue, f)
  /\ UNCHANGED <<tokens, age, permits, permitQueue, meter>>

Refilled == AtMost(Capacity, tokens + age)

(* take returns: the lock is released, and the request waits for a permit. *)
Grant(f) ==
  /\ lockQueue'   = Tail(lockQueue)
  /\ permitQueue' = Append(permitQueue, f)
  /\ meter'       = meter - Interval
  /\ UNCHANGED permits

HasLock(f) == lockQueue # <<>> /\ Head(lockQueue) = f

(* Mutant: the time is noted when a token is missing only. *)
TakeKeepingTime(f) ==
  /\ HasLock(f)
  /\ Refilled >= Interval
  /\ Goto(f, "locking", "permit")
  /\ tokens' = Refilled - Interval
  /\ Grant(f)
  /\ UNCHANGED age

Take(f) ==
  /\ HasLock(f)
  /\ Refilled >= Interval
  /\ Goto(f, "locking", "permit")
  /\ tokens' = Refilled - Interval
  /\ age'    = 0
  /\ Grant(f)

(* Less than a token is left: sleep for the rest of it, with the lock.     *)
Sleep(f) ==
  /\ HasLock(f)
  /\ Refilled < Interval
  /\ Goto(f, "locking", "sleeping")
  /\ tokens' = Refilled
  /\ age'    = 0
  /\ UNCHANGED <<lockQueue, permits, permitQueue, meter>>

(* After the sleep the bucket is emptied, but the time slept is not noted: *)
(* _updated still tells when the sleep began.                              *)
Wake(f) ==
  /\ Goto(f, "sleeping", "permit")
  /\ tokens + age >= Interval
  /\ tokens' = 0
  /\ Grant(f)
  /\ UNCHANGED age

Send(f) ==
  /\ permitQueue # <<>> /\ Head(permitQueue) = f
  /\ permits > 0
  /\ Goto(f, "permit", "inflight")
  /\ permits'     = permits - 1
  /\ permitQueue' = Tail(permitQueue)
  /\ UNCHANGED <<tokens, age, lockQueue, meter>>

(* A response, or an exception made into an error result. *)
Answer(f) ==
  /\ Goto(f, "inflight", "idle")
  /\ permits' = permits + 1
  /\ UNCHANGED <<tokens, age, lockQueue, permitQueue, meter>>

(* Mutants: a cancelled sleeper keeps the lock, a cancelled request its    *)
(* permit.                                                                 *)
CancelKeepingLock(f) ==
  /\ pc[f] \notin {"idle", "gone"}
  /\ pc'          = [pc EXCEPT ![f] = "gone"]
  /\ lockQueue'   = IF pc[f] = "sleeping" THEN lockQueue ELSE Without(lockQueue, f)
  /\ permitQueue' = Without(permitQueue, f)
  /\ permits'     = IF pc[f] = "inflight" THEN permits + 1 ELSE permits
  /\ UNCHANGED <<tokens, age, meter>>
CancelKeepingPermit(f) ==
  /\ pc[f] \notin {"idle", "gone"}
  /\ pc'          = [pc EXCEPT ![f] = "gone"]
  /\ lockQueue'   = Without(lockQueue, f)
  /\ permitQueue' = Without(permitQueue, f)
  /\ UNCHANGED <<permits, tokens, age, meter>>

(* The task is cancelled: "async with" releases the lock or the permit.    *)
Cancel(f) ==
  /\ pc[f] \notin {"idle", "gone"}
  /\ pc'          = [pc EXCEPT ![f] = "gone"]
  /\ lockQueue'   = Without(lockQueue, f)
  /\ permitQueue' = Without(permitQueue, f)
  /\ permits'     = IF pc[f] = "inflight" THEN permits + 1 ELSE permits
  /\ UNCHANGED <<tokens, age, meter>>

Tick ==
  /\ age'   = AtMost(MaxAge, age + 1)
  /\ meter' = AtMost(MeterBurst, meter + MeterRate)
  /\ UNCHANGED <<pc, tokens, lockQueue, permits, permitQueue>>

Advance(f) == Take(f) \/ Sleep(f) \/ Wake(f) \/ Send(f) \/ Answer(f)

Next ==
  \/ \E f \in Fetchers :
       \/ \E u \in Urls : Fetch(f, u)
       \/ Advance(f)
       \/ Cancel(f)
  \/ Tick

(* Time passes, and a coroutine that can go on does: the event loop runs   *)
(* ready tasks in turn and every request has a time limit.                 *)
Fairness == WF_vars(Tick) /\ \A f \in Fetchers : WF_vars(Advance(f))

Spec     == Init /\ [][Next]_vars
FairSpec == Spec /\ Fairness

-----------------------------------------------------------------------------
(* The bucket holds between nothing and its capacity, the semaphore between *)
(* none and all of its permits, and each fetcher is in one place.           *)
TypeOK ==
  /\ pc \in [Fetchers -> Places]
  /\ tokens \in 0 .. Capacity
  /\ age \in 0 .. MaxAge
  /\ lockQueue \in Seq(Fetchers)
  /\ permits \in 0 .. Concurrency
  /\ permitQueue \in Seq(Fetchers)
  /\ meter \in Int /\ meter <= MeterBurst

(* The meter is never overdrawn: in every period of t ticks tokens worth   *)
(* at most MeterBurst + t * MeterRate are granted.  With rate 1 and burst  *)
(* Capacity that is the rate max_requests_per_second asks for (http.py:7,  *)
(* "enforces a token-bucket request rate"), which the client exceeds; with *)
(* rate 2 and burst Capacity + Interval it is what the client guarantees,  *)
(* the time of each sleep being credited twice.                            *)
WithinMeter == meter >= 0

(* No more requests are in flight than the target's ceiling allows, and no *)
(* permit is lost, whatever is cancelled while holding or awaiting one.    *)
PermitsAccounted ==
  permits + Cardinality({f \in Fetchers : pc[f] = "inflight"}) = Concurrency

Stands(f, queue) == \E i \in DOMAIN queue : queue[i] = f

(* Those that are in one of the places stand in the queue, once, and       *)
(* nobody else does.                                                       *)
Queued(queue, places) ==
  /\ \A i, j \in DOMAIN queue : queue[i] = queue[j] => i = j
  /\ \A f \in Fetchers : Stands(f, queue) <=> pc[f] \in places

(* At most one fetcher sleeps for a token and it has the lock; all that    *)
(* wait for the lock or a permit queue once and are still there.           *)
OneSleeper ==
  /\ \A f \in Fetchers : pc[f] = "sleeping" => HasLock(f)
  /\ Queued(lockQueue, {"locking", "sleeping"})
  /\ Queued(permitQueue, {"permit"})

(* What is handed from one fetcher to the next, the lock and the permits,  *)
(* has one owner at a time and is lost by nobody's cancellation.           *)
HandoversAreExact == PermitsAccounted /\ OneSleeper

(* A fetch ends: no other fetcher, sleeping with the lock, in flight or    *)
(* cancelled, blocks it for ever.                                          *)
EveryFetchReturns ==
  \A f \in Fetchers : pc[f] = "locking" ~> pc[f] \in {"idle", "gone"}
=============================================================================
