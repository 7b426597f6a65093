----------------------- MODULE ScopedHttpClientProofs ------------------------
(***************************************************************************)
(* The client never has more requests in flight than its semaphore has     *)
(* permits, and never grants tokens faster than twice the configured rate, *)
(* for any number of coroutines, any rate and any interleaving of their    *)
(* steps, their cancellations and time.                                    *)
(***************************************************************************)
EXTENDS ScopedHttpClient, FiniteSetTheorems, SequenceTheorems, TLAPS

InFlight == {f \in Fetchers : pc[f] = "inflight"}

(* Everything but the permits and the meter is of its type. *)
Shape ==
  /\ pc \in [Fetchers -> Places]
  /\ tokens \in 0 .. Capacity
  /\ age \in 0 .. MaxAge
  /\ lockQueue \in Seq(Fetchers)
  /\ permitQueue \in Seq(Fetchers)

Permits == permits \in Nat /\ PermitsAccounted

SleeperHasLock == \A f \in Fetchers : pc[f] = "sleeping" => HasLock(f)

Sleeping == \E f \in Fetchers : pc[f] = "sleeping"

(* The meter has at least what the bucket can still grant: while somebody  *)
(* sleeps, the time since _updated will be credited once more.             *)
Covered ==
  /\ meter \in Int /\ meter <= MeterBurst
  /\ Sleeping  => meter >= AtMost(Capacity + Interval, tokens + 2 * age)
  /\ ~Sleeping => meter >= AtMost(Capacity, tokens + age)

-----------------------------------------------------------------------------
(* A queue without one of its members is a queue, with the same head unless *)
(* it is the head that left.                                                *)
LEMMA WithoutKeepsHead ==
  ASSUME NEW q \in Seq(Fetchers), NEW f
  PROVE  /\ Without(q, f) \in Seq(Fetchers)
         /\ q # <<>> /\ Head(q) # f
              => Without(q, f) # <<>> /\ Head(Without(q, f)) = Head(q)
<1>1. CASE \E i \in DOMAIN q : q[i] = f
  <2> DEFINE i == CHOOSE j \in DOMAIN q : q[j] = f
             left == SubSeq(q, 1, i - 1)
             right == SubSeq(q, i + 1, Len(q))
  <2>1. i \in 1 .. Len(q) /\ q[i] = f
    BY <1>1
  <2>2. Without(q, f) = left \o right
    BY <1>1 DEF Without, RemoveAt
  <2>3. left \in Seq(Fetchers) /\ right \in Seq(Fetchers) /\ Len(left) = i - 1
    <3> HIDE DEF i
    <3> QED
      BY <2>1
  <2>4. q # <<>> /\ Head(q) # f => i # 1
    <3> HIDE DEF i
    <3> QED
      BY <2>1
  <2>5. i # 1 => left[1] = q[1]
    <3> HIDE DEF i
    <3> QED
      BY <2>1
  <2> HIDE DEF left, right, i
  <2>6. left \o right \in Seq(Fetchers)
    BY <2>3
  <2>7. i # 1 => /\ left \o right # <<>>
                 /\ (left \o right)[1] = left[1]
    <3>1. Len(left \o right) = Len(left) + Len(right)
      BY <2>3
    <3> QED
      BY <2>1, <2>3, <3>1
  <2> QED
    BY <2>2, <2>4, <2>5, <2>6, <2>7
<1>2. CASE ~ \E i \in DOMAIN q : q[i] = f
  BY <1>2 DEF Without
<1> QED
  BY <1>1, <1>2

(* Only the holder of the lock sleeps: every step keeps the shape of the   *)
(* state and leaves the lock to the sleeper.                               *)
LEMMA ShapeHolds == Spec => [](Shape /\ SleeperHasLock)
<1> USE ClientAssumption
<1>1. Init => Shape /\ SleeperHasLock
  BY DEF Init, Shape, SleeperHasLock, Places
<1>2. Shape /\ SleeperHasLock /\ [Next]_vars => (Shape /\ SleeperHasLock)'
  <2> SUFFICES ASSUME Shape, SleeperHasLock, [Next]_vars
               PROVE  Shape' /\ SleeperHasLock'
    OBVIOUS
  <2>1. ASSUME NEW f \in Fetchers, NEW u \in Urls, Fetch(f, u)
        PROVE  Shape' /\ SleeperHasLock'
    <3>1. Shape'
      BY <2>1 DEF Shape, Fetch, Goto, Places
    <3>2. \A g \in Fetchers : pc'[g] = "sleeping" => pc[g] = "sleeping"
      BY <2>1 DEF Shape, Fetch, Goto
    <3>3. lockQueue # <<>> => lockQueue' # <<>> /\ Head(lockQueue') = Head(lockQueue)
      BY <2>1 DEF Shape, Fetch
    <3> QED
      BY <3>1, <3>2, <3>3 DEF SleeperHasLock, HasLock
  <2>2. ASSUME NEW f \in Fetchers, Take(f)
        PROVE  Shape' /\ SleeperHasLock'
    <3>1. Shape'
      BY <2>2 DEF Shape, Take, Goto, Grant, HasLock, Refilled, AtMost, Places
    <3>2. \A g \in Fetchers : pc'[g] # "sleeping"
      BY <2>2 DEF Shape, SleeperHasLock, Take, Goto, HasLock
    <3> QED
      BY <3>1, <3>2 DEF SleeperHasLock
  <2>3. ASSUME NEW f \in Fetchers, Sleep(f)
        PROVE  Shape' /\ SleeperHasLock'
    <3>1. Shape'
      BY <2>3 DEF Shape, Sleep, Goto, HasLock, Refilled, AtMost, Places
    <3>2. \A g \in Fetchers : pc'[g] = "sleeping" => g = f \/ pc[g] = "sleeping"
      BY <2>3 DEF Shape, Sleep, Goto
    <3> QED
      BY <2>3, <3>1, <3>2 DEF SleeperHasLock, HasLock, Sleep
  <2>4. ASSUME NEW f \in Fetchers, Wake(f)
        PROVE  Shape' /\ SleeperHasLock'
    <3>1. Shape'
      BY <2>4 DEF Shape, SleeperHasLock, Wake, Goto, Grant, HasLock, Places
    <3>2. \A g \in Fetchers : pc'[g] # "sleeping"
      BY <2>4 DEF Shape, SleeperHasLock, Wake, Goto, HasLock
    <3> QED
      BY <3>1, <3>2 DEF SleeperHasLock
  <2>5. ASSUME NEW f \in Fetchers, Send(f) \/ Answer(f)
        PROVE  Shape' /\ SleeperHasLock'
    <3>1. Shape'
      <4>1. CASE Send(f)
        BY <4>1 DEF Shape, Send, Goto, Places
      <4>2. CASE Answer(f)
        BY <4>2 DEF Shape, Answer, Goto, Places
      <4> QED
        BY <2>5, <4>1, <4>2
    <3>2. \A g \in Fetchers : pc'[g] = "sleeping" => pc[g] = "sleeping"
      BY <2>5 DEF Shape, Send, Answer, Goto
    <3> QED
      BY <2>5, <3>1, <3>2 DEF SleeperHasLock, HasLock, Send, Answer
  <2>6. ASSUME NEW f \in Fetchers, Cancel(f)
        PROVE  Shape' /\ SleeperHasLock'
    <3>1. Shape'
      BY <2>6, WithoutKeepsHead DEF Shape, Cancel, Places
    <3>2. \A g \in Fetchers : pc'[g] = "sleeping" => pc[g] = "sleeping" /\ g # f
      BY <2>6 DEF Shape, Cancel
    <3>3. lockQueue # <<>> /\ Head(lockQueue) # f
            => lockQueue' # <<>> /\ Head(lockQueue') = Head(lockQueue)
      BY <2>6, WithoutKeepsHead DEF Shape, Cancel
    <3> QED
      BY <3>1, <3>2, <3>3 DEF SleeperHasLock, HasLock
  <2>7. CASE Tick
    BY <2>7 DEF Shape, SleeperHasLock, HasLock, Tick, AtMost
  <2>8. CASE UNCHANGED vars
    BY <2>8 DEF Shape, SleeperHasLock, HasLock, vars
  <2> QED
    BY <2>1, <2>2, <2>3, <2>4, <2>5, <2>6, <2>7, <2>8 DEF Next, Advance
<1> QED
  BY <1>1, <1>2, PTL DEF Spec

-----------------------------------------------------------------------------
(* A step that leaves the fetchers in flight alone, one that adds f, and   *)
(* one that takes f away.                                                  *)
LEMMA InFlightCount ==
  ASSUME Shape, NEW f \in Fetchers
  PROVE  /\ Cardinality(InFlight) \in Nat
         /\ f \notin InFlight =>
              Cardinality(InFlight \cup {f}) = Cardinality(InFlight) + 1
         /\ f \in InFlight =>
              Cardinality(InFlight \ {f}) = Cardinality(InFlight) - 1
<1>1. IsFiniteSet(InFlight)
  BY ClientAssumption, FS_Subset DEF InFlight
<1> QED
  BY <1>1, FS_CardinalityType, FS_AddElement, FS_RemoveElement

(* A permit is free or belongs to one request in flight.                   *)
LEMMA PermitsHold == Spec => []Permits
<1> USE ClientAssumption
<1>1. Init => Permits
  <2> SUFFICES ASSUME Init PROVE Permits
    OBVIOUS
  <2>1. {f \in Fetchers : pc[f] = "inflight"} = {}
    BY DEF Init
  <2>2. Cardinality({f \in Fetchers : pc[f] = "inflight"}) = 0
    BY <2>1, FS_EmptySet
  <2> QED
    BY <2>2 DEF Init, Permits, PermitsAccounted
<1>2. Shape /\ Permits /\ [Next]_vars => Permits'
  <2> SUFFICES ASSUME Shape, Permits, [Next]_vars PROVE Permits'
    OBVIOUS
  <2> DEFINE Same == UNCHANGED permits /\ InFlight' = InFlight
  <2>1. Same => Permits'
    BY DEF Permits, PermitsAccounted, InFlight
  <2>2. ASSUME NEW f \in Fetchers, NEW u \in Urls, Fetch(f, u) PROVE Permits'
    BY <2>1, <2>2 DEF Shape, Fetch, Goto, InFlight
  <2>3. ASSUME NEW f \in Fetchers, Take(f) \/ Sleep(f) \/ Wake(f) PROVE Permits'
    BY <2>1, <2>3 DEF Shape, Take, Sleep, Wake, Grant, Goto, InFlight
  <2>4. ASSUME NEW f \in Fetchers, Send(f) PROVE Permits'
    <3>1. f \notin InFlight /\ InFlight' = InFlight \cup {f}
      BY <2>4 DEF Shape, Send, Goto, InFlight
    <3> QED
      BY <2>4, <3>1, InFlightCount DEF Permits, PermitsAccounted, InFlight, Send
  <2>5. ASSUME NEW f \in Fetchers, Answer(f) PROVE Permits'
    <3>1. f \in InFlight /\ InFlight' = InFlight \ {f}
      BY <2>5 DEF Shape, Answer, Goto, InFlight
    <3> QED
      BY <2>5, <3>1, InFlightCount DEF Permits, PermitsAccounted, InFlight, Answer
  <2>6. ASSUME NEW f \in Fetchers, Cancel(f) PROVE Permits'
    <3>1. CASE pc[f] = "inflight"
      <4>1. f \in InFlight /\ InFlight' = InFlight \ {f}
        BY <2>6, <3>1 DEF Shape, Cancel, InFlight
      <4> QED
        BY <2>6, <3>1, <4>1, InFlightCount DEF Permits, PermitsAccounted, InFlight, Cancel
    <3>2. CASE pc[f] # "inflight"
      BY <2>1, <2>6, <3>2 DEF Shape, Cancel, InFlight
    <3> QED
      BY <3>1, <3>2
  <2>7. CASE Tick \/ UNCHANGED vars
    BY <2>1, <2>7 DEF Tick, vars, InFlight
  <2> QED
    BY <2>2, <2>3, <2>4, <2>5, <2>6, <2>7 DEF Next, Advance
<1> QED
  BY <1>1, <1>2, ShapeHolds, PTL DEF Spec

-----------------------------------------------------------------------------
(* Who stands in a queue after one was added, the first has left, or one   *)
(* who stood there once has left.                                          *)
LEMMA AppendStands ==
  ASSUME NEW q \in Seq(Fetchers), NEW f \in Fetchers, ~Stands(f, q),
         \A i, j \in DOMAIN q : q[i] = q[j] => i = j
  PROVE  /\ \A i, j \in DOMAIN Append(q, f) : Append(q, f)[i] = Append(q, f)[j] => i = j
         /\ \A g \in Fetchers : Stands(g, Append(q, f)) <=> g = f \/ Stands(g, q)
<1> DEFINE a == Append(q, f)
<1>1. /\ DOMAIN a = 1 .. Len(q) + 1 /\ DOMAIN q = 1 .. Len(q) /\ Len(q) \in Nat
      /\ a[Len(q) + 1] = f /\ \A i \in 1 .. Len(q) : a[i] = q[i]
  OBVIOUS
<1> HIDE DEF a
<1>2. \A i, j \in DOMAIN a : a[i] = a[j] => i = j
  BY <1>1 DEF Stands
<1>3. \A g \in Fetchers : Stands(g, a) <=> g = f \/ Stands(g, q)
  BY <1>1 DEF Stands
<1> QED
  BY <1>2, <1>3 DEF a

LEMMA TailStands ==
  ASSUME NEW q \in Seq(Fetchers), q # <<>>,
         \A i, j \in DOMAIN q : q[i] = q[j] => i = j
  PROVE  /\ \A i, j \in DOMAIN Tail(q) : Tail(q)[i] = Tail(q)[j] => i = j
         /\ \A g \in Fetchers : Stands(g, Tail(q)) <=> g # Head(q) /\ Stands(g, q)
<1> DEFINE t == Tail(q)
<1>1. /\ DOMAIN t = 1 .. Len(q) - 1 /\ DOMAIN q = 1 .. Len(q) /\ Len(q) \in Nat \ {0}
      /\ Head(q) = q[1] /\ \A i \in 1 .. Len(q) - 1 : t[i] = q[i + 1]
  OBVIOUS
<1> HIDE DEF t
<1>2. \A i, j \in DOMAIN t : t[i] = t[j] => i = j
  <2> SUFFICES ASSUME NEW i \in DOMAIN t, NEW j \in DOMAIN t, t[i] = t[j] PROVE i = j
    OBVIOUS
  <2>1. q[i + 1] = q[j + 1] /\ i + 1 \in DOMAIN q /\ j + 1 \in DOMAIN q
    BY <1>1
  <2> QED
    BY <1>1, <2>1
<1>3. ASSUME NEW g \in Fetchers PROVE Stands(g, t) <=> g # Head(q) /\ Stands(g, q)
  <2>1. ASSUME NEW i \in DOMAIN t, t[i] = g PROVE g # Head(q) /\ Stands(g, q)
    <3>1. i + 1 \in DOMAIN q /\ 1 \in DOMAIN q /\ q[i + 1] = g /\ i + 1 # 1
      BY <1>1, <2>1
    <3> QED
      BY <1>1, <3>1 DEF Stands
  <2>2. ASSUME g # Head(q), NEW i \in DOMAIN q, q[i] = g PROVE Stands(g, t)
    <3>1. i - 1 \in DOMAIN t /\ t[i - 1] = g
      BY <1>1, <2>2
    <3> QED
      BY <3>1 DEF Stands
  <2> QED
    BY <2>1, <2>2 DEF Stands
<1> QED
  BY <1>2, <1>3 DEF t

LEMMA WithoutStands ==
  ASSUME NEW q \in Seq(Fetchers), NEW f,
         \A i, j \in DOMAIN q : q[i] = q[j] => i = j
  PROVE  /\ \A i, j \in DOMAIN Without(q, f) : Without(q, f)[i] = Without(q, f)[j] => i = j
         /\ \A g \in Fetchers : Stands(g, Without(q, f)) <=> g # f /\ Stands(g, q)
<1>1. CASE Stands(f, q)
  <2> DEFINE k == CHOOSE j \in DOMAIN q : q[j] = f
             w == Without(q, f)
             left == SubSeq(q, 1, k - 1)
             right == SubSeq(q, k + 1, Len(q))
  <2>1. k \in 1 .. Len(q) /\ q[k] = f /\ Len(q) \in Nat /\ DOMAIN q = 1 .. Len(q)
    BY <1>1 DEF Stands
  <2>2. w = left \o right
    BY <1>1 DEF Without, RemoveAt, Stands
  <2> HIDE DEF k, w
  <2>3. /\ left \in Seq(Fetchers) /\ Len(left) = k - 1
        /\ right \in Seq(Fetchers) /\ Len(right) = Len(q) - k
        /\ \A i \in 1 .. k - 1 : left[i] = q[i]
        /\ \A i \in 1 .. Len(q) - k : right[i] = q[k + i]
    <3>1. \A i \in 1 .. Len(q) : q[i] \in Fetchers
      OBVIOUS
    <3>2. /\ left \in Seq(Fetchers) /\ Len(left) = k - 1
          /\ \A i \in 1 .. k - 1 : left[i] = q[1 + i - 1]
      <4>1. \A i \in 1 .. k - 1 : q[i] \in Fetchers
        BY <2>1, <3>1
      <4> QED
        BY <2>1, <4>1, SubSeqProperties
    <3>3. /\ right \in Seq(Fetchers) /\ Len(right) = Len(q) - k
          /\ \A i \in 1 .. Len(q) - k : right[i] = q[k + 1 + i - 1]
      <4>1. \A i \in k + 1 .. Len(q) : q[i] \in Fetchers
        BY <2>1, <3>1
      <4>2. k + 1 \in Int /\ Len(q) \in Int
        BY <2>1
      <4>3. /\ right \in Seq(Fetchers)
            /\ Len(right) = IF k + 1 <= Len(q) THEN Len(q) - (k + 1) + 1 ELSE 0
            /\ \A i \in 1 .. Len(q) - (k + 1) + 1 : right[i] = q[k + 1 + i - 1]
        BY <4>1, <4>2, SubSeqProperties
      <4> HIDE DEF left, right
      <4>4. Len(q) - (k + 1) + 1 = Len(q) - k /\ (~(k + 1 <= Len(q)) => Len(q) - k = 0)
        <5>1. k \in Int /\ Len(q) \in Int /\ k <= Len(q)
          BY <2>1
        <5>2. \A a, b \in Int : a - (b + 1) + 1 = a - b /\ (b <= a /\ ~(b + 1 <= a) => a - b = 0)
          OBVIOUS
        <5> QED
          BY <5>1, <5>2
      <4> QED
        BY <4>3, <4>4
    <3>4. \A i \in Int : 1 + i - 1 = i /\ k + 1 + i - 1 = k + i
      BY <2>1
    <3> HIDE DEF left, right
    <3> QED
      BY <2>1, <3>2, <3>3, <3>4
  <2> HIDE DEF left, right
  <2>4. /\ DOMAIN w = 1 .. Len(q) - 1
        /\ \A i \in 1 .. Len(q) - 1 : w[i] = IF i < k THEN q[i] ELSE q[i + 1]
    <3>1. /\ w \in Seq(Fetchers) /\ Len(w) = Len(left) + Len(right)
          /\ \A i \in 1 .. Len(left) + Len(right) :
               w[i] = IF i <= Len(left) THEN left[i] ELSE right[i - Len(left)]
      <4>1. left \in Seq(Fetchers) /\ right \in Seq(Fetchers)
        BY <2>3
      <4>2. /\ left \o right \in Seq(Fetchers) /\ Len(left \o right) = Len(left) + Len(right)
            /\ \A i \in 1 .. Len(left) + Len(right) :
                 (left \o right)[i] = IF i <= Len(left) THEN left[i] ELSE right[i - Len(left)]
        BY <4>1, ConcatProperties, Zenon
      <4> QED
        BY <2>2, <4>2, Zenon
    <3>2. DOMAIN w = 1 .. Len(w) /\ Len(w) = Len(q) - 1
      <4>1. DOMAIN w = 1 .. Len(w)
        BY <3>1
      <4>2. Len(w) = (k - 1) + (Len(q) - k)
        BY <2>3, <3>1
      <4>3. \A a, b \in Int : (b - 1) + (a - b) = a - 1
        OBVIOUS
      <4>4. k \in Int /\ Len(q) \in Int
        BY <2>1
      <4>5. Len(w) = Len(q) - 1
        BY <4>2, <4>3, <4>4
      <4> QED
        BY <4>1, <4>5
    <3>3. ASSUME NEW i \in 1 .. Len(q) - 1 PROVE w[i] = IF i < k THEN q[i] ELSE q[i + 1]
      <4>1. CASE i < k
        <5>1. i \in 1 .. k - 1 /\ i \in 1 .. Len(left) + Len(right) /\ i <= Len(left)
          BY <2>1, <2>3, <4>1
        <5>2. w[i] = left[i]
          BY <3>1, <5>1
        <5> QED
          BY <2>3, <4>1, <5>1, <5>2
      <4>2. CASE ~(i < k)
        <5>1. i - (k - 1) \in 1 .. Len(q) - k /\ k + (i - (k - 1)) = i + 1
          BY <2>1, <4>2
        <5>2. i \in 1 .. Len(left) + Len(right) /\ ~(i <= Len(left)) /\ Len(left) = k - 1
          BY <2>1, <2>3, <4>2
        <5>3. w[i] = right[i - (k - 1)]
          BY <3>1, <5>2
        <5> QED
          BY <2>3, <4>2, <5>1, <5>3
      <4> QED
        BY <4>1, <4>2
    <3> QED
      BY <3>2, <3>3
  <2>5. ASSUME NEW i \in DOMAIN w PROVE \E m \in DOMAIN q : m # k /\ w[i] = q[m] /\ i = IF m < k THEN m ELSE m - 1
    <3>1. CASE i < k
      BY <2>1, <2>4, <3>1
    <3>2. CASE ~(i < k)
      <4>1. i + 1 \in DOMAIN q /\ i + 1 # k /\ w[i] = q[i + 1] /\ ~(i + 1 < k) /\ i = (i + 1) - 1
        BY <2>1, <2>4, <3>2
      <4> QED
        BY <4>1
    <3> QED
      BY <3>1, <3>2
  <2>6. ASSUME NEW m \in DOMAIN q, m # k PROVE \E i \in DOMAIN w : w[i] = q[m]
    <3>1. CASE m < k
      BY <2>1, <2>4, <3>1
    <3>2. CASE ~(m < k)
      <4>1. m - 1 \in DOMAIN w /\ ~(m - 1 < k) /\ (m - 1) + 1 = m
        BY <2>1, <2>4, <2>6, <3>2
      <4> QED
        BY <2>4, <4>1
    <3> QED
      BY <3>1, <3>2
  <2>7. \A i, j \in DOMAIN w : w[i] = w[j] => i = j
    BY <2>5
  <2>8. \A g \in Fetchers : Stands(g, w) <=> g # f /\ Stands(g, q)
    BY <2>1, <2>5, <2>6 DEF Stands
  <2> QED
    BY <2>7, <2>8 DEF w
<1>2. CASE ~Stands(f, q)
  BY <1>2 DEF Stands, Without
<1> QED
  BY <1>1, <1>2

(* Every step keeps the queues exact.                                      *)
Queues == Queued(lockQueue, {"locking", "sleeping"}) /\ Queued(permitQueue, {"permit"})

LEMMA QueuesHold == Spec => []Queues
<1>1. Init => Queues
  BY DEF Init, Queues, Queued, Stands
<1>2. Shape /\ SleeperHasLock /\ Queues /\ [Next]_vars => Queues'
  <2> SUFFICES ASSUME Shape, SleeperHasLock, Queues, [Next]_vars PROVE Queues'
    OBVIOUS
  <2> DEFINE Once(q) == \A i, j \in DOMAIN q : q[i] = q[j] => i = j
             Same(q, places) == \A f \in Fetchers : Stands(f, q) <=> pc[f] \in places
  <2>0. /\ Once(lockQueue) /\ Same(lockQueue, {"locking", "sleeping"})
        /\ Once(permitQueue) /\ Same(permitQueue, {"permit"})
        /\ lockQueue \in Seq(Fetchers) /\ permitQueue \in Seq(Fetchers)
    BY DEF Shape, Queues, Queued
  <2>1. SUFFICES /\ Once(lockQueue') /\ Once(permitQueue')
                 /\ \A f \in Fetchers : /\ Stands(f, lockQueue') <=> pc'[f] \in {"locking", "sleeping"}
                                        /\ Stands(f, permitQueue') <=> pc'[f] \in {"permit"}
    BY DEF Queues, Queued
  <2> HIDE DEF Once
  <2>2. ASSUME NEW f \in Fetchers, NEW u \in Urls, Fetch(f, u) PROVE <2>1!1
    <3>1. /\ pc[f] = "idle" /\ pc' = [pc EXCEPT ![f] = "locking"]
          /\ lockQueue' = Append(lockQueue, f) /\ permitQueue' = permitQueue
      BY <2>2 DEF Fetch, Goto
    <3>2. ~Stands(f, lockQueue)
      BY <2>0, <3>1
    <3>3. Once(lockQueue') /\ \A g \in Fetchers : Stands(g, lockQueue') <=> g = f \/ Stands(g, lockQueue)
      BY <2>0, <3>1, <3>2, AppendStands DEF Once
    <3> QED
      BY <2>0, <3>1, <3>3 DEF Shape
  <2>3. ASSUME NEW f \in Fetchers, Take(f) \/ Wake(f) PROVE <2>1!1
    <3>1. /\ pc[f] \in {"locking", "sleeping"} /\ pc' = [pc EXCEPT ![f] = "permit"]
          /\ lockQueue' = Tail(lockQueue) /\ permitQueue' = Append(permitQueue, f)
          /\ lockQueue # <<>> /\ Head(lockQueue) = f
      BY <2>3 DEF Take, Wake, Goto, Grant, HasLock, SleeperHasLock
    <3>2. ~Stands(f, permitQueue)
      BY <2>0, <3>1
    <3>3. Once(permitQueue') /\ \A g \in Fetchers : Stands(g, permitQueue') <=> g = f \/ Stands(g, permitQueue)
      BY <2>0, <3>1, <3>2, AppendStands DEF Once
    <3>4. Once(lockQueue') /\ \A g \in Fetchers : Stands(g, lockQueue') <=> g # f /\ Stands(g, lockQueue)
      BY <2>0, <3>1, TailStands DEF Once
    <3> QED
      BY <2>0, <3>1, <3>3, <3>4 DEF Shape
  <2>4. ASSUME NEW f \in Fetchers, Sleep(f) \/ Answer(f) PROVE <2>1!1
    <3>1. /\ lockQueue' = lockQueue /\ permitQueue' = permitQueue
          /\ \/ pc[f] = "locking" /\ pc' = [pc EXCEPT ![f] = "sleeping"]
             \/ pc[f] = "inflight" /\ pc' = [pc EXCEPT ![f] = "idle"]
      BY <2>4 DEF Sleep, Answer, Goto
    <3> QED
      BY <2>0, <3>1 DEF Shape
  <2>5. ASSUME NEW f \in Fetchers, Send(f) PROVE <2>1!1
    <3>1. /\ pc[f] = "permit" /\ pc' = [pc EXCEPT ![f] = "inflight"]
          /\ lockQueue' = lockQueue /\ permitQueue' = Tail(permitQueue)
          /\ permitQueue # <<>> /\ Head(permitQueue) = f
      BY <2>5 DEF Send, Goto
    <3>2. Once(permitQueue') /\ \A g \in Fetchers : Stands(g, permitQueue') <=> g # f /\ Stands(g, permitQueue)
      BY <2>0, <3>1, TailStands DEF Once
    <3> QED
      BY <2>0, <3>1, <3>2 DEF Shape
  <2>6. ASSUME NEW f \in Fetchers, Cancel(f) PROVE <2>1!1
    <3>1. /\ pc' = [pc EXCEPT ![f] = "gone"]
          /\ lockQueue' = Without(lockQueue, f) /\ permitQueue' = Without(permitQueue, f)
      BY <2>6 DEF Cancel
    <3>2. Once(lockQueue') /\ \A g \in Fetchers : Stands(g, lockQueue') <=> g # f /\ Stands(g, lockQueue)
      BY <2>0, <3>1, WithoutStands DEF Once
    <3>3. Once(permitQueue') /\ \A g \in Fetchers : Stands(g, permitQueue') <=> g # f /\ Stands(g, permitQueue)
      BY <2>0, <3>1, WithoutStands DEF Once
    <3> QED
      BY <2>0, <3>1, <3>2, <3>3 DEF Shape
  <2>7. CASE Tick \/ UNCHANGED vars
    BY <2>0, <2>7 DEF Tick, vars
  <2> QED
    BY <2>2, <2>3, <2>4, <2>5, <2>6, <2>7 DEF Next, Advance
<1> QED
  BY <1>1, <1>2, ShapeHolds, PTL DEF Spec

(* The lock and the permits pass from fetcher to fetcher, and no answer,   *)
(* error or cancellation loses one, makes one more, or leaves a waiter     *)
(* behind.                                                                 *)
THEOREM HandoversHold == Spec => []HandoversAreExact
<1>1. SleeperHasLock /\ Queues /\ Permits => HandoversAreExact
  BY DEF SleeperHasLock, Queues, Permits, HandoversAreExact, OneSleeper
<1> QED
  BY <1>1, ShapeHolds, QueuesHold, PermitsHold, PTL

(* The client is of its type in every reachable state. *)
THEOREM TypeCorrect == Spec => []TypeOK
<1>1. Init => meter \in Int /\ meter <= MeterBurst
  BY ClientAssumption DEF Init
<1>2. meter \in Int /\ meter <= MeterBurst /\ [Next]_vars
        => (meter \in Int /\ meter <= MeterBurst)'
  BY ClientAssumption DEF Next, Fetch, Advance, Take, Sleep, Wake, Send, Answer, Cancel,
                          Grant, Tick, AtMost, vars
<1>3. Shape /\ Permits /\ meter \in Int /\ meter <= MeterBurst => TypeOK
  <2> SUFFICES ASSUME Shape, Permits PROVE permits \in 0 .. Concurrency
    BY DEF TypeOK, Shape
  <2>1. Cardinality(InFlight) \in Nat
    BY ClientAssumption, FS_Subset, FS_CardinalityType DEF InFlight
  <2> QED
    BY <2>1, ClientAssumption DEF Permits, PermitsAccounted, InFlight
<1> QED
  BY <1>1, <1>2, <1>3, ShapeHolds, PermitsHold, PTL DEF Spec

-----------------------------------------------------------------------------
(* With a meter that earns two ticks per tick and keeps a bucket and a     *)
(* token, the meter is never behind the bucket.                            *)
LEMMA CoveredHolds ==
  ASSUME MeterRate >= 2, MeterBurst >= Capacity + Interval
  PROVE  Spec => []Covered
<1> USE ClientAssumption
<1>1. Init => Covered
  BY DEF Init, Covered, Sleeping, AtMost
<1>2. Shape /\ SleeperHasLock /\ Covered /\ [Next]_vars => Covered'
  <2> SUFFICES ASSUME Shape, SleeperHasLock, Covered, [Next]_vars PROVE Covered'
    OBVIOUS
  <2> USE DEF Shape
  <2>1. ASSUME UNCHANGED <<tokens, age, meter>>, Sleeping' = Sleeping PROVE Covered'
    BY <2>1 DEF Covered, AtMost
  <2>2. ASSUME NEW f \in Fetchers, NEW u \in Urls, Fetch(f, u) PROVE Covered'
    BY <2>1, <2>2 DEF Fetch, Goto, Sleeping
  <2>3. ASSUME NEW f \in Fetchers, Take(f) PROVE Covered'
    <3>1. ~Sleeping /\ ~Sleeping'
      BY <2>3 DEF Take, Goto, Sleeping, SleeperHasLock, HasLock
    <3>2. /\ meter' = meter - Interval /\ age' = 0
          /\ tokens' = AtMost(Capacity, tokens + age) - Interval
      BY <2>3 DEF Take, Grant, Refilled
    <3> QED
      BY <3>1, <3>2 DEF Covered, AtMost
  <2>4. ASSUME NEW f \in Fetchers, Sleep(f) PROVE Covered'
    <3>1. ~Sleeping /\ Sleeping'
      BY <2>4 DEF Sleep, Goto, Sleeping, SleeperHasLock, HasLock
    <3>2. /\ meter' = meter /\ age' = 0
          /\ tokens' = AtMost(Capacity, tokens + age)
      BY <2>4 DEF Sleep, Refilled
    <3> QED
      BY <3>1, <3>2 DEF Covered, AtMost
  <2>5. ASSUME NEW f \in Fetchers, Wake(f) PROVE Covered'
    <3>1. Sleeping /\ ~Sleeping'
      BY <2>5 DEF Wake, Goto, Sleeping, SleeperHasLock, HasLock
    <3>2. meter' = meter - Interval /\ age' = age /\ tokens' = 0 /\ tokens + age >= Interval
      BY <2>5 DEF Wake, Grant
    <3> QED
      BY <3>1, <3>2 DEF Covered, AtMost
  <2>6. ASSUME NEW f \in Fetchers, Send(f) \/ Answer(f) PROVE Covered'
    <3>1. Sleeping' = Sleeping
      BY <2>6 DEF Send, Answer, Goto, Sleeping
    <3> QED
      BY <2>1, <2>6, <3>1 DEF Send, Answer
  <2>7. ASSUME NEW f \in Fetchers, Cancel(f) PROVE Covered'
    <3>1. UNCHANGED <<tokens, age, meter>> /\ (Sleeping' => Sleeping)
      BY <2>7 DEF Cancel, Sleeping
    <3> QED
      BY <3>1 DEF Covered, AtMost
  <2>8. CASE Tick
    <3>1. Sleeping' = Sleeping /\ tokens' = tokens
      BY <2>8 DEF Tick, Sleeping
    <3>2. /\ age' = AtMost(MaxAge, age + 1)
          /\ meter' = AtMost(MeterBurst, meter + MeterRate)
      BY <2>8 DEF Tick
    <3> QED
      BY <3>1, <3>2 DEF Covered, AtMost
  <2>9. CASE UNCHANGED vars
    BY <2>1, <2>9 DEF vars, Sleeping
  <2> QED
    BY <2>2, <2>3, <2>4, <2>5, <2>6, <2>7, <2>8, <2>9 DEF Next, Advance
<1> QED
  BY <1>1, <1>2, ShapeHolds, PTL DEF Spec

(* Whatever the load, in every period the client grants at most a bucket   *)
(* and a token more than twice what the rate allows: the time slept inside *)
(* take() is credited again, but never a third time.                       *)
THEOREM WithinMeterHolds ==
  ASSUME MeterRate >= 2, MeterBurst >= Capacity + Interval
  PROVE  Spec => []WithinMeter
<1>1. Shape /\ Covered => WithinMeter
  BY ClientAssumption DEF Shape, Covered, WithinMeter, AtMost
<1> QED
  BY <1>1, ShapeHolds, CoveredHolds, PTL
=============================================================================
