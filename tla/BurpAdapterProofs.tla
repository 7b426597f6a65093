-------------------------- MODULE BurpAdapterProofs --------------------------
(***************************************************************************)
(* Proofs about runs that share the Burp adapter, for any finite number of *)
(* runs and any budget of polls: every client gets a number of its own,    *)
(* only cleanups disturb a run, and no open client is forgotten unless two *)
(* cleanups overlapped.                                                    *)
(***************************************************************************)
EXTENDS BurpAdapter, FiniteSetTheorems, TLAPS

Closing   == {q \in Runs : pc[q] = "closing"}
Ended     == {q \in Runs : pc[q] = "ended"}
Waiting   == {q \in Runs : using[q] # NoClient}

(* Who waits for an answer is at a request.                                *)
WaitersRequest == \A r \in Runs : using[r] # NoClient => pc[r] \in Requesting

(* Every client that is open and no longer held was left by a run that has *)
(* ended: so that there are never more numbers in use than there are.      *)
LeaksCounted ==
  /\ IsFiniteSet(open)
  /\ Cardinality(open \ {held}) <= Cardinality(Ended)

ClientsNumbered == TypeOK /\ WaitersRequest /\ LeaksCounted

(* A client that is held is open or is being closed; while a run closes    *)
(* it, every other one that goes on is disturbed; and a request whose      *)
(* client was closed is one of those.                                      *)
ClosersDisturb ==
  /\ held \notin open \cup {NoClient} => Closing # {}
  /\ \A q \in Closing : \A r \in Runs \ {q} : pc[r] \in Busy => r \in disturbed
  /\ \A r \in Waiting : using[r] \in open \/ r \in disturbed

(* A run past its polls has the issues of its scan, or has lost them.      *)
IssuesKept ==
  \A r \in Runs :
    \/ pc[r] = "normalize"
    \/ pc[r] \in {"cleanup", "closing", "ended"} /\ lost[r] = "nothing"
    => scan[r] = "ended" /\ r \in got

DisturbedInvariant ==
  /\ ClosersDisturb /\ IssuesKept
  /\ \A r \in Runs \ disturbed : lost[r] # "to a cleanup"

(* Without overlapping cleanups one run closes at a time, and nobody has a *)
(* client before it is done.                                               *)
HeldInvariant ==
  ~overlapped =>
    /\ open \subseteq {held}
    /\ \A q \in Closing : open = {} /\ held # NoClient /\ Closing = {q}

(* All that is shown of every reachable state. *)
InductiveInvariant == ClientsNumbered /\ DisturbedInvariant /\ HeldInvariant
-----------------------------------------------------------------------------
(* The numbers in use are fewer than those to choose from: a new client is *)
(* one that nobody has, held, open or waited on.                           *)
LEMMA FreshIsNew ==
  ASSUME ClientsNumbered
  PROVE  /\ Fresh \in Nat
         /\ Fresh \notin open \cup {held} \cup {using[q] : q \in Runs}
<1> DEFINE Numbers == 1 .. (Cardinality(Runs) + 2)
           Used    == {using[q] : q \in Waiting}
           Kept    == (open \ {held}) \cup Used
<1>1. TypeOK /\ WaitersRequest /\ LeaksCounted
  BY DEF ClientsNumbered
<1>2. /\ IsFiniteSet(Runs) /\ Cardinality(Runs) \in Nat
  BY BurpAssumption, FS_CardinalityType
<1>3. /\ IsFiniteSet(Waiting) /\ IsFiniteSet(Ended)
      /\ Cardinality(Waiting) \in Nat /\ Cardinality(Ended) \in Nat
      /\ Cardinality(Waiting) + Cardinality(Ended) <= Cardinality(Runs)
  <2>1. Waiting \in SUBSET Runs /\ Ended \in SUBSET Runs /\ Waiting \cup Ended \in SUBSET Runs
    BY DEF Waiting, Ended
  <2>2. Waiting \cap Ended = {}
    BY <1>1 DEF WaitersRequest, Waiting, Ended, Requesting
  <2>3. /\ IsFiniteSet(Waiting) /\ IsFiniteSet(Ended)
        /\ Cardinality(Waiting \cup Ended) <= Cardinality(Runs)
    BY <1>2, <2>1, FS_Subset
  <2>4. /\ Cardinality(Waiting) \in Nat /\ Cardinality(Ended) \in Nat
    BY <2>3, FS_CardinalityType
  <2>5. Cardinality(Waiting \cup Ended) = Cardinality(Waiting) + Cardinality(Ended) - Cardinality({})
    BY <2>2, <2>3, FS_Union
  <2> QED
    BY <2>3, <2>4, <2>5, FS_EmptySet
<1>4. IsFiniteSet(Used) /\ Cardinality(Used) <= Cardinality(Waiting)
  <2> DEFINE clientOf == [q \in Waiting |-> using[q]]
  <2>1. clientOf \in Surjection(Waiting, Used)
    BY DEF Surjection
  <2> HIDE DEF clientOf, Used
  <2> QED
    BY <1>3, <2>1, FS_Surjection
<1>5. IsFiniteSet(Kept) /\ Cardinality(Kept) <= Cardinality(Runs)
  <2> HIDE DEF Used
  <2>1. IsFiniteSet(open \ {held}) /\ Cardinality(open \ {held}) <= Cardinality(Ended)
    BY <1>1, FS_Difference DEF LeaksCounted
  <2>2. /\ IsFiniteSet(Kept)
        /\ Cardinality(Kept) = Cardinality(open \ {held}) + Cardinality(Used) - Cardinality((open \ {held}) \cap Used)
    BY <1>4, <2>1, FS_Union
  <2>3. IsFiniteSet((open \ {held}) \cap Used)
    BY <2>1, FS_Intersection
  <2>4. /\ Cardinality(open \ {held}) \in Nat /\ Cardinality(Used) \in Nat
        /\ Cardinality((open \ {held}) \cap Used) \in Nat
    BY <1>4, <2>1, <2>3, FS_CardinalityType
  <2> QED
    BY <1>2, <1>3, <1>4, <2>1, <2>2, <2>4
<1>6. IsFiniteSet(Kept \cup {held}) /\ Cardinality(Kept \cup {held}) < Cardinality(Numbers)
  <2> HIDE DEF Kept
  <2>1. /\ IsFiniteSet(Kept \cup {held})
        /\ Cardinality(Kept \cup {held}) <= Cardinality(Runs) + 1
    <3>1. Cardinality(Kept) \in Nat
      BY <1>5, FS_CardinalityType
    <3>2. /\ IsFiniteSet(Kept \cup {held})
          /\ Cardinality(Kept \cup {held}) = IF held \in Kept THEN Cardinality(Kept) ELSE Cardinality(Kept) + 1
      BY <1>5, FS_AddElement
    <3> QED
      BY <1>2, <1>5, <3>1, <3>2
  <2>2. Cardinality(Numbers) = Cardinality(Runs) + 2
    BY <1>2, FS_Interval
  <2>3. Cardinality(Kept \cup {held}) \in Nat
    BY <2>1, FS_CardinalityType
  <2> QED
    BY <1>2, <2>1, <2>2, <2>3
<1>7. PICK n \in Numbers : n \notin Kept \cup {held}
  <2>1. CASE Numbers \subseteq Kept \cup {held}
    <3> HIDE DEF Kept, Numbers
    <3>1. Cardinality(Numbers) <= Cardinality(Kept \cup {held})
      BY <1>6, <2>1, FS_Subset
    <3>2. IsFiniteSet(Numbers)
      BY <1>2, FS_Interval DEF Numbers
    <3>3. Cardinality(Numbers) \in Nat /\ Cardinality(Kept \cup {held}) \in Nat
      BY <1>6, <3>2, FS_CardinalityType
    <3> QED
      BY <1>6, <3>1, <3>3
  <2> QED
    BY <2>1
<1>8. n \notin open \cup {held} \cup {using[q] : q \in Runs}
  <2>1. ASSUME NEW q \in Runs, using[q] = n PROVE FALSE
    <3>1. n \in Nat /\ n # NoClient
      BY <1>2, BurpAssumption
    <3>2. q \in Waiting
      BY <2>1, <3>1 DEF Waiting
    <3> QED
      BY <1>7, <2>1, <3>2
  <2> QED
    BY <1>7, <2>1
<1>9. /\ Fresh \in Numbers
      /\ Fresh \notin open \cup {held} \cup {using[q] : q \in Runs}
  BY <1>7, <1>8 DEF Fresh
<1> QED
  BY <1>2, <1>9
-----------------------------------------------------------------------------
(* The constant sets that the types are made of.                           *)
LEMMA PlacesAreBusy == Busy = {"health", "start", "poll", "sleep", "normalize", "cleanup", "closing"}
BY DEF Busy, Requesting

(* What the numbering of the clients needs of the beginning.               *)
LEMMA ClientsNumberedInit == Init => ClientsNumbered
<1> SUFFICES ASSUME Init PROVE ClientsNumbered
  OBVIOUS
<1>1. TypeOK
  BY BurpAssumption DEF Init, TypeOK, Busy, Requesting
<1>2. WaitersRequest
  BY DEF Init, WaitersRequest
<1>3. open \ {held} = {} /\ open = {}
  BY DEF Init
<1>4. LeaksCounted
  <2>1. IsFiniteSet(Ended)
    BY BurpAssumption, FS_Subset DEF Ended
  <2>2. Cardinality(Ended) \in Nat
    BY <2>1, FS_CardinalityType
  <2> QED
    BY <1>3, <2>2, FS_EmptySet DEF LeaksCounted
<1> QED
  BY <1>1, <1>2, <1>4 DEF ClientsNumbered

(* No step takes the state out of its types; a new client's number is one. *)
LEMMA TypeStep == ClientsNumbered /\ [Next]_vars => TypeOK'
<1> SUFFICES ASSUME ClientsNumbered, [Next]_vars PROVE TypeOK'
  OBVIOUS
<1> USE PlacesAreBusy
<1>1. TypeOK /\ BurpAssumption
  BY BurpAssumption DEF ClientsNumbered
<1>2. CASE UNCHANGED vars
  BY <1>1, <1>2 DEF TypeOK, vars, client, history
<1>3. ASSUME NEW r \in Runs, Begin(r) PROVE TypeOK'
  BY <1>1, <1>3 DEF TypeOK, Begin, Goto, client
<1>4. ASSUME NEW r \in Runs, Send(r) PROVE TypeOK'
  <2>1. held' \in Nat \cup {NoClient} /\ open' \subseteq Nat
    BY <1>1, <1>4, FreshIsNew DEF TypeOK, Send, client
  <2>2. using' \in [Runs -> Nat \cup {NoClient}]
    BY <1>1, <1>4, <2>1 DEF TypeOK, Send
  <2> QED
    BY <1>1, <1>4, <2>1, <2>2 DEF TypeOK, Send, history
<1>5. ASSUME NEW r \in Runs, SendOnClosed(r) PROVE TypeOK'
  BY <1>1, <1>5 DEF TypeOK, SendOnClosed, GiveUp, AfterFailure, client
<1>6. ASSUME NEW r \in Runs, RequestFails(r) PROVE TypeOK'
  BY <1>1, <1>6 DEF TypeOK, RequestFails, Received, GiveUp, AfterFailure, client
<1>7. ASSUME NEW r \in Runs, HealthAnswered(r) PROVE TypeOK'
  BY <1>1, <1>7 DEF TypeOK, HealthAnswered, Received, Goto, client, history
<1>8. ASSUME NEW r \in Runs, Unavailable(r) PROVE TypeOK'
  BY <1>1, <1>8 DEF TypeOK, Unavailable, Received, GiveUp, client
<1>9. ASSUME NEW r \in Runs, Started(r) PROVE TypeOK'
  BY <1>1, <1>9 DEF TypeOK, Started, Received, Goto, NextPoll, client
<1>10. ASSUME NEW r \in Runs, Refused(r) PROVE TypeOK'
  BY <1>1, <1>10 DEF TypeOK, Refused, Received, GiveUp, client
<1>11. ASSUME NEW r \in Runs, PollEnded(r) PROVE TypeOK'
  BY <1>1, <1>11 DEF TypeOK, PollEnded, Received, Goto, client, history
<1>12. ASSUME NEW r \in Runs, PollRunning(r) PROVE TypeOK'
  BY <1>1, <1>12 DEF TypeOK, PollRunning, Received, Goto, client, history
<1>13. ASSUME NEW r \in Runs, Wake(r) PROVE TypeOK'
  <2>1. pc' \in [Runs -> {"idle", "ended"} \cup Busy]
    BY <1>1, <1>13 DEF TypeOK, Wake, Goto, NextPoll
  <2>2. waited' \in [Runs -> Nat]
    <3>1. waited \in [Runs -> Nat] /\ waited[r] \in Nat
      BY <1>1 DEF TypeOK
    <3>2. waited' = [waited EXCEPT ![r] = waited[r] + 1]
      BY <1>13 DEF Wake
    <3> QED
      BY <3>1, <3>2
  <2>3. lost' \in [Runs -> {"nothing", "to a cleanup", "otherwise"}]
    BY <1>1, <1>13 DEF TypeOK, Wake
  <2> QED
    BY <1>1, <1>13, <2>1, <2>2, <2>3 DEF TypeOK, Wake, client
<1>14. ASSUME NEW r \in Runs, Normalize(r) PROVE TypeOK'
  BY <1>1, <1>14 DEF TypeOK, Normalize, Goto, client, history
<1>15. ASSUME NEW r \in Runs, NormalizeRaises(r) PROVE TypeOK'
  BY <1>1, <1>15 DEF TypeOK, NormalizeRaises, GiveUp, client
<1>16. ASSUME NEW r \in Runs, NothingToClose(r) PROVE TypeOK'
  BY <1>1, <1>16 DEF TypeOK, NothingToClose, Goto, client, history
<1>17. ASSUME NEW r \in Runs, AlreadyClosed(r) PROVE TypeOK'
  BY <1>1, <1>17 DEF TypeOK, AlreadyClosed, Goto
<1>18. ASSUME NEW r \in Runs, Close(r) PROVE TypeOK'
  BY <1>1, <1>18 DEF TypeOK, Close, Goto, Others
<1>19. ASSUME NEW r \in Runs, Forget(r) PROVE TypeOK'
  BY <1>1, <1>19 DEF TypeOK, Forget, Goto, history
<1>20. ASSUME NEW r \in Runs, BurpEnds(r) PROVE TypeOK'
  BY <1>1, <1>20 DEF TypeOK, BurpEnds, client, history
<1> QED
  BY <1>2, <1>3, <1>4, <1>5, <1>6, <1>7, <1>8, <1>9, <1>10, <1>11, <1>12, <1>13, <1>14, <1>15,
     <1>16, <1>17, <1>18, <1>19, <1>20 DEF Next, Step, Done

(* A request is sent from where one is made and answered before its run    *)
(* goes on.                                                                *)
LEMMA WaitersStep == ClientsNumbered /\ [Next]_vars => WaitersRequest'
<1> SUFFICES ASSUME ClientsNumbered, [Next]_vars, NEW q \in Runs, (using[q] # NoClient)'
             PROVE  pc'[q] \in Requesting
  BY DEF WaitersRequest
<1>1. TypeOK /\ (using[q] # NoClient => pc[q] \in Requesting)
  BY DEF ClientsNumbered, WaitersRequest
<1>2. CASE UNCHANGED <<pc, using>>
  BY <1>1, <1>2
<1>3. ASSUME NEW r \in Runs, Send(r) PROVE pc'[q] \in Requesting
  BY <1>1, <1>3 DEF Send, TypeOK
<1>4. ASSUME NEW r \in Runs, Received(r), \A p \in Runs \ {r} : pc'[p] = pc[p]
      PROVE  pc'[q] \in Requesting
  BY <1>1, <1>4 DEF Received, TypeOK
<1>5. ASSUME NEW r \in Runs, UNCHANGED using, pc[r] \notin Requesting \/ using[r] = NoClient,
             \A p \in Runs \ {r} : pc'[p] = pc[p]
      PROVE  pc'[q] \in Requesting
  BY <1>1, <1>5
<1>6. ASSUME NEW r \in Runs,
             \/ RequestFails(r) \/ HealthAnswered(r) \/ Unavailable(r) \/ Started(r)
             \/ Refused(r) \/ PollEnded(r) \/ PollRunning(r)
      PROVE  Received(r) /\ \A p \in Runs \ {r} : pc'[p] = pc[p]
  BY <1>1, <1>6 DEF TypeOK, RequestFails, HealthAnswered, Unavailable, Started, Refused, PollEnded,
     PollRunning, Goto, GiveUp
<1>7. ASSUME NEW r \in Runs,
             \/ Begin(r) \/ SendOnClosed(r) \/ Wake(r) \/ Normalize(r) \/ NormalizeRaises(r)
             \/ NothingToClose(r) \/ AlreadyClosed(r) \/ Close(r) \/ Forget(r)
      PROVE  /\ UNCHANGED using /\ (pc[r] \notin Requesting \/ using[r] = NoClient)
             /\ \A p \in Runs \ {r} : pc'[p] = pc[p]
  BY <1>1, <1>7 DEF TypeOK, Begin, SendOnClosed, Wake, Normalize, NormalizeRaises, NothingToClose,
     AlreadyClosed, Close, Forget, Goto, GiveUp, Requesting
<1> QED
  BY <1>2, <1>3, <1>4, <1>5, <1>6, <1>7 DEF Next, Step, Done, BurpEnds, vars

(* A run that has ended is never heard of again.                           *)
LEMMA EndedGrows == ClientsNumbered /\ [Next]_vars => Ended \subseteq Ended'
<1> SUFFICES ASSUME TypeOK, WaitersRequest, [Next]_vars, NEW q \in Runs, pc[q] = "ended"
             PROVE  pc'[q] = "ended"
  BY DEF Ended, ClientsNumbered
<1>1. CASE UNCHANGED pc
  BY <1>1
<1>2. ASSUME NEW r \in Runs, pc[r] # "ended", \A p \in Runs \ {r} : pc'[p] = pc[p]
      PROVE  pc'[q] = "ended"
  BY <1>2
<1>3. ASSUME NEW r \in Runs,
             \/ Begin(r) \/ HealthAnswered(r) \/ Started(r) \/ PollEnded(r) \/ PollRunning(r)
             \/ Wake(r) \/ Normalize(r) \/ NothingToClose(r) \/ AlreadyClosed(r) \/ Close(r) \/ Forget(r)
      PROVE  pc[r] # "ended" /\ \A p \in Runs \ {r} : pc'[p] = pc[p]
  BY <1>3 DEF TypeOK, Begin, HealthAnswered, Started, PollEnded, PollRunning, Wake, Normalize,
     NothingToClose, AlreadyClosed, Close, Forget, Goto
<1>4. ASSUME NEW r \in Runs, SendOnClosed(r) \/ Unavailable(r) \/ Refused(r) \/ NormalizeRaises(r)
      PROVE  pc[r] # "ended" /\ \A p \in Runs \ {r} : pc'[p] = pc[p]
  BY <1>4 DEF TypeOK, SendOnClosed, Unavailable, Refused, NormalizeRaises, GiveUp, Requesting
<1>5. ASSUME NEW r \in Runs, RequestFails(r)
      PROVE  pc[r] # "ended" /\ \A p \in Runs \ {r} : pc'[p] = pc[p]
  BY <1>5 DEF TypeOK, WaitersRequest, RequestFails, Received, GiveUp, Requesting
<1>6. ASSUME NEW r \in Runs, Send(r) \/ BurpEnds(r) PROVE UNCHANGED pc
  BY <1>6 DEF Send, BurpEnds
<1> QED
  BY <1>1, <1>2, <1>3, <1>4, <1>5, <1>6 DEF Next, Step, Done, vars

(* What is left open by its holder is paid for by a run that ended.        *)
LEMMA LeaksStep == ClientsNumbered /\ [Next]_vars => LeaksCounted'
<1> SUFFICES ASSUME ClientsNumbered, [Next]_vars PROVE LeaksCounted'
  OBVIOUS
<1>1. TypeOK /\ LeaksCounted /\ NoClient \notin Nat
  BY BurpAssumption DEF ClientsNumbered
<1>2. /\ IsFiniteSet(Ended) /\ IsFiniteSet(Ended')
      /\ Cardinality(Ended) \in Nat /\ Cardinality(Ended') \in Nat
      /\ Cardinality(Ended) <= Cardinality(Ended')
  <2>1. Ended \in SUBSET Runs /\ Ended' \in SUBSET Runs /\ Ended \subseteq Ended'
    BY EndedGrows DEF Ended
  <2>2. IsFiniteSet(Ended) /\ IsFiniteSet(Ended')
    BY <2>1, BurpAssumption, FS_Subset
  <2> QED
    BY <2>1, <2>2, FS_Subset, FS_CardinalityType
<1>3. IsFiniteSet(open \ {held}) /\ Cardinality(open \ {held}) \in Nat
  BY <1>1, FS_RemoveElement, FS_CardinalityType DEF LeaksCounted
<1>4. ASSUME open' \ {held'} = open \ {held}, IsFiniteSet(open') PROVE LeaksCounted'
  <2>1. Cardinality(open \ {held}) <= Cardinality(Ended)
    BY <1>1 DEF LeaksCounted
  <2> QED
    BY <1>2, <1>3, <1>4, <2>1 DEF LeaksCounted
<1>5. CASE UNCHANGED client
  BY <1>1, <1>4, <1>5 DEF LeaksCounted, client
<1>6. ASSUME NEW r \in Runs, Send(r) PROVE LeaksCounted'
  <2>1. CASE held = NoClient /\ held' = Fresh /\ open' = open \cup {Fresh}
    <3>1. Fresh \notin open
      BY FreshIsNew
    <3>2. open' \ {held'} = open \ {held}
      BY <1>1, <2>1, <3>1 DEF TypeOK
    <3>3. IsFiniteSet(open')
      BY <1>1, <2>1, FS_AddElement DEF LeaksCounted
    <3> QED
      BY <1>4, <3>2, <3>3
  <2>2. CASE UNCHANGED client
    BY <1>5, <2>2
  <2> QED
    BY <1>6, <2>1, <2>2 DEF Send
<1>7. ASSUME NEW r \in Runs, AlreadyClosed(r) PROVE LeaksCounted'
  BY <1>1, <1>4, <1>7 DEF AlreadyClosed, TypeOK, LeaksCounted
<1>8. ASSUME NEW r \in Runs, Close(r) PROVE LeaksCounted'
  BY <1>3, <1>4, <1>8 DEF Close
<1>9. ASSUME NEW r \in Runs, Forget(r) PROVE LeaksCounted'
  <2>1. open' = open /\ open' \ {held'} = open
    BY <1>1, <1>9 DEF Forget, TypeOK
  <2>2. Cardinality(open) \in Nat /\ Cardinality(open) <= Cardinality(open \ {held}) + 1
    <3>1. Cardinality(open) \in Nat
      BY <1>1, FS_CardinalityType DEF LeaksCounted
    <3>2. Cardinality(open \ {held}) = IF held \in open THEN Cardinality(open) - 1 ELSE Cardinality(open)
      BY <1>1, FS_RemoveElement DEF LeaksCounted
    <3> QED
      BY <3>1, <3>2
  <2>3. Ended' = Ended \cup {r} /\ r \notin Ended
    BY <1>1, <1>9 DEF Forget, Goto, Ended, TypeOK
  <2>4. Cardinality(Ended') = Cardinality(Ended) + 1
    BY <1>2, <2>3, FS_AddElement
  <2> QED
    BY <1>1, <1>2, <1>3, <2>1, <2>2, <2>4 DEF LeaksCounted
<1>10. ASSUME NEW r \in Runs,
              \/ Begin(r) \/ SendOnClosed(r) \/ RequestFails(r) \/ HealthAnswered(r) \/ Unavailable(r)
              \/ Started(r) \/ Refused(r) \/ PollEnded(r) \/ PollRunning(r) \/ Wake(r) \/ Normalize(r)
              \/ NormalizeRaises(r) \/ NothingToClose(r) \/ BurpEnds(r)
       PROVE  UNCHANGED client
  BY <1>10 DEF Begin, SendOnClosed, RequestFails, HealthAnswered, Unavailable, Started, Refused,
     PollEnded, PollRunning, Wake, Normalize, NormalizeRaises, NothingToClose, BurpEnds
<1> QED
  BY <1>5, <1>6, <1>7, <1>8, <1>9, <1>10 DEF Next, Step, Done, vars

(* The three together.                                                     *)
LEMMA ClientsNumberedStep == ClientsNumbered /\ [Next]_vars => ClientsNumbered'
BY TypeStep, WaitersStep, LeaksStep DEF ClientsNumbered
-----------------------------------------------------------------------------
(* What most steps are to the other runs: one run, which neither begins    *)
(* nor ends the closing of a client, goes on or ends, and the client stays.*)
Quiet(r) ==
  /\ UNCHANGED <<held, open, disturbed, overlapped>>
  /\ pc[r] \in Busy \ {"closing"} /\ pc'[r] \in (Busy \cup {"ended"}) \ {"closing"}
  /\ using'[r] \in {NoClient, using[r]}
  /\ \A q \in Runs \ {r} : pc'[q] = pc[q] /\ using'[q] = using[q]

(* The steps that are.                                                     *)
LEMMA QuietSteps ==
  ASSUME ClientsNumbered, NEW r \in Runs,
         \/ SendOnClosed(r) \/ RequestFails(r) \/ HealthAnswered(r) \/ Unavailable(r) \/ Started(r)
         \/ Refused(r) \/ PollEnded(r) \/ PollRunning(r) \/ Wake(r) \/ Normalize(r)
         \/ NormalizeRaises(r) \/ NothingToClose(r)
  PROVE  Quiet(r)
<1> USE PlacesAreBusy
<1>1. TypeOK /\ WaitersRequest
  BY DEF ClientsNumbered
<1>2. CASE RequestFails(r)
  BY <1>1, <1>2 DEF TypeOK, WaitersRequest, Quiet, RequestFails, Received, GiveUp, AfterFailure,
     client, Requesting
<1>3. CASE SendOnClosed(r) \/ Unavailable(r) \/ Refused(r) \/ NormalizeRaises(r)
  BY <1>1, <1>3 DEF TypeOK, Quiet, SendOnClosed, Unavailable, Refused, NormalizeRaises, Received, GiveUp,
     AfterFailure, client, Requesting
<1>4. CASE HealthAnswered(r) \/ PollEnded(r) \/ PollRunning(r)
  BY <1>1, <1>4 DEF TypeOK, Quiet, HealthAnswered, PollEnded, PollRunning, Received, Goto, client, history
<1>5. CASE Started(r)
  BY <1>1, <1>5 DEF TypeOK, Quiet, Started, Received, Goto, NextPoll, client
<1>6. CASE Wake(r)
  BY <1>1, <1>6 DEF TypeOK, Quiet, Wake, Goto, NextPoll, client
<1>7. CASE Normalize(r) \/ NothingToClose(r)
  BY <1>1, <1>7 DEF TypeOK, Quiet, Normalize, NothingToClose, Goto, client, history
<1> QED
  BY <1>2, <1>3, <1>4, <1>5, <1>6, <1>7

(* While a client is being closed, whoever goes on is disturbed.           *)
LEMMA ClosersStep ==
  ClientsNumbered /\ ClosersDisturb /\ [Next]_vars => ClosersDisturb'
<1> SUFFICES ASSUME ClientsNumbered, ClosersDisturb, [Next]_vars PROVE ClosersDisturb'
  OBVIOUS
<1> USE PlacesAreBusy
<1>1. TypeOK /\ WaitersRequest /\ NoClient \notin Nat
  BY BurpAssumption DEF ClientsNumbered
<1>2. CASE UNCHANGED <<pc, client, using, disturbed>>
  BY <1>2 DEF ClosersDisturb, Closing, Waiting, client
<1>3. ASSUME NEW r \in Runs, Quiet(r) PROVE ClosersDisturb'
  BY <1>3 DEF ClosersDisturb, Closing, Waiting, Quiet
<1>4. ASSUME NEW r \in Runs, Begin(r) PROVE ClosersDisturb'
  BY <1>1, <1>4 DEF TypeOK, ClosersDisturb, Closing, Waiting, Begin, Goto, client
<1>5. ASSUME NEW r \in Runs, Send(r) PROVE ClosersDisturb'
  <2>1. held' \in open' /\ open \subseteq open'
    BY <1>5 DEF Send, client
  <2>2. Closing' = Closing
    BY <1>5 DEF Send, Closing
  <2>3. \A q \in Runs : using'[q] = IF q = r THEN held' ELSE using[q]
    BY <1>1, <1>5 DEF TypeOK, Send
  <2> QED
    BY <1>5, <2>1, <2>2, <2>3 DEF ClosersDisturb, Waiting, Send, history
<1>6. ASSUME NEW r \in Runs, AlreadyClosed(r) PROVE ClosersDisturb'
  BY <1>1, <1>6 DEF TypeOK, ClosersDisturb, Closing, Waiting, AlreadyClosed, Goto
<1>7. ASSUME NEW r \in Runs, Close(r) PROVE ClosersDisturb'
  <2>1. Closing' = Closing \cup {r} /\ \A q \in Runs \ {r} : pc'[q] = pc[q]
    BY <1>1, <1>7 DEF TypeOK, Closing, Close, Goto
  <2>2. \A q \in Runs \ {r} : pc[q] \in Busy => q \in disturbed'
    BY <1>7 DEF Close, Others
  <2>3. \A q \in Closing : r \in disturbed'
    BY <1>7 DEF ClosersDisturb, Close, Goto, Closing
  <2>4. \A q \in Waiting : q # r /\ pc[q] \in Busy
    BY <1>1, <1>7 DEF WaitersRequest, Waiting, Close, Goto, Requesting
  <2>5. \A q \in Waiting' : q \in disturbed'
    BY <1>7, <2>2, <2>4 DEF Waiting, Close
  <2> QED
    BY <2>1, <2>2, <2>3, <2>5 DEF ClosersDisturb, Closing
<1>8. ASSUME NEW r \in Runs, Forget(r) PROVE ClosersDisturb'
  BY <1>1, <1>8 DEF TypeOK, ClosersDisturb, Closing, Waiting, Forget, Goto, history
<1>9. ASSUME NEW r \in Runs, BurpEnds(r) PROVE UNCHANGED <<pc, client, using, disturbed>>
  BY <1>9 DEF BurpEnds, history
<1>10. UNCHANGED vars => UNCHANGED <<pc, client, using, disturbed>>
  BY DEF vars, history
<1> QED
  BY <1>2, <1>3, <1>4, <1>5, <1>6, <1>7, <1>8, <1>9, <1>10, QuietSteps DEF Next, Step, Done

(* A run comes past its polls with the issues of a scan that ended, or     *)
(* with their loss noted.                                                  *)
LEMMA IssuesStep == ClientsNumbered /\ IssuesKept /\ [Next]_vars => IssuesKept'
<1> SUFFICES ASSUME ClientsNumbered, IssuesKept, [Next]_vars PROVE IssuesKept'
  OBVIOUS
<1> USE PlacesAreBusy
<1>1. TypeOK /\ WaitersRequest /\ MaxPolls \in Nat
  BY BurpAssumption DEF ClientsNumbered
<1>2. CASE UNCHANGED <<pc, scan, got, lost>>
  BY <1>2 DEF IssuesKept
<1>3. ASSUME NEW r \in Runs,
             \A q \in Runs \ {r} : pc'[q] = pc[q] /\ scan'[q] = scan[q] /\ lost'[q] = lost[q] /\ (q \in got => q \in got'),
             \/ pc'[r] \in Busy \ {"normalize", "cleanup", "closing"}
             \/ pc'[r] # "normalize" /\ lost'[r] # "nothing"
             \/ scan'[r] = "ended" /\ r \in got'
      PROVE  IssuesKept'
  BY <1>3 DEF IssuesKept
<1>4. ASSUME NEW r \in Runs, Begin(r) PROVE IssuesKept'
  BY <1>1, <1>3, <1>4 DEF TypeOK, Begin, Goto
<1>5. ASSUME NEW r \in Runs, SendOnClosed(r) \/ Unavailable(r) \/ Refused(r) \/ NormalizeRaises(r)
      PROVE  IssuesKept'
  BY <1>1, <1>3, <1>5 DEF TypeOK, SendOnClosed, Unavailable, Refused, NormalizeRaises, GiveUp, AfterFailure
<1>6. ASSUME NEW r \in Runs, RequestFails(r) PROVE IssuesKept'
  BY <1>1, <1>3, <1>6 DEF TypeOK, RequestFails, GiveUp, AfterFailure
<1>7. ASSUME NEW r \in Runs, HealthAnswered(r) \/ PollRunning(r) PROVE IssuesKept'
  BY <1>1, <1>3, <1>7 DEF TypeOK, HealthAnswered, PollRunning, Goto, history
<1>8. ASSUME NEW r \in Runs, Started(r) PROVE IssuesKept'
  <2>1. \A q \in Runs \ {r} : pc'[q] = pc[q] /\ scan'[q] = scan[q] /\ lost'[q] = lost[q] /\ (q \in got => q \in got')
    BY <1>1, <1>8 DEF TypeOK, Started, Goto
  <2>2. pc'[r] = NextPoll(0) /\ lost'[r] = IF MaxPolls = 0 THEN "otherwise" ELSE lost[r]
    BY <1>1, <1>8 DEF TypeOK, Started, Goto
  <2>3. CASE MaxPolls = 0
    <3>1. pc'[r] = "cleanup" /\ lost'[r] = "otherwise"
      BY <2>3, <2>2 DEF NextPoll
    <3> QED
      BY <1>3, <2>1, <3>1
  <2>4. CASE MaxPolls # 0
    <3>1. pc'[r] = "poll"
      BY <1>1, <2>4, <2>2 DEF NextPoll
    <3> QED
      BY <1>3, <2>1, <3>1
  <2> QED
    BY <2>3, <2>4
<1>9. ASSUME NEW r \in Runs, PollEnded(r) PROVE IssuesKept'
  BY <1>1, <1>3, <1>9 DEF TypeOK, PollEnded, Goto, history
<1>10. ASSUME NEW r \in Runs, Wake(r) PROVE IssuesKept'
  <2>1. \A q \in Runs \ {r} : pc'[q] = pc[q] /\ scan'[q] = scan[q] /\ lost'[q] = lost[q] /\ (q \in got => q \in got')
    BY <1>1, <1>10 DEF TypeOK, Wake, Goto
  <2>2. CASE waited[r] + 1 < MaxPolls
    BY <1>1, <1>3, <1>10, <2>1, <2>2 DEF TypeOK, Wake, Goto, NextPoll
  <2>3. CASE ~(waited[r] + 1 < MaxPolls)
    BY <1>1, <1>3, <1>10, <2>1, <2>3 DEF TypeOK, Wake, Goto, NextPoll
  <2> QED
    BY <2>2, <2>3
<1>11. ASSUME NEW r \in Runs, Normalize(r) PROVE IssuesKept'
  <2>1. scan[r] = "ended" /\ r \in got
    BY <1>11 DEF IssuesKept, Normalize, Goto
  <2> QED
    BY <1>1, <1>3, <1>11, <2>1 DEF TypeOK, Normalize, Goto, history
<1>12. ASSUME NEW r \in Runs,
              pc[r] \in {"cleanup", "closing"}, pc'[r] \in {"closing", "ended"},
              UNCHANGED <<scan, got, lost>>, \A q \in Runs \ {r} : pc'[q] = pc[q]
       PROVE  IssuesKept'
  BY <1>12 DEF IssuesKept
<1>13. ASSUME NEW r \in Runs, NothingToClose(r) \/ AlreadyClosed(r) \/ Close(r) \/ Forget(r)
       PROVE  IssuesKept'
  BY <1>1, <1>12, <1>13 DEF TypeOK, NothingToClose, AlreadyClosed, Close, Forget, Goto, history
<1>14. ASSUME NEW r \in Runs, BurpEnds(r) PROVE IssuesKept'
  BY <1>1, <1>3, <1>14 DEF TypeOK, BurpEnds, history
<1>15. UNCHANGED vars => UNCHANGED <<pc, scan, got, lost>>
  BY DEF vars, history
<1>16. \A r \in Runs : Send(r) => UNCHANGED <<pc, scan, got, lost>>
  BY DEF Send, history
<1> QED
  BY <1>2, <1>4, <1>5, <1>6, <1>7, <1>8, <1>9, <1>10, <1>11, <1>13, <1>14, <1>15, <1>16 DEF Next, Step, Done

(* A run meets a closed client only if it was disturbed.                   *)
LEMMA LostStep ==
  ASSUME ClientsNumbered, ClosersDisturb, \A r \in Runs \ disturbed : lost[r] # "to a cleanup", [Next]_vars
  PROVE  \A r \in Runs \ disturbed' : lost'[r] # "to a cleanup"
<1> USE PlacesAreBusy
<1>1. TypeOK /\ WaitersRequest
  BY DEF ClientsNumbered
<1> SUFFICES ASSUME NEW q \in Runs, q \notin disturbed', q \notin disturbed => lost[q] # "to a cleanup"
             PROVE  lost'[q] # "to a cleanup"
  OBVIOUS
<1>2. ASSUME NEW r \in Runs, SendOnClosed(r) PROVE lost'[q] # "to a cleanup"
  <2>1. r \in disturbed
    <3>1. PICK p \in Closing : TRUE
      BY <1>2 DEF SendOnClosed, ClosersDisturb
    <3>2. p # r /\ pc[r] \in Busy
      BY <1>2, <3>1 DEF Closing, SendOnClosed, Requesting
    <3> QED
      BY <3>1, <3>2 DEF ClosersDisturb, Closing
  <2> QED
    BY <1>1, <1>2, <2>1 DEF TypeOK, SendOnClosed, GiveUp
<1>3. ASSUME NEW r \in Runs, RequestFails(r) PROVE lost'[q] # "to a cleanup"
  <2>1. using[r] \in open \/ r \in disturbed
    BY <1>3 DEF ClosersDisturb, RequestFails, Received, Waiting
  <2> QED
    BY <1>1, <1>3, <2>1 DEF TypeOK, RequestFails, GiveUp
<1>4. ASSUME NEW r \in Runs, Unavailable(r) \/ Refused(r) \/ NormalizeRaises(r)
      PROVE  lost'[q] # "to a cleanup"
  BY <1>1, <1>4 DEF TypeOK, Unavailable, Refused, NormalizeRaises, GiveUp
<1>5. ASSUME NEW r \in Runs, Started(r) \/ Wake(r) PROVE lost'[q] # "to a cleanup"
  BY <1>1, <1>5 DEF TypeOK, Started, Wake
<1>6. ASSUME NEW r \in Runs, Begin(r) \/ Close(r) PROVE lost'[q] # "to a cleanup"
  BY <1>6 DEF Begin, Close
<1>7. ASSUME NEW r \in Runs,
             \/ Send(r) \/ HealthAnswered(r) \/ PollEnded(r) \/ PollRunning(r) \/ Normalize(r)
             \/ NothingToClose(r) \/ AlreadyClosed(r) \/ Forget(r) \/ BurpEnds(r)
      PROVE  lost'[q] # "to a cleanup"
  BY <1>7 DEF Send, HealthAnswered, PollEnded, PollRunning, Normalize, NothingToClose, AlreadyClosed,
     Forget, BurpEnds, history
<1>8. UNCHANGED vars => lost'[q] # "to a cleanup"
  BY DEF vars, history
<1> QED
  BY <1>2, <1>3, <1>4, <1>5, <1>6, <1>7, <1>8 DEF Next, Step, Done

(* As long as cleanups do not overlap, the one that runs has closed the    *)
(* one client, and forgets it before there is another.                     *)
LEMMA HeldStep ==
  ASSUME ClientsNumbered, ClosersDisturb, HeldInvariant, [Next]_vars
  PROVE  HeldInvariant'
<1> USE PlacesAreBusy
<1>1. TypeOK /\ NoClient \notin Nat
  BY BurpAssumption DEF ClientsNumbered
<1>2. CASE UNCHANGED <<pc, client, overlapped>>
  BY <1>2 DEF HeldInvariant, Closing, client
<1>3. ASSUME NEW r \in Runs, Quiet(r) PROVE HeldInvariant'
  <2>1. Closing' = Closing
    BY <1>3 DEF Closing, Quiet
  <2> QED
    BY <1>3, <2>1 DEF HeldInvariant, Quiet
<1>4. ASSUME NEW r \in Runs, Begin(r) PROVE HeldInvariant'
  <2>1. Closing' = Closing
    BY <1>1, <1>4 DEF TypeOK, Closing, Begin, Goto
  <2> QED
    BY <1>4, <2>1 DEF HeldInvariant, Begin, client
<1>5. ASSUME NEW r \in Runs, Send(r) PROVE HeldInvariant'
  <2>1. Closing' = Closing /\ overlapped' = overlapped
    BY <1>5 DEF Closing, Send, history
  <2>2. CASE held = NoClient /\ held' = Fresh /\ open' = open \cup {Fresh}
    BY <1>1, <2>1, <2>2 DEF HeldInvariant, TypeOK
  <2>3. CASE UNCHANGED client
    BY <2>1, <2>3 DEF HeldInvariant, client
  <2> QED
    BY <1>5, <2>2, <2>3 DEF Send
<1>6. ASSUME NEW r \in Runs, AlreadyClosed(r) PROVE HeldInvariant'
  <2>1. Closing # {}
    BY <1>6 DEF AlreadyClosed, ClosersDisturb
  <2> QED
    BY <1>1, <1>6, <2>1 DEF HeldInvariant, AlreadyClosed, Closing, TypeOK
<1>7. ASSUME NEW r \in Runs, Close(r) PROVE HeldInvariant'
  <2>1. Closing' = Closing \cup {r}
    BY <1>1, <1>7 DEF TypeOK, Closing, Close, Goto
  <2>2. ~overlapped' => ~overlapped /\ Closing = {}
    BY <1>1, <1>7 DEF TypeOK, Close, Closing
  <2>3. held' = held /\ held # NoClient /\ open' = open \ {held}
    BY <1>1, <1>7 DEF TypeOK, Close
  <2> QED
    BY <2>1, <2>2, <2>3 DEF HeldInvariant
<1>8. ASSUME NEW r \in Runs, Forget(r) PROVE HeldInvariant'
  <2>1. r \in Closing /\ Closing' = Closing \ {r} /\ open' = open /\ overlapped' = overlapped
    BY <1>1, <1>8 DEF TypeOK, Closing, Forget, Goto, history
  <2> QED
    BY <2>1 DEF HeldInvariant
<1>9. ASSUME NEW r \in Runs, BurpEnds(r) PROVE UNCHANGED <<pc, client, overlapped>>
  BY <1>9 DEF BurpEnds, history
<1>10. UNCHANGED vars => UNCHANGED <<pc, client, overlapped>>
  BY DEF vars, history
<1> QED
  BY <1>2, <1>3, <1>4, <1>5, <1>6, <1>7, <1>8, <1>9, <1>10, QuietSteps DEF Next, Step, Done

-----------------------------------------------------------------------------
(* The whole invariant is inductive, for any finite set of runs and any    *)
(* budget of polls.                                                        *)
THEOREM BurpInvariantHolds == Spec => []InductiveInvariant
<1>1. Init => InductiveInvariant
  <2> SUFFICES ASSUME Init PROVE InductiveInvariant
    OBVIOUS
  <2>1. Closing = {} /\ Waiting = {}
    BY DEF Init, Closing, Waiting
  <2>2. ClosersDisturb /\ IssuesKept /\ HeldInvariant
    BY <2>1 DEF Init, ClosersDisturb, IssuesKept, HeldInvariant
  <2>3. \A r \in Runs \ disturbed : lost[r] # "to a cleanup"
    BY DEF Init
  <2> QED
    BY <2>2, <2>3, ClientsNumberedInit DEF InductiveInvariant, DisturbedInvariant
<1>2. InductiveInvariant /\ [Next]_vars => InductiveInvariant'
  BY ClientsNumberedStep, ClosersStep, IssuesStep, LostStep, HeldStep
     DEF InductiveInvariant, DisturbedInvariant
<1> QED
  BY <1>1, <1>2, PTL DEF Spec

(* The state of the adapter and of its runs is well typed: also the        *)
(* clients, none of which gets the number of another one in use.           *)
THEOREM BurpTypeCorrect == Spec => []TypeOK
<1>1. InductiveInvariant => TypeOK
  BY DEF InductiveInvariant, ClientsNumbered
<1> QED
  BY <1>1, BurpInvariantHolds, PTL

(* A run that no other run's cleanup met is cost nothing by the others:    *)
(* _run_engine, BurpTransport.aclose and _ensure, in any interleaving.     *)
THEOREM OnlyCleanupsDisturbHolds == Spec => []OnlyCleanupsDisturb
<1>1. InductiveInvariant => OnlyCleanupsDisturb
  BY DEF InductiveInvariant, DisturbedInvariant, IssuesKept, OnlyCleanupsDisturb
<1> QED
  BY <1>1, BurpInvariantHolds, PTL

(* No client that is open is forgotten unless two cleanups overlapped:     *)
(* aclose closes what _ensure opened, also after runs that ended without.  *)
THEOREM ClientsAreHeldHolds == Spec => []ClientsAreHeld
<1>1. InductiveInvariant => ClientsAreHeld
  BY DEF InductiveInvariant, HeldInvariant, ClientsAreHeld
<1> QED
  BY <1>1, BurpInvariantHolds, PTL
=============================================================================
