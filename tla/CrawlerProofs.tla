--------------------------- MODULE CrawlerProofs ------------------------------
(***************************************************************************)
(* The crawler walks breadth-first, within its limits, and leaves out no   *)
(* page it should reach, for every site, every seeds and limits, and every *)
(* outcome of its requests.                                                *)
(***************************************************************************)
EXTENDS Crawler, FiniteSetTheorems, TLAPS

(* The queue is sorted by depth and spans two depths at most.              *)
Sorted ==
  /\ \A i, j \in DOMAIN queue : i <= j => queue[i].depth <= queue[j].depth
  /\ \A i, j \in DOMAIN queue : queue[j].depth <= queue[i].depth + 1

(* No page in the queue is nearer than one that was taken.                 *)
Ahead == \A u \in seen : \A i \in DOMAIN queue : takenAt[u] <= queue[i].depth

(* The page in hand is as far as any taken, and the queue starts there.    *)
InHand ==
  pc = "page" =>
    /\ cur.url \in seen /\ takenAt[cur.url] = cur.depth
    /\ \A u \in seen : takenAt[u] <= cur.depth
    /\ \A i \in DOMAIN queue :
         cur.depth <= queue[i].depth /\ queue[i].depth <= cur.depth + 1

(* Every entry has a reason to be queued at its depth.                     *)
Justified ==
  \A i \in DOMAIN queue :
    /\ queue[i].url \in SameHost
    /\ queue[i].depth <= limits.depth
    /\ queue[i].depth = 0 => queue[i].url \in SeedUrls
    /\ queue[i].depth > 0 =>
         \E p \in html : /\ queue[i].url \in Followed(p)
                         /\ queue[i].depth = takenAt[p] + 1

(* What is to be crawled was taken or waits, at the depth it should have.  *)
SeedsPending ==
  \A s \in SeedUrls \ seen :
    \E i \in DOMAIN queue : queue[i].url = s /\ queue[i].depth = 0

LinksPending ==
  \A p \in html : takenAt[p] < limits.depth =>
    \A l \in Followed(p) \ seen :
      \E i \in DOMAIN queue : queue[i].url = l /\ queue[i].depth <= takenAt[p] + 1

DoneShort == pc = "done" /\ Cardinality(seen) < limits.pages => queue = <<>>

Inv ==
  /\ TypeOK
  /\ Sorted /\ Ahead /\ InHand /\ Justified
  /\ SeedsPending /\ LinksPending /\ DoneShort
  /\ DepthIsDistance /\ StaysNear

-----------------------------------------------------------------------------
(* A non-empty queue without its first entry.                              *)
LEMMA TailIsShifted ==
  ASSUME NEW S, NEW q \in Seq(S), q # <<>>
  PROVE  /\ Head(q) = q[1] /\ Head(q) \in S /\ 1 \in DOMAIN q
         /\ Tail(q) \in Seq(S)
         /\ \A i \in DOMAIN Tail(q) : i + 1 \in DOMAIN q /\ Tail(q)[i] = q[i + 1]
         /\ \A i \in DOMAIN q : i # 1 =>
              i - 1 \in DOMAIN Tail(q) /\ Tail(q)[i - 1] = q[i]
OBVIOUS

(* The initial queue holds the seeds.                                      *)
LEMMA InitInv == Init => Inv
<1> SUFFICES ASSUME Init PROVE Inv
  OBVIOUS
<1> USE CrawlerAssumption DEF Init
<1>1. /\ DOMAIN queue = 1 .. Len(Seeds) /\ DOMAIN Seeds = 1 .. Len(Seeds)
      /\ \A i \in DOMAIN queue : queue[i] = [url |-> Seeds[i], depth |-> 0]
      /\ \A i \in DOMAIN Seeds : Seeds[i] \in Urls
  OBVIOUS
<1>2. TypeOK
  <2>1. queue \in Seq(Entry)
    BY <1>1 DEF Entry
  <2>2. site \in [Urls -> SUBSET Urls]
    BY Zenon
  <2>3. limits \in [pages : Int, depth : Nat]
    <3>1. PICK x \in PageLimits, y \in DepthLimits : limits = [pages |-> x, depth |-> y]
      BY Zenon
    <3>2. x \in Int /\ y \in Nat
      BY Zenon
    <3> QED
      BY <3>1, <3>2, Zenon
  <2>4. cur \in Entry
    BY SMT DEF Entry
  <2> QED
    BY <2>1, <2>2, <2>3, <2>4 DEF TypeOK
<1>3. Sorted /\ Ahead /\ InHand
  BY <1>1 DEF Sorted, Ahead, InHand
<1>4. Justified
  <2>1. limits.depth \in Nat
    BY <1>2 DEF TypeOK
  <2>2. \A i \in DOMAIN Seeds : Seeds[i] \in SameHost
    OBVIOUS
  <2> HIDE CrawlerAssumption DEF Init
  <2> QED
    BY <1>1, <2>1, <2>2 DEF Justified, SeedUrls
<1>5. SeedsPending /\ LinksPending /\ DoneShort
  BY <1>1 DEF SeedsPending, LinksPending, DoneShort, SeedUrls
<1>6. DepthIsDistance /\ StaysNear
  BY DEF DepthIsDistance, StaysNear
<1> QED
  BY <1>2, <1>3, <1>4, <1>5, <1>6 DEF Inv

(* Popping leaves what is said of the queue true of the rest of it, and    *)
(* the entry popped is the nearest one.                                    *)
LEMMA PopKeepsTheQueue ==
  ASSUME Inv, queue # <<>>
  PROVE  LET e == PopLeft.entry
             rest == PopLeft.rest
         IN  /\ e = queue[1] /\ e \in Entry /\ rest \in Seq(Entry)
             /\ 1 \in DOMAIN queue
             /\ \A i \in DOMAIN rest : i + 1 \in DOMAIN queue /\ rest[i] = queue[i + 1]
             /\ \A i \in DOMAIN queue : i # 1 =>
                  i - 1 \in DOMAIN rest /\ rest[i - 1] = queue[i]
             /\ \A i \in DOMAIN queue :
                  /\ i \in Nat /\ queue[i].depth \in Nat
                  /\ e.depth <= queue[i].depth
                  /\ queue[i].depth <= e.depth + 1
<1>1. queue \in Seq(Entry)
  BY DEF Inv, TypeOK
<1>2. PopLeft.entry = Head(queue) /\ PopLeft.rest = Tail(queue)
  BY DEF PopLeft
<1>3. \A i \in DOMAIN queue : i \in Nat /\ 1 <= i /\ queue[i].depth \in Nat
  <2> SUFFICES ASSUME NEW i \in DOMAIN queue
               PROVE  i \in Nat /\ 1 <= i /\ queue[i].depth \in Nat
    OBVIOUS
  <2>1. i \in 1 .. Len(queue) /\ queue[i] \in Entry
    BY <1>1
  <2> QED
    BY <2>1 DEF Entry
<1>4. 1 \in DOMAIN queue /\ Head(queue) = queue[1]
  BY <1>1, TailIsShifted
<1>5. \A i \in DOMAIN queue :
        queue[1].depth <= queue[i].depth /\ queue[i].depth <= queue[1].depth + 1
  BY <1>3, <1>4 DEF Inv, Sorted
<1> QED
  BY <1>1, <1>2, <1>3, <1>4, <1>5, TailIsShifted

(* An entry for a page taken before is dropped: nothing waited for it.     *)
LEMMA SkipSeenInv == Inv /\ SkipSeen => Inv'
<1> SUFFICES ASSUME Inv, SkipSeen PROVE Inv'
  OBVIOUS
<1> DEFINE e == PopLeft.entry
           rest == PopLeft.rest
<1>0. queue # <<>> /\ e.url \in seen /\ queue' = rest /\ pc = "loop" /\ pc' = pc
      /\ UNCHANGED <<site, limits, cur, scripts, seen, discovered, takenAt, html>>
  BY DEF SkipSeen, GoesOn
<1>1. /\ e = queue[1] /\ 1 \in DOMAIN queue /\ rest \in Seq(Entry)
      /\ \A i \in DOMAIN rest : i + 1 \in DOMAIN queue /\ rest[i] = queue[i + 1]
      /\ \A i \in DOMAIN queue : i # 1 =>
           i - 1 \in DOMAIN rest /\ rest[i - 1] = queue[i]
      /\ \A i \in DOMAIN rest : i \in Nat
  BY <1>0, PopKeepsTheQueue
<1> HIDE DEF e, rest
<1>2. TypeOK'
  BY <1>0, <1>1 DEF Inv, TypeOK
<1>3. Sorted'
  BY <1>0, <1>1 DEF Inv, Sorted
<1>4. Ahead' /\ InHand'
  BY <1>0, <1>1 DEF Inv, Ahead, InHand
<1>5. Justified'
  BY <1>0, <1>1 DEF Inv, Justified, Followed
<1>6. SeedsPending'
  BY <1>0, <1>1 DEF Inv, SeedsPending
<1>7. LinksPending'
  BY <1>0, <1>1 DEF Inv, LinksPending, Followed
<1>8. DoneShort' /\ DepthIsDistance' /\ StaysNear'
  BY <1>0 DEF Inv, DoneShort, DepthIsDistance, StaysNear, Followed
<1> QED
  BY <1>2, <1>3, <1>4, <1>5, <1>6, <1>7, <1>8 DEF Inv

(* The entry in front is the nearest, so that its depth is the distance.   *)
LEMMA TakePageInv == Inv /\ TakePage => Inv'
<1> SUFFICES ASSUME Inv, TakePage PROVE Inv'
  OBVIOUS
<1> DEFINE e == PopLeft.entry
           rest == PopLeft.rest
<1>0. /\ queue # <<>> /\ Cardinality(seen) < limits.pages
      /\ e.url \notin seen /\ seen' = seen \cup {e.url} /\ cur' = e
      /\ takenAt' = [takenAt EXCEPT ![e.url] = e.depth]
      /\ queue' = rest /\ pc' = "page"
      /\ UNCHANGED <<site, limits, scripts, discovered, html>>
  BY DEF TakePage, GoesOn
<1>1. /\ e = queue[1] /\ 1 \in DOMAIN queue /\ e \in Entry /\ rest \in Seq(Entry)
      /\ \A i \in DOMAIN rest : i + 1 \in DOMAIN queue /\ rest[i] = queue[i + 1]
      /\ \A i \in DOMAIN queue : i # 1 =>
           i - 1 \in DOMAIN rest /\ rest[i - 1] = queue[i]
      /\ \A i \in DOMAIN rest : i \in Nat
      /\ \A i \in DOMAIN queue :
           /\ i \in Nat /\ queue[i].depth \in Nat
           /\ e.depth <= queue[i].depth /\ queue[i].depth <= e.depth + 1
  BY <1>0, PopKeepsTheQueue
<1> HIDE DEF e, rest
<1>2. e.url \in Urls /\ e.depth \in Nat
  BY <1>1 DEF Entry
<1>3. /\ takenAt'[e.url] = e.depth
      /\ \A u \in seen : takenAt'[u] = takenAt[u] /\ takenAt[u] \in Nat
      /\ \A p \in html : p \in seen
      /\ limits.depth \in Nat /\ limits.pages \in Int
  BY <1>0, <1>2 DEF Inv, TypeOK
<1>4. TypeOK'
  BY <1>0, <1>1, <1>2 DEF Inv, TypeOK
<1>5. Sorted'
  <2> SUFFICES ASSUME NEW i \in DOMAIN rest, NEW j \in DOMAIN rest
               PROVE /\ i <= j => rest[i].depth <= rest[j].depth
                     /\ rest[j].depth <= rest[i].depth + 1
    BY <1>0 DEF Sorted
  <2>1. /\ i + 1 \in DOMAIN queue /\ j + 1 \in DOMAIN queue
        /\ rest[i] = queue[i + 1] /\ rest[j] = queue[j + 1]
        /\ i <= j => i + 1 <= j + 1
    BY <1>1
  <2> QED
    BY <2>1 DEF Inv, Sorted
<1>6. \A u \in seen : takenAt[u] <= e.depth
  BY <1>1 DEF Inv, Ahead
<1>7. Ahead'
  <2> SUFFICES ASSUME NEW u \in seen', NEW i \in DOMAIN rest
               PROVE  takenAt'[u] <= rest[i].depth
    BY <1>0 DEF Ahead
  <2>1. CASE u = e.url
    BY <2>1, <1>1, <1>3
  <2>2. CASE u \in seen
    BY <2>2, <1>1, <1>3 DEF Inv, Ahead
  <2> QED
    BY <2>1, <2>2, <1>0
<1>8. InHand'
  BY <1>0, <1>1, <1>2, <1>3, <1>6 DEF InHand
<1>9. Justified'
  <2> SUFFICES ASSUME NEW i \in DOMAIN rest
               PROVE  /\ rest[i].url \in SameHost
                      /\ rest[i].depth <= limits.depth
                      /\ rest[i].depth = 0 => rest[i].url \in SeedUrls
                      /\ rest[i].depth > 0 =>
                           \E p \in html : /\ rest[i].url \in Followed(p)
                                           /\ rest[i].depth = takenAt'[p] + 1
    BY <1>0 DEF Justified, Followed
  <2>1. i + 1 \in DOMAIN queue /\ rest[i] = queue[i + 1]
    BY <1>1
  <2>2. \A p \in html : takenAt'[p] = takenAt[p]
    BY <1>3
  <2> QED
    BY <2>1, <2>2 DEF Inv, Justified
<1>10. SeedsPending'
  BY <1>0, <1>1 DEF Inv, SeedsPending
<1>11. LinksPending'
  <2> SUFFICES ASSUME NEW p \in html, takenAt[p] < limits.depth,
                      NEW l \in Followed(p) \ seen, l # e.url
               PROVE  \E i \in DOMAIN rest :
                        rest[i].url = l /\ rest[i].depth <= takenAt[p] + 1
    BY <1>0, <1>3 DEF LinksPending, Followed
  <2>1. PICK i \in DOMAIN queue :
               queue[i].url = l /\ queue[i].depth <= takenAt[p] + 1
    BY DEF Inv, LinksPending
  <2> QED
    BY <2>1, <1>1
<1>12. DepthIsDistance'
  <2>1. e.url \in SeedUrls <=> e.depth = 0
    <3>1. e.depth = 0 => e.url \in SeedUrls
      BY <1>1 DEF Inv, Justified
    <3>2. ASSUME e.url \in SeedUrls PROVE e.depth = 0
      <4>1. PICK i \in DOMAIN queue : queue[i].url = e.url /\ queue[i].depth = 0
        BY <1>0, <3>2 DEF Inv, SeedsPending
      <4> QED
        BY <4>1, <1>1, <1>2
    <3> QED
      BY <3>1, <3>2
  <2>2. e.url \notin SeedUrls =>
          \E p \in html : e.url \in Followed(p) /\ e.depth = takenAt[p] + 1
    BY <2>1, <1>1, <1>2 DEF Inv, Justified
  <2>3. ASSUME NEW p \in html, e.url \in Followed(p)
        PROVE  e.depth <= takenAt[p] + 1
    <3>1. CASE takenAt[p] < limits.depth
      <4>1. PICK i \in DOMAIN queue :
                   queue[i].url = e.url /\ queue[i].depth <= takenAt[p] + 1
        BY <1>0, <2>3, <3>1 DEF Inv, LinksPending
      <4> QED
        BY <4>1, <1>1, <1>2, <1>3
    <3>2. CASE takenAt[p] >= limits.depth
      <4>1. e.depth <= limits.depth
        BY <1>1 DEF Inv, Justified
      <4> QED
        BY <4>1, <3>2, <1>2, <1>3
    <3> QED
      BY <3>1, <3>2, <1>3
  <2>4. \A u \in seen :
          /\ u \in SeedUrls <=> takenAt[u] = 0
          /\ u \notin SeedUrls =>
               \E p \in html : u \in Followed(p) /\ takenAt[u] = takenAt[p] + 1
          /\ \A p \in html : u \in Followed(p) => takenAt[u] <= takenAt[p] + 1
    BY DEF Inv, DepthIsDistance
  <2>5. /\ html' = html /\ \A p : Followed(p)' = Followed(p)
        /\ \A p \in html : takenAt'[p] = takenAt[p]
    BY <1>0, <1>3 DEF Followed
  <2>6. ASSUME NEW u \in seen'
        PROVE  /\ u \in SeedUrls <=> takenAt'[u] = 0
               /\ u \notin SeedUrls =>
                    \E p \in html : u \in Followed(p) /\ takenAt'[u] = takenAt'[p] + 1
               /\ \A p \in html : u \in Followed(p) => takenAt'[u] <= takenAt'[p] + 1
    <3>1. CASE u = e.url
      BY <3>1, <2>1, <2>2, <2>3, <2>5, <1>3
    <3>2. CASE u \in seen
      BY <3>2, <2>4, <2>5, <1>3
    <3> QED
      BY <3>1, <3>2, <1>0
  <2> QED
    BY <2>5, <2>6 DEF DepthIsDistance
<1>13. StaysNear'
  <2>1. IsFiniteSet(seen) /\ Cardinality(seen) \in Nat
    BY CrawlerAssumption, FS_Subset, FS_CardinalityType DEF Inv, TypeOK
  <2>2. Cardinality(seen') = Cardinality(seen) + 1
    BY <2>1, <1>0, FS_AddElement
  <2>3. e.url \in SameHost /\ e.depth <= limits.depth
    BY <1>1 DEF Inv, Justified
  <2>4. Cardinality(seen') <= limits.pages
    BY <2>1, <2>2, <1>0, <1>3
  <2>5. \A u \in seen' : takenAt'[u] <= limits.depth /\ u \in SameHost
    BY <2>3, <1>0, <1>3 DEF Inv, StaysNear
  <2> QED
    BY <2>4, <2>5, <1>0 DEF StaysNear
<1>14. DoneShort'
  BY <1>0 DEF DoneShort
<1> QED
  BY <1>4, <1>5, <1>7, <1>8, <1>9, <1>10, <1>11, <1>12, <1>13, <1>14 DEF Inv

(* What a page leads to is queued one level below it, at the end.          *)
LEMMA PageIsHtmlInv == Inv /\ PageIsHtml => Inv'
<1> SUFFICES ASSUME Inv, PageIsHtml PROVE Inv'
  OBVIOUS
<1>1. PICK L \in Orders(LinksToQueue) :
        queue' = queue \o [i \in DOMAIN L |-> EntryOf(L[i])]
  BY DEF PageIsHtml
<1> DEFINE new == [i \in DOMAIN L |-> EntryOf(L[i])]
           n == Len(queue)
<1>0. /\ pc = "page" /\ pc' = "scripts"
      /\ discovered' = discovered \cup site[cur.url]
      /\ scripts' = site[cur.url] \cap ScriptUrls
      /\ html' = html \cup {cur.url}
      /\ UNCHANGED <<site, limits, cur, seen, takenAt>>
  BY DEF PageIsHtml
<1>2. /\ queue \in Seq(Entry) /\ n \in Nat
      /\ site \in [Urls -> SUBSET Urls]
      /\ cur.url \in Urls /\ cur.depth \in Nat
      /\ limits.depth \in Nat /\ limits.pages \in Int
      /\ \A u \in seen : u \in Urls /\ takenAt[u] \in Nat
  BY DEF Inv, TypeOK, Entry
<1>3. /\ cur.url \in seen /\ takenAt[cur.url] = cur.depth
      /\ \A u \in seen : takenAt[u] <= cur.depth
      /\ \A i \in DOMAIN queue :
           cur.depth <= queue[i].depth /\ queue[i].depth <= cur.depth + 1
  BY <1>0 DEF Inv, InHand
<1>4. /\ Cardinality(LinksToQueue) \in Nat
      /\ LinksToQueue \subseteq Urls \cap SameHost
  <2>1. LinksToQueue \subseteq Followed(cur.url) /\ Followed(cur.url) \subseteq Urls
    BY <1>2 DEF LinksToQueue, Followed
  <2>2. LinksToQueue \subseteq SameHost
    BY DEF LinksToQueue, Followed
  <2> QED
    BY <2>1, <2>2, CrawlerAssumption, FS_Subset, FS_CardinalityType
<1>5. /\ new \in Seq(Entry)
      /\ \A i \in DOMAIN new : /\ i \in Nat /\ new[i] = EntryOf(L[i])
                               /\ L[i] \in LinksToQueue
      /\ \A l \in LinksToQueue : \E i \in DOMAIN new : L[i] = l
  <2>1. L \in [1 .. Cardinality(LinksToQueue) -> LinksToQueue]
    BY DEF Orders
  <2>2. \A l \in LinksToQueue : \E i \in DOMAIN L : L[i] = l
    BY DEF Orders
  <2>3. \A i \in DOMAIN L : EntryOf(L[i]) \in Entry
    BY <2>1, <1>2, <1>4 DEF EntryOf, Entry
  <2> QED
    BY <2>1, <2>2, <2>3, <1>4
<1>6. \A i \in DOMAIN new :
        /\ new[i].url = L[i] /\ new[i].depth = cur.depth + 1
        /\ L[i] \in Followed(cur.url) /\ L[i] \in SameHost
        /\ cur.depth < limits.depth
  BY <1>5 DEF EntryOf, LinksToQueue, Followed
<1> HIDE DEF new
<1>7. /\ queue' \in Seq(Entry)
      /\ DOMAIN queue' = 1 .. n + Len(new)
      /\ \A i \in DOMAIN queue : i \in DOMAIN queue' /\ queue'[i] = queue[i]
      /\ \A i \in DOMAIN new : n + i \in DOMAIN queue' /\ queue'[n + i] = new[i]
  BY <1>1, <1>2, <1>5 DEF new
<1>8. \A i \in DOMAIN queue' :
        \/ i \in DOMAIN queue /\ queue'[i] = queue[i]
        \/ i \notin DOMAIN queue /\ i > n
           /\ \E j \in DOMAIN new : queue'[i] = new[j]
  <2> SUFFICES ASSUME NEW i \in 1 .. n + Len(new), i \notin 1 .. n
               PROVE  i > n /\ \E j \in DOMAIN new : queue'[i] = new[j]
    BY <1>2, <1>7
  <2>1. i - n \in DOMAIN new /\ i = n + (i - n)
    BY <1>2, <1>5
  <2> QED
    BY <2>1, <1>2, <1>7
<1>9. \A i \in DOMAIN queue' \ DOMAIN queue :
        /\ queue'[i].depth = cur.depth + 1
        /\ queue'[i].url \in Followed(cur.url) /\ queue'[i].url \in SameHost
        /\ cur.depth < limits.depth
  BY <1>6, <1>8
<1>10. TypeOK'
  <2>1. site[cur.url] \subseteq Urls /\ html' \subseteq seen
    BY <1>0, <1>2, <1>3 DEF Inv, TypeOK
  <2> QED
    BY <2>1, <1>0, <1>7 DEF Inv, TypeOK
<1>11. Sorted'
  <2> SUFFICES ASSUME NEW i \in DOMAIN queue', NEW j \in DOMAIN queue'
               PROVE  /\ i <= j => queue'[i].depth <= queue'[j].depth
                      /\ queue'[j].depth <= queue'[i].depth + 1
    BY DEF Sorted
  <2>1. \A k \in DOMAIN queue : queue[k].depth \in Nat /\ k \in Nat /\ k <= n
    <3> SUFFICES ASSUME NEW k \in DOMAIN queue
                 PROVE  queue[k].depth \in Nat /\ k \in Nat /\ k <= n
      OBVIOUS
    <3>1. k \in 1 .. n /\ queue[k] \in Entry
      BY <1>2
    <3> QED
      BY <3>1, <1>2 DEF Entry
  <2>2. CASE i \in DOMAIN queue /\ j \in DOMAIN queue
    BY <2>2, <1>7 DEF Inv, Sorted
  <2>3. CASE i \in DOMAIN queue /\ j \notin DOMAIN queue
    BY <2>1, <2>3, <1>2, <1>3, <1>7, <1>9
  <2>4. CASE i \notin DOMAIN queue /\ j \in DOMAIN queue
    <3>1. j < i /\ i \in Nat /\ j \in Nat
      BY <2>1, <2>4, <1>2, <1>7, <1>8
    <3> QED
      BY <3>1, <2>1, <2>4, <1>2, <1>3, <1>7, <1>9
  <2>5. CASE i \notin DOMAIN queue /\ j \notin DOMAIN queue
    BY <2>5, <1>2, <1>9
  <2> QED
    BY <2>2, <2>3, <2>4, <2>5
<1>12. Ahead'
  <2> SUFFICES ASSUME NEW u \in seen, NEW i \in DOMAIN queue'
               PROVE  takenAt[u] <= queue'[i].depth
    BY <1>0 DEF Ahead
  <2>1. CASE i \in DOMAIN queue
    BY <2>1, <1>7 DEF Inv, Ahead
  <2>2. CASE i \notin DOMAIN queue
    BY <2>2, <1>2, <1>3, <1>9
  <2> QED
    BY <2>1, <2>2
<1>13. InHand' /\ DoneShort'
  BY <1>0 DEF InHand, DoneShort
<1>14. Justified'
  <2> SUFFICES ASSUME NEW i \in DOMAIN queue'
               PROVE  /\ queue'[i].url \in SameHost
                      /\ queue'[i].depth <= limits.depth
                      /\ queue'[i].depth = 0 => queue'[i].url \in SeedUrls
                      /\ queue'[i].depth > 0 =>
                           \E p \in html' : /\ queue'[i].url \in Followed(p)
                                            /\ queue'[i].depth = takenAt[p] + 1
    BY <1>0 DEF Justified, Followed
  <2>1. CASE i \in DOMAIN queue
    BY <2>1, <1>0, <1>7 DEF Inv, Justified
  <2>2. CASE i \notin DOMAIN queue
    BY <2>2, <1>0, <1>2, <1>3, <1>9
  <2> QED
    BY <2>1, <2>2
<1>15. SeedsPending'
  BY <1>0, <1>7 DEF Inv, SeedsPending
<1>16. LinksPending'
  <2> SUFFICES ASSUME NEW p \in html', takenAt[p] < limits.depth,
                      NEW l \in Followed(p) \ seen
               PROVE  \E i \in DOMAIN queue' :
                        queue'[i].url = l /\ queue'[i].depth <= takenAt[p] + 1
    BY <1>0 DEF LinksPending, Followed
  <2>1. CASE p \in html
    BY <2>1, <1>7 DEF Inv, LinksPending
  <2>2. CASE p = cur.url
    <3>1. l \in LinksToQueue
      BY <2>2, <1>3 DEF LinksToQueue
    <3>2. PICK i \in DOMAIN new : L[i] = l
      BY <3>1, <1>5
    <3> QED
      BY <3>2, <2>2, <1>2, <1>3, <1>6, <1>7
  <2> QED
    BY <2>1, <2>2, <1>0
<1>17. DepthIsDistance'
  <2> SUFFICES ASSUME NEW u \in seen
               PROVE  /\ u \in SeedUrls <=> takenAt[u] = 0
                      /\ u \notin SeedUrls =>
                           \E p \in html' : u \in Followed(p) /\ takenAt[u] = takenAt[p] + 1
                      /\ \A p \in html' : u \in Followed(p) => takenAt[u] <= takenAt[p] + 1
    BY <1>0 DEF DepthIsDistance, Followed
  <2>1. /\ u \in SeedUrls <=> takenAt[u] = 0
        /\ u \notin SeedUrls =>
             \E p \in html : u \in Followed(p) /\ takenAt[u] = takenAt[p] + 1
        /\ \A p \in html : u \in Followed(p) => takenAt[u] <= takenAt[p] + 1
    BY DEF Inv, DepthIsDistance
  <2>2. takenAt[u] <= takenAt[cur.url] + 1
    BY <1>2, <1>3
  <2> QED
    BY <2>1, <2>2, <1>0
<1>18. StaysNear'
  BY <1>0 DEF Inv, StaysNear
<1> QED
  BY <1>10, <1>11, <1>12, <1>13, <1>14, <1>15, <1>16, <1>17, <1>18 DEF Inv

(* The other steps touch neither the queue nor what was taken.             *)
LEMMA OtherStepsInv ==
  /\ Inv
  /\ \/ PageIsScript \/ PageIsNothing \/ ScriptsDone \/ Finish
     \/ \E s \in ScriptUrls, ok \in BOOLEAN : FetchScript(s, ok)
  => Inv'
<1> SUFFICES ASSUME Inv,
                    \/ PageIsScript \/ PageIsNothing \/ ScriptsDone \/ Finish
                    \/ \E s \in ScriptUrls, ok \in BOOLEAN : FetchScript(s, ok)
             PROVE  Inv'
  OBVIOUS
<1>1. /\ UNCHANGED <<site, limits, cur, queue, seen, takenAt, html>>
      /\ pc' \in {"loop", "scripts", "done"}
      /\ pc' = "done" => pc = "loop" /\ ~GoesOn
  BY DEF PageIsScript, PageIsNothing, ScriptsDone, Finish, FetchScript
<1>2. scripts' \subseteq Urls /\ discovered' \subseteq Urls
  <2>1. /\ site[cur.url] \subseteq Urls
        /\ \A s \in ScriptUrls : site[s] \subseteq Urls
        /\ scripts \subseteq Urls /\ discovered \subseteq Urls
    BY CrawlerAssumption DEF Inv, TypeOK, Entry
  <2> QED
    BY <2>1 DEF PageIsScript, PageIsNothing, ScriptsDone, Finish, FetchScript
<1>3. TypeOK'
  BY <1>1, <1>2 DEF Inv, TypeOK
<1>4. DoneShort'
  BY <1>1 DEF DoneShort, GoesOn
<1>5. Sorted' /\ Ahead' /\ InHand' /\ Justified'
  BY <1>1 DEF Inv, Sorted, Ahead, InHand, Justified, Followed
<1>6. SeedsPending' /\ LinksPending' /\ DepthIsDistance' /\ StaysNear'
  BY <1>1 DEF Inv, SeedsPending, LinksPending, DepthIsDistance, StaysNear, Followed
<1> QED
  BY <1>3, <1>4, <1>5, <1>6 DEF Inv

-----------------------------------------------------------------------------
(* The invariant of the walk holds throughout.                             *)
LEMMA Invariance == Spec => []Inv
<1>1. Inv /\ UNCHANGED vars => Inv'
  <2> SUFFICES ASSUME Inv, UNCHANGED vars PROVE Inv'
    OBVIOUS
  <2>1. TypeOK' /\ DoneShort' /\ StaysNear'
    BY DEF Inv, vars, TypeOK, DoneShort, StaysNear
  <2>2. Sorted' /\ Ahead' /\ InHand' /\ Justified'
    BY DEF Inv, vars, Sorted, Ahead, InHand, Justified, Followed
  <2>3. SeedsPending' /\ LinksPending' /\ DepthIsDistance'
    BY DEF Inv, vars, SeedsPending, LinksPending, DepthIsDistance, Followed
  <2> QED
    BY <2>1, <2>2, <2>3 DEF Inv
<1>2. Inv /\ [Next]_vars => Inv'
  BY <1>1, SkipSeenInv, TakePageInv, PageIsHtmlInv, OtherStepsInv DEF Next, Crawled
<1> QED
  BY InitInv, <1>2, PTL DEF Spec

(* The state of the crawl loop stays of its type.                          *)
THEOREM CrawlerTypes == Spec => []TypeOK
<1>1. Inv => TypeOK
  BY DEF Inv
<1> QED
  BY <1>1, Invariance, PTL

(* The loop takes every page at its distance from the seeds, on the hosts  *)
(* of the seeds and within both limits.                                    *)
THEOREM WalkIsBoundedHolds == Spec => []WalkIsBounded
<1>1. Inv => WalkIsBounded
  BY DEF Inv, WalkIsBounded
<1> QED
  BY <1>1, Invariance, PTL

(* A crawl short of its budget has left out nothing it should reach.       *)
THEOREM WalkIsComplete == Spec => []CrawlIsComplete
<1>1. Inv => CrawlIsComplete
  <2> SUFFICES ASSUME Inv, pc = "done", Cardinality(seen) < limits.pages
               PROVE  /\ SeedUrls \subseteq seen
                      /\ \A p \in html : takenAt[p] < limits.depth =>
                           Followed(p) \subseteq seen
    BY DEF CrawlIsComplete
  <2>1. DOMAIN queue = {}
    BY DEF Inv, DoneShort
  <2>2. SeedUrls \subseteq seen
    BY <2>1 DEF Inv, SeedsPending
  <2> QED
    BY <2>1, <2>2 DEF Inv, LinksPending
<1> QED
  BY <1>1, Invariance, PTL
=============================================================================
