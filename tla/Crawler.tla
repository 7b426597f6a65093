------------------------------ MODULE Crawler --------------------------------
(***************************************************************************)
(* The native crawler (adapters/native/crawler.py): a breadth-first walk   *)
(* over the pages of the seeds' hosts, with a budget of pages and a depth, *)
(* that reports every URL a page or a script names.  It is one coroutine;  *)
(* what varies is the site and what each request comes back as.            *)
(*                                                                         *)
(* A URL stands for what _strip_fragment leaves of it.  A body is the set  *)
(* of URLs it names: the order a page names them in is left open, and a    *)
(* URL it names twice is queued once, the second time being skipped.       *)
(***************************************************************************)
EXTENDS Integers, Sequences, FiniteSets

CONSTANTS
  Urls,          \* URLs of the site and of others
  Seeds,         \* seed_urls, in order
  SameHost,      \* URLs on the host of a seed
  ScriptUrls,    \* URLs that stand in script elements where a page names them
  Sites,         \* the sites considered: what the body of each URL names
  PageLimits,    \* values of the option max_pages
  DepthLimits    \* values of the option max_depth

ASSUME CrawlerAssumption ==
  /\ IsFiniteSet(Urls)
  /\ Seeds \in Seq(Urls)
  /\ SameHost \subseteq Urls /\ \A i \in DOMAIN Seeds : Seeds[i] \in SameHost
  /\ ScriptUrls \subseteq Urls
  /\ Sites \subseteq [Urls -> SUBSET Urls]
  /\ PageLimits \subseteq Int /\ DepthLimits \subseteq Nat

SeedUrls == {Seeds[i] : i \in DOMAIN Seeds}

VARIABLES
  site, limits,  \* the site and the options of this run: they do not change
  pc,            \* "loop", "page" (page asked for), "scripts" or "done"
  cur,           \* the queue entry in hand
  scripts,       \* scripts of the page in hand still to be fetched
  queue,         \* queue of entries [url, depth]
  seen,          \* seen
  discovered,    \* the keys of discovered
  takenAt,       \* depth each page was taken at, 0 before: read by no action
  html           \* pages that came back as HTML: read by no action

vars == <<site, limits, pc, cur, scripts, queue, seen, discovered, takenAt, html>>

Entry == [url : Urls, depth : Nat]

(* The pages a page leads to.                                              *)
Followed(p) == site[p] \cap SameHost

(* S in some order.                                                        *)
Orders(S) ==
  {L \in [1 .. Cardinality(S) -> S] : \A u \in S : \E i \in DOMAIN L : L[i] = u}

Init ==
  /\ site \in Sites
  /\ limits \in [pages : PageLimits, depth : DepthLimits]
  /\ pc = "loop"
  /\ cur \in [url : Urls, depth : {0}]     \* not read before it is assigned
  /\ scripts = {}
  /\ queue = [i \in DOMAIN Seeds |-> [url |-> Seeds[i], depth |-> 0]]
  /\ seen = {} /\ discovered = {}
  /\ takenAt = [u \in Urls |-> 0]
  /\ html = {}

(* The condition of the while loop.                                        *)
GoesOn == queue # <<>> /\ Cardinality(seen) < limits.pages

(* Mutant: pop() for popleft(), a depth-first walk. *)
PopRight == [entry |-> queue[Len(queue)], rest |-> SubSeq(queue, 1, Len(queue) - 1)]

(* queue.popleft() *)
PopLeft == [entry |-> Head(queue), rest |-> Tail(queue)]

SkipSeen ==
  /\ pc = "loop" /\ GoesOn
  /\ PopLeft.entry.url \in seen
  /\ queue' = PopLeft.rest
  /\ UNCHANGED <<site, limits, pc, cur, scripts, seen, discovered, takenAt, html>>

TakePage ==
  /\ pc = "loop" /\ GoesOn
  /\ LET e == PopLeft.entry
     IN  /\ e.url \notin seen
         /\ cur'     = e
         /\ seen'    = seen \cup {e.url}
         /\ takenAt' = [takenAt EXCEPT ![e.url] = e.depth]
  /\ queue' = PopLeft.rest
  /\ pc'    = "page"
  /\ UNCHANGED <<site, limits, scripts, discovered, html>>

(* Mutant: the queueing is under the test that the link is new. *)
LinksToQueueIfNew ==
  {l \in Followed(cur.url) \ discovered : cur.depth < limits.depth}

(* A link is queued whether it was discovered before or not.               *)
LinksToQueue ==
  {l \in Followed(cur.url) : cur.depth < limits.depth}

EntryOf(l) == [url |-> l, depth |-> cur.depth + 1]

(* The page came back as HTML: its links are recorded and queued, and its  *)
(* scripts are fetched next.                                               *)
PageIsHtml ==
  /\ pc = "page"
  /\ discovered' = discovered \cup site[cur.url]
  /\ \E L \in Orders(LinksToQueue) :
       queue' = queue \o [i \in DOMAIN L |-> EntryOf(L[i])]
  /\ scripts' = site[cur.url] \cap ScriptUrls
  /\ html'    = html \cup {cur.url}
  /\ pc'      = "scripts"
  /\ UNCHANGED <<site, limits, cur, seen, takenAt>>

(* It came back as a script: the endpoints in it are recorded only.        *)
PageIsScript ==
  /\ pc = "page"
  /\ discovered' = discovered \cup site[cur.url]
  /\ pc' = "loop"
  /\ UNCHANGED <<site, limits, cur, scripts, queue, seen, takenAt, html>>

(* Out of scope, failed, or of another content type.                       *)
PageIsNothing ==
  /\ pc = "page"
  /\ pc' = "loop"
  /\ UNCHANGED <<site, limits, cur, scripts, queue, seen, discovered, takenAt, html>>

(* The scripts of a page count against no budget; whatever an answered one *)
(* is, endpoints are looked for in it.                                     *)
FetchScript(s, ok) ==
  /\ pc = "scripts" /\ s \in scripts
  /\ scripts'    = scripts \ {s}
  /\ discovered' = IF ok THEN discovered \cup site[s] ELSE discovered
  /\ UNCHANGED <<site, limits, pc, cur, queue, seen, takenAt, html>>

ScriptsDone ==
  /\ pc = "scripts" /\ scripts = {}
  /\ pc' = "loop"
  /\ UNCHANGED <<site, limits, cur, scripts, queue, seen, discovered, takenAt, html>>

Finish ==
  /\ pc = "loop" /\ ~GoesOn
  /\ pc' = "done"
  /\ UNCHANGED <<site, limits, cur, scripts, queue, seen, discovered, takenAt, html>>

(* The crawl is over.                                                      *)
Crawled == pc = "done" /\ UNCHANGED vars

Next ==
  \/ SkipSeen \/ TakePage
  \/ PageIsHtml \/ PageIsScript \/ PageIsNothing
  \/ \E s \in ScriptUrls, ok \in BOOLEAN : FetchScript(s, ok)
  \/ ScriptsDone \/ Finish \/ Crawled

Spec == Init /\ [][Next]_vars

-----------------------------------------------------------------------------
(* The type invariant of the crawl loop's state.                           *)
TypeOK ==
  /\ site \in [Urls -> SUBSET Urls]
  /\ limits \in [pages : Int, depth : Nat]
  /\ pc \in {"loop", "page", "scripts", "done"}
  /\ cur \in Entry
  /\ scripts \subseteq Urls
  /\ queue \in Seq(Entry)
  /\ seen \subseteq Urls /\ discovered \subseteq Urls /\ html \subseteq seen
  /\ takenAt \in [Urls -> Nat]

(* The walk is breadth-first although the queue holds duplicates and the   *)
(* same page is queued at several depths: the depth a page is taken at is  *)
(* its distance from the seeds over the pages read so far, 0 for a seed,   *)
(* one more than the nearest page that links to it for the others.  Were   *)
(* it more, the depth limit would cut off pages that are near enough.      *)
DepthIsDistance ==
  \A u \in seen :
    /\ u \in SeedUrls <=> takenAt[u] = 0
    /\ u \notin SeedUrls =>
         \E p \in html : u \in Followed(p) /\ takenAt[u] = takenAt[p] + 1
    /\ \A p \in html : u \in Followed(p) => takenAt[u] <= takenAt[p] + 1

(* Pages are asked for on the hosts of the seeds only, within both limits. *)
StaysNear ==
  /\ seen \subseteq SameHost
  /\ \A u \in seen : takenAt[u] <= limits.depth
  /\ seen # {} => Cardinality(seen) <= limits.pages

(* The walk keeps its depths and its limits (crawler.py:51-72).              *)
WalkIsBounded == DepthIsDistance /\ StaysNear

(* A walk that ends short of its page budget has asked for every seed and  *)
(* for every page of the hosts that a page above the depth limit links to, *)
(* whichever way else that URL had been discovered.                        *)
CrawlIsComplete ==
  pc = "done" /\ Cardinality(seen) < limits.pages =>
    /\ SeedUrls \subseteq seen
    /\ \A p \in html : takenAt[p] < limits.depth => Followed(p) \subseteq seen
=============================================================================
