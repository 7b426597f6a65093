# Vantage, specified

TLA+ modules, TLC models and TLAPS proofs for the Vantage DAST engine in `src/`
(Python under `src/src/vantage`, the egress proxy in Go under
`src/components/egress-proxy`). Paths below are relative to `src/src/vantage`
unless they start with `src/`.

## 1. Inventory

| Component | State it keeps | Operations | Talks to | What must be right |
|---|---|---|---|---|
| Orchestrator (`scan/orchestrator.py`) | the scan object of one `run`, its observations, discovered URLs, engines run and failed | `run`, `_run_engine`, `_set_state`, `_merge_history` | registry, planner, adapters, prober, correlation, risk, AI, database | legal transitions only; evidence before findings; every task reported; a failing engine never stops the scan; nothing without authorization |
| Scan states (`domain/scan.py`) | the state enumeration, the transition table | `can_transition` | orchestrator, API | terminal states stay terminal |
| Validation (`scan/validation.py`) | none | a strategy per category, `validate` | HTTP prober | a confirmed finding was reproduced |
| Correlation, history (`findings/correlation.py`) | none | group, merge, `merge_across_scans` | orchestrator, database | one finding per fingerprint; its evidence, times and confidence come from its observations |
| Persistence (`persistence/*.py`) | rows of scans, audit, observations, findings, knowledge | a unit of work per call, upserts | orchestrator, API, CLI | atomic per transaction; a prefix is left after a crash |
| Registry (`engines/registry.py`, `engines/detect.py`), assembly (`app.py`) | problems, approval, enabled flag and adapter of each engine | load, enable, approve, bind, `engines_for`, `adapter_for` | licence policy, planner, orchestrator | nothing unvetted runs; approval unlocks what waits for it |
| Planner (`planner/planner.py`) | none | `plan` | registry | every wanted capability covered once or reported as skipped |
| Scope engine (`scope/engine.py`), egress proxy (Go) | rules, authorization snapshot; the proxy's regex cache | `check`, default rules; `ServeHTTP`, `handleConnect` | HTTP client, prober, orchestrator; external engines | the two agree; excludes win; the default scope is the base URLs' directories |
| HTTP client (`adapters/http.py`) | token bucket, lock, semaphore, connection pool | `fetch`, `aclose` | scope engine, native engines, prober | the rate and the ceiling hold; a cancelled fetch leaks nothing |
| Governance (`governance/*.py`) | policy tables | `classify`, `check_inventory` | registry, CLI gate | nothing ships against the policy |
| Risk, proofs (`findings/risk.py`, `proof.py`), reports | none | score, verdict, build, verify | orchestrator, API, CLI | ranking is monotone and agrees with the verdicts |
| AI analyst (`ai/analyst.py`, `provider.py`), models (`install.py`, `models.py`) | ranking and notes; the model's file | `assess`, `prioritized_order`; copy or pull, verify | orchestrator, CLI | advisory only; the verified file is the one on disk |
| Native engines (`adapters/native`), OSS adapters (`adapters/oss`), Burp client (`adapters/external/burp.py`) | per-run outputs; Burp: one shared transport | health, validate, prepare, execute, collect, normalize, cleanup | HTTP client, sandbox, Burp's API | lifecycle order; bounds of crawl and polling |
| Sandbox (`engines/sandbox.py`) | processes, containers, work directories | `run`, `select_runner` | OSS adapters | a timeout ends what it started |
| API and CLI (`api/app.py`, `cli/main.py`), configuration (`config.py`) | the lazily built application; the settings file | submit, list, report; commands; load, save | all of the above | one application; one run per scan; only reviewed models; the saved choice stands |

**How they interact.** The API (or CLI) stores a scan and schedules
`Orchestrator.run` as one task. `run` asks the registry and planner for a plan,
then runs the planned engines one after the other; each is an adapter with six
awaits that may fail at any of them. Native engines fetch through the HTTP
client, which asks the scope engine first; external engines are containers whose
traffic is meant to pass the Go proxy, configured with the same rules. After the
loop the observations are re-tested over HTTP, grouped into findings, given the
history of the target's previous scan, scored, stored, and ranked by the AI.
Each state change, each engine's observations and the findings are separate
database transactions.

**What is hard.** Runs interleave at every await and share the database and the
adapters. A crash or a cancellation may fall between any two commits and nothing
recovers it. Authorization expires by the clock and is read at several places.
Engines, probes and the AI fail in many ways, most of which are caught and one of
which is not. Time is measured around sleeps under a lock. Two implementations of
one scope decision exist in two languages. Licence expressions are split as text. What a check reports and what its recheck
looks for are written down twice. One Burp client is shared by all scans and closed
by each. The server builds its application on first use, in threads and on the
event loop, from a file that commands rewrite in place.

## 2. Modules and plan

Order of work, most important behaviour first. Items marked (later) are planned.

1. `ScanStates`, `ScanLifecycle`, `ScanOrchestrator`: the abstract life of a
   scan's rows, and the orchestrator with validation, correlation, history and
   storage, shown to implement it.
2. `ScopedHttpClient`: the token bucket, lock and semaphore.
3. `EngineRegistry`, `ScanPlanner`, `EngineSelection`: from manifests to engines.
4. `LicensePolicy`, `ScopeRules`, `FindingRanking`, `Decisions`: pure decisions.
5. `SandboxRun`, `Crawler`: what an engine run does with its processes, and the
   one native engine that is more than a pattern.
6. `ResponseChecks`, `ProofBundles`, `AiAnalyst`, `Reports`: what the native checks
   report and the validator rechecks, proof bundles, the AI's annotations, and the
   report formats, composed by `Decisions`.
7. `BurpAdapter`: scans that share one Burp client.
8. `AiSetup`, `ControlPlane`: the setup commands and the configuration file, and the
   server that reads it.
9. (later) the proxy's handlers, its CONNECT check and regex cache; the upsert that
   keeps a row's old id.
   Every safety property of a run is proved (section 6); what is added there will be
   proved with it.

| Module | Models | Proofs |
|---|---|---|
| `ScanStates` | `ScanState`, `TERMINAL_STATES`, `_TRANSITIONS` | |
| `ScanLifecycle` | abstract: what the database promises of a scan | |
| `ScanOrchestrator` | `run` and what it calls; `ScanOrchestratorInvariants` has the strengthening | `ScanOrchestratorProofs` |
| `ScopedHttpClient` | `_TokenBucket`, `ScopedHttpClient.fetch` | `ScopedHttpClientProofs` |
| `EngineRegistry` | `EngineRegistry`, `RegisteredEngine.usable` | |
| `ScanPlanner` | `ScanPlanner.plan` and its tables | |
| `Listing` | operator: a list comprehension with a condition, used by the two above | |
| `EngineSelection` | composes the two with `VantageApp.build` and the orchestrator's lookups | `EngineSelectionProofs` |
| `LicensePolicy`, `ScopeRules`, `FindingRanking` | operators: licences and inventories, scope, correlation and scores | |
| `ResponseChecks` | operators: header, cookie, CORS, banner, secret, fingerprint and TLS checks, and `ConfigReverifyStrategy` | |
| `ProofBundles`, `AiAnalyst`, `Reports` | operators: bundles, annotations of the model, JSON, SARIF and Markdown | |
| `Decisions` | composes them: one call, one answer | `DecisionsProofs` |
| `SandboxRun` | one engine run under the docker or the local runner | `SandboxRunProofs` |
| `Crawler` | the crawl loop of `vantage-crawler` | `CrawlerProofs` |
| `BurpAdapter` | engine runs that share the Burp adapter and its transport | `BurpAdapterProofs` |
| `AiSetup` | `ai select`, `ai install`, `VantageConfig` | `ControlPlaneProofs` |
| `ControlPlane` | the server beside them: the lazily built application, scans, restarts | `ControlPlaneProofs` |
| `MC*` | instances for TLC; `SandboxRun` and `BurpAdapter` get what constants they have from their cfg | |

## 3. Correspondence with the code

**ScanOrchestrator.** A *run* is one call of `Orchestrator.run`; `ScanOf` and
`TargetOf` say for which scan and target. An action is one await or one commit:
`EnterQueued`, `EnterPlanning`, `RefuseUnauthorized`, `EnterRunning`, then for
each task `SkipUnbound` or `StartEngine` and the adapter's life
(`EngineHealthy`/`EngineUnavailable`, `EnginePrepare`, `EngineExecute`,
`EngineCollect`, `EngineCleanup`, or `EngineRaises` from any of them),
`EngineReturns`, `PersistObservations`; then `EnterCorrelating`, `ValidateOne` or
`ValidateRaises` per observation, `CorrelateAndCarry`, `EnterValidating`,
`EnterReporting`, `PersistFindings`, `Assess` or `AssessRaises`, `Complete`.
`LoseRun` ends a run at any point: a crash, a cancellation, a failed commit.
`AuthorizationExpires` is the clock reaching `expires_at`.
`granted` is what `is_authorized` said when `run` began, `scopeOk` what it said
when the last `ScopeEngine` was built. `now` is a clock that strictly grows.
A finding's fingerprint stands for its category, place and parameter; `KindOf`
and `UrlOf` give what validation and scope read of it. Wording, evidence bodies
and the request knowledge base (written by every run, read by nothing) are left
out.

**ScopedHttpClient.** `pc` follows a coroutine through `fetch`; the lock and the
semaphore are FIFO queues, as asyncio's are. Time is in ticks, and tokens are
measured in the ticks they take to earn, so that all numbers are integers:
`Interval` is 1/rate, `Capacity` one second. `age` is the time since `_updated`;
beyond `MaxAge` it makes no difference. `meter` is an observer: a second bucket,
never read by an action, charged with every token granted. In the repository
each client is used by one coroutine at a time; the class offers sharing, and
the model has any number.

**EngineSelection.** `phase` walks through `VantageApp.build`: bind the native
adapters, detect (any subset of the bundled tools may be installed, `auto_detect`
and `bind_oss` on or off), bind the bundled ones. Then scans are planned and
walked task by task while `enable`, `approve` and `bind_adapter` may be called in
between. `problems` holds the kinds of problem; "recorded" stands for the
messages that `approve` removes by their wording. The planner's capability
tables are the real ones.

**Decisions.** A licence expression is a tree; `Written` is its SPDX text as
tokens, parenthesised where SPDX requires it, and `Classify` works on that text
as `classify` does. URLs are taken as parsed: a scheme, a lower-case host without
trailing dot, a port or none, a path. Percent-escapes in paths, which Go decodes
and Python does not, are left out, as are hosts that are neither name nor
address. `PyPrivate` and `GoPrivate` are separate sets, because the two standard
libraries do not agree on what is private. `GoAllows` and `PyAllows` share
`HostMatches`, `RequestMatches` and `Decide`, whose text is the same in both
languages, and differ where the code does (ports, empty scheme lists, private
addresses). Scores are integers in tenths; a product exactly between two tenths
is rounded up.

**SandboxRun.** `pc` follows `ContainerEngineAdapter` and the runner's `run`:
`health` is `health_check`, `execute` the start of the child, `waiting` the first
`communicate()`, `draining` the second one after `kill()`, `collect` the adapter's
`collect_results`. `alive` is the set of processes there are: the docker client,
the tool (on the host, or in the container), and a helper of the tool that keeps
its output pipes. They write and end at their own pace. `setup` is what differs
between runs and hosts: the runner's mode, whether docker is on PATH and works,
whether the tool is installed and where it reports. Runs share nothing, so one
stands for all; a runner's limits on memory and CPU appear as a tool that ends.

**Crawler.** `queue`, `seen` and `discovered` are the loop's variables; an action
is a turn of the loop up to the next request, or what the request came back as.
The site is any of a set of link graphs, and each request may fail, be HTML, be a
script or something else, without memory, so that scope decisions and errors
need no model of their own. Two observers are read by no action: `takenAt`, the
depth a page was taken from the queue with, and `html`, the pages whose links
were read. A body is a set of URLs, named in any order.

**The pure modules.** A page is a record of what the checks look at: its scheme,
the headers it lacks or has, its cookies with their flags, what CORS answers, a
banner, a secret in its body. `Analyze` is the set of what the headers engine
reports of it, `Recheck` what the validator says of one such report given the page
of another moment. Certificates are instants in hours against `DaysLeft`. In
`ProofBundles` a digest is the tuple of what goes into it, which makes it collision
free, and a signature is that tuple with a key. In `AiAnalyst` an answer of the
model is any set of well or badly formed annotations. In `Reports` a report is
which findings it names, in which order and with what, not its text.

**BurpAdapter.** An action is what a run does between two awaits; a request is
`Send` and then one of its outcomes. `held` is `_client`, `open` the clients not
yet closed, `using` the client a request in flight was sent with. `aclose` is two
steps, because it forgets the client only after its own await. `lost`, `disturbed`
and `overlapped` are observers.

**AiSetup and ControlPlane.** A command is a process; its `step` is what it does
next, and it can be killed before. A save is two steps, `Truncate` and `Write`;
`file` says whether what is there can be read, `config` what a load returns, which
is the defaults for a file that is not whole. A copy is two steps as well.
The digest of a model is whether it is the pinned one. The server's `building` is
the set of workers between the check of `state["app"]` and the assignment; the
event loop is one of them and does nothing else while it builds. Applications are
numbered. `accepted`, `saved`, `disturbed`, `vouched` and `raced` are observers.

## 4. Runs

| Run | Shows | Bounds |
|---|---|---|
| `one_scan` | scoring, accounting, feedback, cleanup, legal transitions, with every failure of an engine, a probe, the AI, an expiry and one loss, and that the scan ends | one run, two plans (one with an engine that has no adapter), two fingerprints, caps of feedback 1 and 2 in place of 60 and 40 |
| `two_scans` | evidence, histories, shared tables, audit trail, refinement of `ScanLifecycle`, and the inductive invariant of the proofs | two scans of one target, one loss |
| `pacing` | the rate really kept (twice the configured one, plus a bucket and a token), the handing over of permits and lock, that fetches return | three coroutines, two requests per second, a second of four ticks, one permit |
| `selection` | only vetted engines start; detection before binding; plans complete, merged, in order, first-party first | eight engines after the manifests (native, permissive, weak and strong copyleft, customer-hosted, mismatched lock), two changes |
| `decisions` | licences and gate, scope, ranking, rechecks, certificates, bundles, annotations and reports against definitions of what they should be | expressions with up to two operators above one another (`MaxDepth`) over licences of all four classes; lists of two out of 36 rules; 40 URLs; two observations of three engines, and a third; pages and rechecks with two required headers and up to two cookies; certificates an hour around each boundary; bundles with any of four keys and one change; three findings and two annotations; reports of two findings |
| `sandbox` | what a run leaves alive, what counts as a result, that a run ends | every setup, either runner; no bound |
| `crawl` | depths are distances, limits kept, crawl complete | all 1024 sites of three pages and a script, a doubled seed, budgets of 2 and 9 pages, depths 1 and 2 |
| `burp` | runs lose nothing to one another but to a cleanup, clients are closed, runs end | three runs, one poll |
| `deployment` | only accepted YELLOW models, the file says what was saved, the digest vouches, one application | two commands, one YELLOW and one GREEN model, one thread and the loop, two scans; commands and scans are interchangeable (no action and no property tells two of them apart), so `MCControlPlane` declares both sets symmetric |
| `failed_probe_confirms` | finding 1 | one scan |
| `rate_exceeded` | finding 2 | one coroutine |
| `approval_void` | finding 3 | as `selection` |

The bounds are enough for what they are to show: a second run brings every pair
of transactions into conflict, a second task and fingerprint every merge and
feedback; the caps are reached and passed in each run; three coroutines make a
lock holder, a waiter and a permit holder exist together; two rules are what an
order or an opt-in takes to matter; three pages allow a page to be queued at two
depths before it is taken. Where the argument should not rest on
bounds, there is a proof (section 6).

Deadlock is checked in every run. A behaviour whose scans are over, or whose
call is answered, stutters in an action of its own (`AllOver`, `Answered`, `Crawled`).

## 5. Findings

1. `scan/validation.py:137`: a probe without an answer confirms a missing header.
2. `adapters/http.py:74`: the time slept for a token is credited twice.
3. `engines/registry.py:237`: `approve` blocks the engine it approves.

Seen while modelling and not given a run.

*Scans and engines:* a rank like `"--1"` makes `assess`
raise and leaves the scan in reporting (`ai/analyst.py:172`; the model has the
step, `AssessRaises`), although `ai/analyst.py:11` says it is a no-op then;
`A AND (B OR C)` is split at the OR first and gets the class of C alone when that
is the mildest (`governance/policy.py:73`), which is why the properties on
licences speak of expressions without an OR below an AND; after a timeout the
docker client is killed and its container runs on (`engines/sandbox.py:126`;
line 8 speaks of a hard timeout); the docker runner returns no output files
(l. 140), so the reports of zap, ffuf and gitleaks stay in the container; a local
run waits for every helper that keeps the engine's pipes, without a timeout
(l. 221); `auto` takes docker when the client is on PATH, whether or not it works
(l. 281); the crawler fetches the scripts of a page outside its page budget and again for
each page that names them (`crawler.py:75`);
running one scan a second time breaks
its audit trail (`orchestrator.py:149` looks at the object, not the row); a
failed engine is also listed as run (l. 206) while reports take the lists as
disjoint; each engine may add one URL above `MAX_DISCOVERED` (l. 61); FIRM given
by validation is lost in correlation (`correlation.py:74`), where a refuted
observation still corroborates (l. 105); observation rows keep the confidence
from before validation (l. 212); cleanup is skipped when an adapter raises
(l. 297); `max_total_requests` is read by nothing, so that no number of requests bounds a
scan; a second upsert of a finding leaves the row's id and its payload's different
(`repositories.py:195`); with scans of one target that overlap, `merge_across_scans`
may move `first_seen` past the observation itself (`correlation.py:176`, which is
why `HistoryIsConsistent` speaks of it only without overlap); the comment at
`src/components/egress-proxy/scope.go:3-8` says that the semantics match across
languages, while a rule with an empty scheme list, an explicit port 0 and the
tables of private addresses are read differently; a CONNECT is checked with the
path `/` (`main.go:80`), so rules with a path prefix admit no tunnel; the proxy's
handlers write its regex cache, a plain map, without a lock (`scope.go:176`).

*Checks, rechecks and correlation:* a cookie that lacks only `SameSite` is reported
(`headers.py:144`) and refuted by its recheck (`validation.py:144`), a page that
sets no cookie when it is fetched again confirms the report, and any
`Access-Control-Allow-Origin` confirms a CORS one; several `Set-Cookie` lines are
read as one text, so that a flag of one hides its lack in another; the recheck asks
for the URL without its query. `tls.py:7` says that the TLS engine checks scope;
nothing there does. TLS observations carry the method GET and those of tlsx none, so
that the two never correlate.

*Proofs, AI and reports:* FIRM by a single engine is called corroborated
(`proof.py:73`); "Details (top 20 by risk)" (`reporting.py:191`) lists them by
severity unless the AI ordered them; `filter_confirmed` keeps the AI's annotations of
the findings it removes; rank 0 sorts as no rank (`analyst.py:136`).

*Setup and server:* a command or a server that loads the configuration while a save
has emptied the file gets the defaults (`config.py:48`), so that the AI is off until
the next start; a running server does not see a later `ai select`; when `ai select`
keeps the old `model_path`, the model that is named is not the GGUF that is loaded;
an `ai install` that fails its digest has already overwritten the verified file
(`install.py:138`); with a placeholder digest it says "present and verified"
(l. 163); "Scans will use it by default" (`cli/main.py:415`), while `--ai` is off by
default. Under `VANTAGE_AUTODETECT` a first request that is a POST /scans fails,
because `_detect_installed` calls `asyncio.run` on the running loop (`app.py:200`);
`CreateFirstScan` has the condition. The default database is one in memory per
application, so that what a raced first request stored is gone.

*Burp:* two cleanups that overlap may forget an open client (`burp.py:151`; the
exception in `ClientsAreHeld`), and an issue of another shape raises in
`normalize_results`, which skips the cleanup.

## 6. Fairness, and what is proved

**Fairness.** `one_scan` assumes weak fairness of each run's next step: asyncio
runs ready tasks in turn, and every adapter and probe the code awaits has a time
limit of its own (a local engine whose helper keeps its pipes is the exception,
which `RunEndsUnlessForked` names). Losses and expiry are not fair. `pacing` assumes that time
passes and that a coroutine that can go on does. `sandbox` assumes that the
coroutine goes on when it can and that its timer fires; it assumes nothing of the
engine, which may run for ever. `burp` assumes of each run that its next step is
taken: a request ends within its timeout of 30 seconds and a sleep ends; that the
scan in Burp ends is not assumed. `deployment` has no liveness.

**Assumptions.** The `ASSUME`s of the modules are evaluated by TLC in the runs: sets
are of the right kind, bounds are numbers, names are not addresses. Those of
`Decisions` say what the inputs of a call look like: rules and URLs are well formed, a
recheck keeps the scheme, remaining hours are an integer, severities and confidences
are the domain model's, a group of observations has one, findings of a scan have ids of
their own, a rank is an integer, absent or mangled, a changed bundle has another
value in one field, no licence is called like an operator or a parenthesis, and a
component has an expression as its licence. None says what a decision returns.
`SelectionAssumption` says of a request to the planner that its profile, kind and
capabilities are those of the domain model.
The store and refinement theorems assume `OneRunPerScan`: `ScanOf` is injective,
which is what the API and the CLI do. `WithinMeterHolds` assumes that the meter
earns at least 2 per tick and keeps at least `Capacity + Interval`.

**Orchestrator.** None of the safety properties is inductive. The argument goes
in layers: `BasicInvariant` (types, clock, that observations and findings are no
newer than `now`), then `RunInvariant` (what a run at each place of its code has
in hand: its scan's row is in the state its position says, each task before the
current one is reported once, findings past scoring carry their score), which
gives the type, time, accounting, scoring and transition theorems for any runs;
then, with one run per scan, `StoreInvariant` (the observation and finding rows
of a scan are exactly what its run has stored, and stored findings cite stored
observations), which gives the evidence and authorization theorems; and on it
the refinement: each step maps to a step of `ScanLifecycle` or to a stutter.
Three invariants stand on these layers. `AttemptInvariant` says what the attempt at
the current task has open and in hand, and that what the run holds is of attempts
that ended well. `FeedbackInvariant` carries the bounds of the two lists of URLs,
by the cardinality of what one call may add; the set of URLs is assumed finite.
`TrailInvariant` ties the last audit record to the row, which with `RowIsMemory` is
the state `_set_state` looks at, and therefore needs one run per scan.
`HistoryInvariant` is what `HistoryIsConsistent` needs: runs were created in the order
of their scans' rows (`CreationOrdered`), the scan a run takes for the previous one is
an older one of the same target (`Follows`), and a finding in hand carries the history
of a stored one (`Carries`), so that times never go backwards however often they are
carried. `InductiveInvariant`, the conjunction of all layers and the property that
`two_scans` checks, is a theorem as well.
TLC checks the strengthening itself in `two_scans` before anything is proved of
it.

**HTTP client.** Permits: `permits` plus the number in flight is constant, by the
cardinality of the set of fetchers in flight. Rate: while nobody sleeps, the
meter has at least what the bucket can grant, `min(Capacity, tokens + age)`;
while somebody sleeps, at least `min(Capacity + Interval, tokens + 2 * age)`,
because the time since `_updated` counts once for the sleeper and once more for
the next caller. That needs that only the holder of the lock sleeps, which needs
that a cancelled waiter leaves the head of the queue alone. The queues: whoever
waits for the lock or for a permit stands in its queue exactly once, and nobody else
does (`Stands`), which appending, serving the head and withdrawing preserve, each a
lemma about sequences; with the count of permits that is `HandoversAreExact`.

**Selection.** Approving never empties `problems` of an engine whose
registration found any, so that a usable engine is one that was registered
without problems; such an engine is vetted, by cases on its integration.
For `PlansAreSound` the planner's loops are recursive functions, and that they have the
values their bodies say is an induction over the turns (`LoopRuns`, from the
well-foundedness of the naturals). The invariant of the outer loop (`LoopAccounts`)
says that each stage has one task per engine, that what the tasks cover is what was
chosen for the capabilities seen so far, and that what was skipped is what had nobody
to choose; one turn keeps it (`TurnAccounts`), because covering adds a capability to
one task or one task to a stage (`CoverAdds`). The four stages joined are in order
(`JoinInOrder`); that tasks are merged is then a count, since within a stage a task
is its engine. `PlanInv` takes this from the moment of planning to the later states.

**Burp.** A client that is held is open or is being closed; while a run closes it,
every other one that goes on is disturbed, and a request whose client was closed is
one of those (`ClosersDisturb`); a run past its polls has its issues or has lost them
(`IssuesKept`). As long as cleanups do not overlap, one run closes at a time and no
client but the held one is open (`HeldInvariant`). That a new client gets a number of
its own is a count: whatever is open and no longer held was left by a run that has
ended (`LeaksCounted`).

**Decisions.** The module has one variable that matters, the last answer; `AnswerInv`
says that it is empty or the answer to a call, so that every theorem is about the
operators. They were restated, where it took that, without `SelectSeq`, `SortSeq` and
folds, of which the prover knows no definition: a sorted or filtered list is given by
how many entries come before each, or by a recursive function (`Kept`).
*Licences:* the trees of depth n are the smaller ones and the operators over two of
them (`TreesGrow`), which gives induction over trees (`TreeByTree`) and, because
`Written` and `Obliges` are recursive functions, that these satisfy their equations
(`TreesCompute`, `WrittenParts`, `ObligesParts`). Two texts with an operator between
them are split at it into the parts of both (`SplitJoin`: the cuts of the whole are
those of the first and, shifted, those of the second), and the strictest and the
mildest class of a union is that of the two (`StrictestOfTwo`, `MildestOfTwo`). By
induction a text without parentheses reads as its tree (`FlatReadsAs`): an operand of
an AND has no OR in it, so that its class is the strictest at the ANDs. The gate is then
exact by cases on the class.
*Scope:* a rule that matches a private address opts in to it itself, so that the
global opt-in of an exclude rule admits nothing new; the two engines agree rule by
rule, and reversing a list of rules changes no decision because an exclude that
matches wins wherever it stands. The default scope is exact because the directory of
a path ends in the path's last slash (`DirectoryEndsInSlash`; that there is a last one
comes from the well-foundedness of the naturals).
*Certificates and rechecks:* days are the floor of hours over 24, so that the severity
bands of a handshake are intervals of hours; a recheck is compared with what the
check would report of the same page, condition by condition.
*Bundles:* a digest is injective in what it covers, so that whatever differs is seen.
*Ranking:* the product of severity, confidence and exposure is monotone in each and
the rounding to tenths is too; the gap between two verdicts is larger than what
rounding can take away.
*AI and reports:* the place of a finding in a list is the number of those before it,
which is an injection into 1..N and therefore a permutation (`CountingSorts`); a list
cut down to the confirmed ones keeps order and members (`SelectedKeeps`); and a report
in any format is then about the findings it was given (`Documented`).

**Sandbox.** `RightProcesses` says who may live at each place: nobody before the
start, all pipe holders gone once `communicate()` has returned. Without a timeout
that takes the client with it, and the client does not end before its container,
so that nothing is left; and what ended no longer writes. Its types
are proved too, and therefore not a property of the run.

**Crawler.** The strengthening is the one of breadth-first search: the queue is
sorted by depth and spans at most two depths (`Sorted`, `Ahead`), every entry is a
seed or stands one below a page that was read (`Justified`), and whatever a read
page leads to is visited or still queued, at most one deeper (`LinksPending`,
`SeedsPending`). Completeness is the last with an empty queue.

**Setup and server.** `YellowOnlyAccepted` needs that nobody is about to save or to
build with an unreviewed model (`ReviewedThroughout`); a load that meets a broken
file gets the default model, which is GREEN. For `SetupStands` the file is whole or
was never written whenever no save is going on and none was disturbed, and one who
saves an emptied file alone writes what it chose; a vouched file is good because
every copy withdraws the voucher when it starts and none may run when it is given.
For `ScansShareTheApp` the application is number 1 and nobody builds beside it as
long as nothing raced.

**Only model-checked.** All liveness (`EveryScanSettles`, `EveryFetchReturns`,
`RunEndsUnlessForked`, `EveryRunEnds`), which is out of the prover's reach. Induction
over data is done by hand where a proof needs it, from the least element of a set of
naturals, since the library's induction theorems take an operator as a parameter.

## 7. Not modelled

Text: command lines and parsers of the OSS adapters, prompts, report layout, console
output, regular expressions, the joining of URLs, and the field validation of the
domain model. Reads: listings of the API and CLI, `ai info`, `engines` commands.
What happens outside the process: the proxy's tunnels, resource limits of containers,
the Ollama daemon beyond whether a pull succeeds. What nothing reads: the request
knowledge base (`knowledge/base.py`; only its length is reported), the knowledge and
artifact tables. What is the Go runtime's: the unlocked cache of the proxy.
Section 2, item 9, is planned. `PROJECT.json` lists every component with its
status, and every hazard with the properties that cover it or the reason why none
does.
