# Errata in TLA+

Errata is an append-only belief memory. Claims extracted from conversations are
vertices of a graph; when a claim displaces, contradicts or supports another one,
an edge from the newer to the older says so; nothing is updated in place. What is
believed now, or was believed at some instant, is computed on every read by a
pure fold over the claims and the edges (`packages/core/src/revision.ts`).

This directory holds TLA+ modules that model that system, TLC configurations that
check them on small instances, and proofs checked by TLAPS. `PROJECT.json` lists the
runs, which definition models which lines, the hazards of the code and what covers them.

Run `tlc -config X.cfg M` for a run and `tlapm M.tla` for a module of proofs.

## Inventory

Paths are relative to the repository.

| Component | State | Operations | Interacts with | Status |
|---|---|---|---|---|
| Revision fold, `packages/core/src/revision.ts` | none (pure) | `resolveBelief`, `resolveAsOf`, `diffChain` | every read, the correction path | modelled |
| Correction path, `apps/api/src/correction.ts`, `buildCorrection` | the locals of each request | validating read, target, build, two-phase write | fold, statements, Bolt client | modelled |
| Statements and ids, `packages/graph/src/cypher.ts`, `ids.ts` | the graph | MERGE-and-SET upserts, reads, natural keys | the HydraDB server | partly |
| Bolt client, `packages/graph/src/bolt.ts` | driver, bookmarks | `write`, `writeWithRetry`, `loadTwoPhase`, `verify` | the graph node | partly |
| Ingest, `packages/ingest/src` | run locals, lexicon file, prompt cache | extract, prepare, resolve (with or without judge), build, load, lexicon | LLM client, Bolt client | modelled |
| Typed pass, `packages/ingest/src/typed.ts` | none (pure) | five pattern families, lists, cap, deduplication | ingest | partly |
| Calendar and totals, `core/temporal.ts`, `ingest/temporal.ts`, `core/arithmetic.ts` | none (pure) | date resolution, spans, totals | typed pass, ask query | partly |
| LLM client, `packages/llm/src/openrouter.ts`, `budget.ts` | semaphore, running spend, prompt cache | `complete`: guard, gate, fetch, retry, repair | many callers, ledger | modelled |
| Cost ledger, `packages/llm/src/ledger.ts` | the daily files, open file, unsynced count, read cache | append, rotation, flush, close, rollup | seeds the spend of each process | modelled |
| Rate limiter, `apps/api/src/ratelimit.ts` | windows per client key | let through, refuse, sweep | API shell | modelled |
| API shell, `apps/api/src/app.ts`, `deps.ts` | lazily built singletons, lexicon cache | routes | all of the above | partly |
| Ask and diff queries, `apps/api/src/query.ts` | request locals | `loadBelief`, `askQuery`, `diffQuery` | parallel reads, fold, one LLM call | partly |
| Web app, `apps/web` | component state, calls in flight | ask, correct, open a source, timeline tabs | HTTP API | partly |
| Evaluation harness, `eval/errata_eval` | answers, judgments and ledger files | `run`, `judge`, resume | HTTP API, its own LLM client | partly |
| Health counts, Cypher linter, attribute registry, relevance scores, MCP server, deployment | none that matters here | | | not modelled |

What is hard about it, and what must hold:

* **The fold** decides among claims related by arbitrary edges: forks, cycles, orphans,
  supporters, disputes. It must forget nothing, believe nothing displaced, break cycles
  exactly, and answer as-of questions as they would have been answered then.
* **Corrections** run concurrently. A handler reads, decides, and writes three batches
  without a transaction; each may be lost, replayed, or fail for good, and what was read may
  be stale. An acknowledged correction must be complete and effective, a failed one harmless,
  and no write may change what is there.
* **The loader** writes to a node that is killed, restarts, and is shadowed by its dead
  predecessor's lease. What it counts as done must be whole, and one crash while a history is
  extracted or loaded must cost nothing.
* **Ingest** is interrupted and repeated, with another extractor or other verdicts. What it
  reports must be findable, the last statement must win, revisions must not form a circle.
* **The LLM client** serves concurrent callers behind a semaphore that may be resized while
  they wait, under a money cap: no slot lost, no call starved, and the cap must bind but for
  the calls let through together.
* **The ledger** is the only memory of spend across processes; it is rotated, synced in
  batches and read through a cache.
* **The API** limits callers in fixed windows, and answers from reads of different moments.
* **The pages** receive replies in any order, for questions and attributes already left.
* **The harness** spends money on runs that are killed and resumed.

## Modules

| Module | Models | Kind |
|---|---|---|
| `BeliefFold` | `revision.ts` | operators: the fold, its as-of and diff forms |
| `RevisionLog` | what the memory promises: an append-only log of claims and edges whose belief is the fold | abstract specification |
| `RevisionHistory` | `RevisionLog` with the log's state at the end of every past tick | history variable |
| `GraphStore` | the statements of `cypher.ts` on one entity and attribute | operators |
| `Corrections` | concurrent correction requests over `GraphStore` | specification; refines `RevisionLog` |
| `BoltLoader` | the ingest command's loop over `writeWithRetry` and `verify`, and the node | specification |
| `Ingest` | one history from extraction to lexicon, called repeatedly | specification over `BeliefFold` |
| `Spend` | what calls cost, and the budget | constants of the next two |
| `Semaphore`, `LlmClient` | `complete`, `budgetGuard` and the shared semaphore | operators; specification |
| `CostLedger` | the daily files and the processes that write and read them | specification |
| `RateLimiter` | `ratelimit.ts` | specification; implemented by `Api` |
| `Api` | the process behind the limiter: ask, diff, caches, restarts, over a store that is loaded and corrected | composition of `RateLimiter` and `BeliefFold` |
| `SiteStore` | the store as the pages see it | shared by the next two |
| `AskPage`, `TimelinePage`, `Web` | the two pages and the moves between them | specifications; composition |
| `Calendar`, `TypedPass`, `Totals` | date arithmetic, the typed pass over one turn, sums of prices | operators |
| `Material` | the typed claims of a transcript and the blocks of an answer computed from them | specification over the three |
| `EvalHarness` | the `run` and `judge` commands | specification |
| `...Proofs` | theorems about the module of that name, `RateLimiter`'s in `ApiProofs`, `RevisionLog`'s in `RevisionHistoryProofs`, `CostLedger`'s in `LlmClientProofs`, those of the two commands `BoltLoader` and `EvalHarness` and of `Material` in `CommandProofs` | proofs |
| `MC...` | constants of the instances | for TLC |

An operator whose comment says *a faulty variant* or *a slip* belongs to no specification: it is
the plausible mistake a property is shown to catch (the `mutants` of `PROJECT.json`).

### The fold (`BeliefFold`, `RevisionLog`, `RevisionHistory`)

Rows and edges keep the fields that decide: event time, ingest time, confidence (in
hundredths), polarity; relation, endpoints, ingest time, confidence. Values, citations and the
corroboration count are carried along by the code and decide nothing. Sorting is modelled by
the order it sorts with: `NewerThan` and `EdgeBefore` are the two comparators. The search for
a cycle follows the code step by step, since which edge is dropped depends on the order: a
`SearchState` is the claim the recursion is at, its path, the BLACK claims and the edges followed,
`SearchStep` the next move of `visit` or of the loop around it, so that the recursion of the code is
a tail recursion, which can be proved about. The breadth-first walks are the set of reachable
claims. What `resolveFunctional` returns once its loop has settled on the edges is `BeliefLedBy`,
what `diffChain` returns once it has both beliefs `DiffBetween`. The code compares confidences as doubles;
at a gap of exactly 0.05 its answer depends on rounding, and the instances avoid it.

### Corrections (`GraphStore`, `Corrections`)

A handler is at one of its awaits: `start` (before the validating read), `edges`, `build`, then
`claim`, `about` and `sup` (before each of the three batches), and ends `done` (201), `refused`
(404, 409) or `failed` (500). `Build` is the stretch from the answer of the edge reads to the
first write: it picks the target, reads the clock and mints the id. An id is a function of the
natural key (value, target, millisecond); the hash is an arbitrary choice of an unused id.
`LoseAck` is a batch that was applied and will be sent again, `Fail` an error that is not retried
or the last attempt. Ticks are the grain of `Date.now()`; several make a second, the grain of
event and ingest times. The entity, the attribute and its arity are fixed.
`Log == INSTANCE RevisionLog WITH ...` maps what is visible (has an ABOUT edge) to the log;
`ImplementsLog` says that every behaviour of the correction path is one of the log.

### Loader (`BoltLoader`)

Ticks are five seconds. The node is up or comes back after its restart time; a killed node
leaves a lease during which writes are refused. The loader goes through `write` (`running`
while the server works), `wait` (the sleeps of `writeWithRetry`), and, when a history throws,
`reconnect` (`verify`) and its second try; `drain` is the restart the memory guard asks for. A
write that times out, or that the node is killed under, may have been applied (`Unanswered`). An edge
batch merges only if its endpoints are there. The `verify()` before the loop (`cli.ts:173`) and the
one after a drain (`cli.ts:80`) are outside of the try around a history: a node that is down then
ends the run (`aborted`), and the histories still to come are neither ingested nor recorded as
failed. `faults.unguarded` remembers a crash at such a moment; it is what `OneCrashLosesNoHistory`
leaves out and what `EveryRunEnds` names as the only way a run is cut short.

### Ingest (`Ingest`)

A command takes the history through `extract` (up to `Workers` batches in flight, each answered,
lost, or answered from the cache), `prepare`, `resolve` (pair by pair along the sorted group, by
rule or by judge), `load` (six batches in `LoadOrder`) and the lexicon, and may throw or be killed
at any step. Statements, and what each extractor can see of them, are constants. The tests of
session ordinals, event times and keys follow `prepareClaims`. The claims still to compare are the
set `todo`; `Cur` is the next in the order the code sorts with (`Before`), of the attribute in hand
if one is. What is written again under a key replaces what was there (`WrittenOver`): replies,
verdicts, and the rows of the store. The reply cache is best-effort: a reply or a verdict may not be
kept (`Kept`), and is then asked for again, and perhaps answered otherwise, by the next call. Of the
values only the proper nouns become entities (`Proper`; which values `isProperNoun` takes for names is
a constant). The lexicon is not written at once: a call that is killed, or that throws, while it
writes leaves the file as it was, whole, or torn (`LexiconLeft`), and a torn file counts for none: the
next call writes its own in the place (`NoLexicon`). `reported` remembers what the calls that
returned had computed, ever (`claims`) and since the lexicon was last torn (`named`).

### LLM client and ledger (`Semaphore`, `LlmClient`, `CostLedger`)

JavaScript runs each stretch between two awaits without interruption, and a call awaits in
three places only: the semaphore, the fetch and the sleep. So an action runs from one await to
the next: `Begin`, `EndSleep` and the repair go through the top of the retry loop (`EnterLoop`:
deadline, budget guard, `acquire`), a reply first frees the slot and wakes waiters (`Leave`).
Replies are classed by what the code does with them. `GrowLate` is the ten-minute deadline of
the unit going by, `Resize` the construction of another client on the shared semaphore.

In `CostLedger` an attempt passes the guard (`PassGuard`), and ends, after the awaits of the slot
and of the fetch, in one append, of its cost (`PaidCall`) or of zero (`AttemptFails`); up to `InFlight`
attempts of one client are between the two, so that several pass one check. A reply from the prompt
cache is an append that never met the guard (`Noted`). What calls of a killed process would have cost
nobody notes. A file keeps its lines, how many are fsynced, and whether its end is torn; `HostCrash` keeps any part
of what was not fsynced. `Consulted` is the ten-second cache in front of the files.

### API (`RateLimiter`, `Api`)

One request is followed through its reads; the others appear as what they do to the limiter
and the store. The claim read and the edge read of a belief are separate steps, so corrections
fall between them. Which claims the scores select is left open, hence the answer, the
citations after the first and the abstention are choices. Restarting the process forgets
the windows and the lexicon cache.

### Pages (`SiteStore`, `AskPage`, `TimelinePage`, `Web`)

State is that of the React components; calls in flight are sets, so replies come in any order
and some after their page is left. `loadChain` is four snapshots of the store. The two tabs
compute from one chain what is struck, dimmed and current at a playhead (`History...`,
`Graph...`). `hasty` remembers whether the visitor ever acted before a reply had come.

### Material (`Calendar`, `TypedPass`, `Totals`, `Material`)

Turns are sequences of mentions with a place, a family and a value, and of lines classed as
number, bullet, blank or text: what the patterns recognise is given, what is done with the
matches is modelled. Dates are years, months and days in UTC, instants add which half of a day.
Sessions have years of four digits, as `parseLmeDate` reads no others; offsets are unbounded, and one
that leads out of those years is written by `fmtIso` without padding, not read back by `isoToEpoch`,
and leaves a claim without a time and without its session's (`Unreadable`, `EventOf`). A time counts
as a date only after 1970 (`Dated`). The two modules of dates are two definitions of month arithmetic
(`AddMonths`, `AddMonthsClamped`). `ReadTurn` is one round of `extractTyped` (`FromTurn`, then
`Deduplicated`), a pass that `cli.ts` runs only when it is asked for; `Retrieve` is the window of the
best `MaterialMax` claims, any of them in any order, and `Ask` computes the timeline and the totals of
one question over that window. `Lined` puts a set in line by an order, which is what a
left-to-right scan and a stable sort do; the loops (`OnMatch`, `OnLine`, `OnNamed`) are folds of one
step each. `MaterialAssumption` says what a transcript and a question can be (`Found`, `ListLine`):
dates that exist or none, matches of one pattern that lie apart, as those of a global regular
expression do, finite word sets.

### Harness (`EvalHarness`)

A command works through a set of questions or rows. Answers pass through a buffered file that
a kill may tear; judgments are written at the end. `Charged` is the spend ledger, whose lock is
what the second finding is about.

## Runs

| Run | Instance | Shows |
|---|---|---|
| `fold_history` | 3 claims, at most 3 edges of 3 relations, 2 ticks | exact cycle search, who is believed, nothing forgotten, diffs, as-of |
| `cycle_guard` | 4 claims, at most 9 edges | **violated**: the loop's bound shrinks with the array |
| `corrections` | 2 requests, 2 ingested claims, 2 new ids, clock to 4 (2 ticks a second) | append-only, completeness, effect, refinement |
| `llm_client` | 3 callers (one judge), limits 1 and 3, cap 10, cost 9, 2 attempts | the gate, the cap, termination |
| `bolt_loader` | 2 histories, a node and an edge batch each, restart 3 ticks, lease 0, 12 or 24, 2 crashes | wholeness, one guarded crash is free, the run ends with every history accounted for |
| `cost_ledger` | 2 processes with 2 calls in flight, cost 1 or 0, cap 1, fsync every 2, TTL 2, 3 ticks a day, clock to 3, 3 lines | cap across restarts, unsynced lines, freshness |
| `ingest` | 6 statements in 3 batches, 2 workers, 2 calls, both extractors, judge on and off, replies kept or not, the lexicon torn or not | last statement, findability, no circle, nothing unrelated |
| `eval_harness` | 4 questions (one unanswerable), both arms, 2 attempts, cap 3, 3 commands | no double payment, empties, termination |
| `spend_cap` | the same | **violated**: past the cap the command hangs |
| `api` | 2 limited callers and loopback, limit 2, window 3 (2 ticks a second), clock to 6, 5 requests, 2 corrections | bursts, retry-after, citations, diff confirmation |
| `web` | 2 attributes, 5 claims, 2 corrections, 3 questions, 3 calls, 3 loads, 2 pages | coherent card, late replies, strikes, agreement of tabs |
| `material` | two dated turns in five awkward months, phrases up to 3000 years back and 8000 ahead, 2 to 4 prices of 5 mentions, up to 5 list lines, a window of 3 claims | calendars, sums, lists |

Why the bounds are enough.
*Fold*: three claims give every fork, chain, two- and three-cycle, and every way edges of
different relations meet in a claim; `cycle_guard` needs four claims and eight edges.
*Corrections*: two requests give a stale target, a fork, a correction of a correction and a key
collision; the believed ingested claim is dated a second ahead of the clock, so a correction may
be older than what it corrects; the two new ids lie on either side of each other.
*LLM client*: with three callers, one slot gives a queue of two, and raising the limit to three
wakes several; one reply takes the spend from zero to throttled and a second to exhausted.
*Loader*: the second history starts while the first one's crash may still be felt; the times are
the deployment's, a node back sooner than the longest sleep and a lease that outlives one.
*Ledger*: three lines fill a sync batch and start another, and the clock passes a day boundary
and a TTL; two calls pass the check of a cap of one together and overshoot it by one, the most that
`CapAcrossRestarts` allows; the processes are alike, so they are a symmetry set.
*Ingest*: one value is a name and one is none, a value is left and returned to, stated twice with and without a date, a set-valued one
is taken up and dropped; the second session has the first one's ids at hand.
*Harness*: four questions hold a run of three empties and one beyond; three commands are run,
resumed run, judge.
*API*: five requests are two bursts of the limit and one more; the limiter and the handlers share
only the clock, so the constraint `Aside` of the instance does not combine a used-up limit with
a question in progress. That they do not is `ApiImplementsLimiter`.
*Web*: three calls are an ask, a filing and another ask overlapping them. `PatientCardIsCoherent` is about
a visitor who waits; the page keeps no order of replies, and of a hasty one's card nothing holds.
*Material*: the anchors are the days on which adding a month is clamped, leaps or crosses a year;
two phrases leave the years of four digits, one leads before 1970, a written year has three
digits; two prices are equal in amount, one is far off, one is in another currency; a window of
three leaves out one of four claims; five lines hold two lists with every kind of gap between
them. What the properties say of other years, longer transcripts and more items is the theorems'.

`CHECK_DEADLOCK FALSE` stands where the system does stop: every request is answered, or a
bounded clock or transcript is at its end (`fold_history`, `cycle_guard`, `corrections`,
`cost_ledger`, `web`, `material`). The other runs check deadlock; where a command may simply not
be given again the module says so with an action (`Rest`, `Exit`).

**Fairness** is weak fairness of what the runtime does by itself. `LlmClient`: a granted call
resumes (a resolved promise), a fetch comes back (`doFetch` aborts it after `timeout_ms`), a
sleep ends (a timer). `BoltLoader`: the loader's next step, and the clock; crashes are bounded
and not fair. `EvalHarness`: the command's next step. Nothing is assumed of new calls, commands,
kills, deadlines or resizing. From it follow `EveryCallSettles` (the queue is first-come-
first-served, attempts run out), `EveryRunEnds` and `EveryCommandEnds`.

### Where code and prose disagree

1. `packages/core/src/revision.ts:176`: the bound of the cycle-breaking loop is compared with the
   shrinking array; eight edges on four claims leave a cycle. The comment says "until acyclic".
2. `eval/errata_eval/openrouter.py:120`: past the hard cap `Ledger.append` calls `flush()` with
   its lock held; the lock is not reentrant, the command hangs and `SpendCapError` is not raised.
   `eval.toml:62` says the "harness aborts mid-run at this number". `EveryCommandEnds` is what
   holds below the cap.

## Proofs

All hold for every value of the constants under the modules' named assumptions; a theorem that
needs more states it, and the text below says why.

**`BeliefFoldProofs`.** The operators alone, for any finite set of claims and edges whose numbers
are integers (`Readable`, `EdgeSet`). The two comparators are total orders, so what a sort puts
first exists and is unique (`FirstExists`, `NewestIsFirst`). Each loop of the fold is a function
defined by tail recursion along which a measure falls; such a function exists and equals, at every
argument, its value at the stop it leads to (`TailRecursion`, `TailRecursionAnswers`), which takes the
place of induction over data. The invariant of the search for a cycle is `Searching`: the path is
one path without repetition, its claims are not BLACK, and the BLACK claims lead to BLACK claims
only and contain no circle. Results: the search returns an edge exactly when there is a cycle, an
edge of one (`CycleEdgeIsExact`); `cycle_broken` is set exactly then (`CycleBrokenIsExact`); no
claim is left out (`BeliefForgetsNothing`); without a cycle no displaced claim is believed
(`UndisplacedLead`); a latest claim that nothing displaced leads (`LatestLeads`); a diff is a simple
walk down the revisions (`DiffWalks`). `AsideStaysAside`, for the pages: a claim that the fold set
aside stays so when later claims and their edges are appended and something later is on show.

**`RevisionHistoryProofs`.** The same of every log that can be grown. A log stays `Wellformed`,
which is what the lemmas above ask, and with no lag between reading the clock and appending, what
stood at the end of tick `t` is what is dated `t` or earlier (`Remembered`). Results:
`LogSearchIsExact`, `LogForgetsNothing`, `LogHeadsUndisplaced`; `LogDiffIsAWalk`, for logs of at
most eight edges, the `maxHops` of the property; `PastIsReplayed`, if `MaxLag = 0` and what the log
starts with is dated no later than its start. A lag breaks as-of in the code too: a claim dated
before a read and appended after it changes that past.

**`CorrectionsProofs`.** `TypeOK` says, beyond types, that every vertex and edge that was not
ingested is what some minted id consists of. It is not inductive: it says nothing of a handler
between its batches. The invariant `Inv` adds `HeldIsCurrent` (a handler past a batch finds that
batch's rows in the store, and what it read is visible) and `EdgesAreVisible` (the newer claim of
a correction's edge has its ABOUT edge). Replays keep it because a replayed batch writes the row
its minted key determines. `Forest` adds that the edges of corrections form a forest, each new
claim standing above its target: whoever mints an id finds its target already visible, hence
minted earlier. From `Inv` follow `TypeCorrect`, `AckedComplete`, `NoGhosts` and the action property
`CorrectionsAppend`; from `Inv` and `Forest` follow `TargetsStayStruck` and, if the ingested edges
have no cycle, `CorrectionsCloseNoCycle`. `CorrectionsImplementLog` shows the refinement of
`RevisionLog`: an ABOUT batch appends a claim, an edge batch an edge, and every other step, or a
batch sent again, leaves what the read sees alone. It needs that a correction is dated by the
clock it was built under (`DatedByNow`), that none targets itself (`Forest`), and that the edges
still to come fit the log's bound (`RoomForTheEdge`), hence finitely many edges and ids
(`FiniteAssumption`). `LatestCorrectionLeads`: from `Dated`, a correction is no older than the
correction it targets (`TargetsAreEarlier`), so nothing displaces the latest one, and `LatestLeads`
applies; it holds even of ingested edges that run in a circle.

**`LlmClientProofs`.** `Inv` joins the types, `Books` (the slots in use are counted and the queue
holds exactly the waiting calls, once each), `NooneWaitsInVain`, and `Within` (the attempt is at
most `MaxAttempts`, one more after a repair; a sleeping call has one left), without which the
bound on attempts in `TypeOK` is not inductive. Lemmas on the semaphore alone say what `Wake`,
`Release` and `Acquire` do to `Books`; the lemmas on actions apply them. Results: `TypeCorrect`,
`BooksAreRight`, `NobodyWaitsInVain`, `GrantsAreWithinLimit`, `CapHolds`.
Then the ledger. Its properties sum over days and processes, and the model's folds take the members
of a set in an order of their own. `Sums` says what it is to be a sum over every subset of a set;
such a function exists and is unique, the fold computes it, and it changes by what one of its terms
does (`SumsExist`, `SumsAgree`, `TotalChanges`): induction is replaced by a smallest set at which the
claim would fail. Three invariants stand on one another. `Bounded`: what a file holds beyond its last
fsync is at most what the processes that have it open count, each action changing one term, hence
`LossIsBounded`. `Truth`: until the host goes down, the files sum to what was paid and hold no torn
line, and a cache holds at least what they summed to when any tick before its reading ended, and
exactly what was paid if nothing was appended since; so a consultation returns at least the sum of
one TTL ago, `RollupsAreFresh`. `Capped`: while no two processes were up at an append, the
running spend of the client that is up is what was paid, and so is what a cache will seed it with,
and what was paid stays below the cap and `InFlight` calls even if every call that was let through is
answered at the highest cost; `CapAcrossRestarts` alone says nothing of these. Hence
`CapHoldsAcrossRestarts`: what goes past the cap are the calls of one client that passed the check
together, not one such lot for every restart.

**`ApiProofs`.** The limiter first. The properties speak of the requests let through in the past,
which the table has forgotten. The invariant says of each key: while its window is in the table,
its last `Granted` requests are the window's, and those `Limit` before the first of them are a
window older than its start; when its window is expired or was swept, those `Limit` before the next
one to come are a window older than now; and a promised moment is not before the window's end
(`Running`, `Settled`, `Spread`, `Honest`). Every operation touches one key, or only forgets
expired windows. Results: `NoThirdBurst`, `WaitingHelps`. Then `ApiImplementsLimiter`: every step of
the API process is a step of `RateLimiter` or leaves its variables alone, hence `ApiKeepsTheLimit`.
Then the answers. `loadBelief` reads claims and edges apart, corrections fall between, and the edges
may end in claims that the read has not seen. `AnswersAreStanding` says that what was struck before
the question is not cited first all the same: the claims read held it and its displacer, and the
edges read later hold their edge. It needs that the loaded revisions run in no circle; where they
do, the loop of the fold drops an edge, and with it a displacement.
Last the check of a diff, with four reads. Its walk is of displacements (`DiffIsAWalk`), and a claim
displaces only at the moment it is appended, so what is below a claim in the store is settled once
the claim is read (`BelowStays`): the enumeration read later lists the whole walk. The path search
finds a connection in either direction, the enumeration only downwards; they agree because of two
heads the one of the earlier past never stands above the other (`HeadsDescend`).
`DiffsAreConfirmed` assumes `LoadedInTurn`: the ingested revisions run in no circle, no claim
displaces two, and no revision was learned after the one that revised it. Both resolvers add at most
one displacement per claim, and a run stamps all it writes with one second, so what one run writes
is of this kind. Neither of the last two can be dropped: TLC finds a false alarm on a claim that
displaces two that are not connected otherwise (they are connected for the path search, through it),
and one on a revision learned late under a revision dated in the future.

**`IngestProofs`.** The invariant `Inv` has three parts beside the types. *What was read.* A call
prepares claims that some reading of a batch, or the rules, may yield (`PlanRead`, `Known`); which one
is not settled for good, since a reply may not have been kept. *What was compared.* Each attribute is gone
through in order of time (`InOrder`); a planned supersession runs from a later claim to an earlier
one, and each claim is the newer of one at most (`EdgesPlanned`); whoever had its turn is revised or
judged in this call (`AllSurface`, `plan.apart`), and by rule a claim of another value than the latest one's is displaced
(`LatestStand`). `EdgesRead` says the same of every supersession ever planned or stored: some call
knew both its ends and ordered them so, hence they run against time and have no circle, although
calls planned them from different sets of claims. *What was loaded.* Each batch found what it refers
to (`Loads`), and what a call reported is never taken away (`ReportsStand`), nor its names, but by a
torn lexicon. Results:
`UnresolvedAlwaysSurfaces`, of any constants; `ReportsStayFindable`, if each statement's turn exists
in the session that its claim is placed in (`TurnsExist`): of two sessions of one id `firstOrdinal`
takes the first, and if that is the shorter one the claim has no turn to cite;
`NoCircleIsWritten` and, by the fold's `FunctionalHead`, `LatestIsBelieved`, if no two readings give
one thing different times or polarity (`ReadOnce`): readings of two batches, since claims are kept by
id, the first batch's first, so that when the batch read first is lost once, the same claim is placed
elsewhere in the order the next time; and readings of one batch, since its reply may not be kept.
`LatestStatementWins` also asks that the call found again every stored claim of the attribute
(`FoundAgain`): a claim that only an earlier call found, and whose load then failed, has no edge to
displace it. Both are conditions on the input, which the code does not enforce; `MCIngest`
satisfies them (`MCInputAssumption`), and without them TLC refutes what they are needed for.

**`CommandProofs`.** *The loader.* `DoneIsWhole` is inductive only with `SentIsStored`: while a history is
loading, every batch before the one being sent is stored, whichever crash, timeout or replay
happened; a batch that is not answered is stored or not, and both keep it. `Merged` of the batch in
hand then finds its endpoints, since node batches come first.
Results: `TypeCorrect`, `DoneHistoriesAreWhole`. `OneCrashIsSurvived` counts time: `Survives` bounds,
at each place of the retry loop, the lease still to run by the sleeps still to come. It holds for a
node that is back within three ticks and a lease of at most 47, the sleeps of a load's two tries.
`Verified` keeps the two unguarded `verify()` from meeting a node that is down, and `Accounted` says
that every history the loop has passed is done or failed, hence all are done at the end.
The bounds are exact: TLC refutes the property for a restart of 4 ticks and for a lease of 48.
*The harness.* A command only adds rows at the end, and whatever ends it leaves a
beginning of what was there and in the buffer (`WrittenPart`, `SoundBeginning`). A run asks only
what has no good row yet (`AsksTheRest`), and its streak is at least the number of its own empty
rows, up to two, that end the file (`StreakCounts`): that is what the two properties need to
be inductive. Results: `AnswersAreUnique`, `BreakerHolds`.

*The material.* First the calendar, without any specification. `DayNumber` numbers the days one by
one: the day after a month's last is the first of the next (`MonthFollows`, `YearFollows`), hence
months are in order (`MonthsAreInOrder`) and a date so many days away exists and is unique, so that
the CHOOSE of `AddDays` has an answer for any offset (`AddDaysIs`). `SpansAreExact`: between any two
instants in order, `CalendarDelta` is whole months and then 0 to 30 days, and reaches the later one.
`MonthsAreGivenBack`: what `AddMonths` adds, `CalendarDelta` counts again, up to the three days of
clamping.
Then the loops. Induction over data is replaced by a run: what a fold returns is the last of a
sequence of states of which each is one step from the one before (`FoldRuns`), and what holds of
the first and goes from each to the next holds of the last, since there is no first place where it
fails (`UpTo`). `ScannedIs`, `ParseListsIs`, `MatchingIs` and the sums of `MatchedAddUp` are such
runs. The scan for lists keeps `ScannedTo`: the open items are exactly the run that may still go on
(`OpenIs`), the gap counts the blanks since its last item (`GapIs`), and the lists so far are the
other runs of two items or more (`ClosedAre`). The matching keeps `SoFar`: after `k` items, it has
taken one entry for each priced item among them and none about a later item, so the next one finds
its own entries open; that is where matching over distinct amounts would fail, and where
`Unmistakable` is needed.
The invariant is `MaterialInv`. The claims are those of the turns read (`Reading`), each with the
time ingestion gives it, a real date or none: without it nothing is known of the events a timeline
is computed from. The window is a sequence of claims (`Windowed`), which are read completely before
it is filled, so a further turn does not change what a total is said to be of. That a phrase is as
far away as it says needs that the date it leads to was read back, hence lies in the years of four
digits (`DatesAreDates`, `ShiftIs`). Results: `ClaimsAreRead`, `CalendarsAlwaysAgree`,
`NamedItemsAlwaysAddUp`, `ListsAreAlwaysTheRuns`, for transcripts of any length, any window, any
number of items and prices, and any limits of the pass; they rest on `MaterialAssumption` and `TypedAssumption` only.

**`WebProofs`.** *Late replies.* What is in flight was asked for by what is selected now: the turns
being read are those of the open window's line (`WindowInv`), the loads and the chains on show those
of the panel's attribute (`PanelInv`), and a page that was left has neither: `LateRepliesAreInPlace`.
*Tabs.* Both are drawn from one chain, whose revisions end in its claims (`ChainsWhole`):
`TabsTellOneStory`. *The patient visitor.* With one call in flight the card, the call and the
correction speak of the same question (`Patient`), and what the history has appended it keeps:
`PatientCardStaysCoherent`. *What is struck.* The store stays a history that the fold can read
(`HistoryInv`), and of each of the four reads of a chain it is remembered what was read
(`StrikeInv`): a revision on show is in the history for good, so the claim it strikes is displaced,
hence not believed; a claim dimmed without a revision was set aside by the belief of an early read,
and stays aside by `AsideStaysAside`. `StruckClaimsFell` assumes `ToldInOrder` (the ingested
revisions lead back in time and in no circle, a claim that supports another supersedes none, no
extractor is as sure as a correction, nothing is dated after it was told) and `SomethingTold`
(every attribute that can be selected has a claim). The last part of `ToldInOrder` is a condition on
the data, which the code does not enforce, and it cannot be dropped: with moves dated two seconds
ahead and three corrections TLC finds a claim dimmed in the history that is believed again. The
constants of `MCWeb` satisfy both.

**Only model-checked.** Liveness under fairness, which the provers cannot do: `EveryCallSettles`,
`EveryRunEnds`, `EveryCommandEnds`. Every safety property of the runs is a theorem, except
the two that are violated, see above.

## Not modelled

* The parsing and normalization of text, relevance scores, floating point, prompts, prices and
  layout: data that no property here tells apart. The models choose among the outcomes.
* Health counts: probes raced against a deadline that shape one diagnostic reply, on which nothing
  depends. The Cypher linter, the attribute registry, the MCP server: stateless.
* Bookmarks and the sessions of concurrent requests on a replaced driver (`bolt.ts:101`,
  `bolt.ts:150`): what a bookmark guarantees is the server's and not in the repository.
* The landing, results and compare pages, the cost meter's polling, and the chains of other
  attributes that the constellation draws around the selected one.
* Sampling, validation of judges, scoring and reports of the harness.
* More than 500 claims of one attribute, beyond which the read keeps the oldest: `ClaimPages`
  models the choice, but no instance reaches it.

## Plan

Done: the fold, corrections, the loader, ingest, the LLM client and its ledger, the limiter and
the API, the pages, the material of an answer, the harness, and the proofs above. What is left are
the hazards of `PROJECT.json` without a property: each has a note that says why; in most of them the
code promises nothing that a property could state, in the others the sizes or the floating-point
numbers that matter are out of a model's reach.
