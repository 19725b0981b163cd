# A TLA+ model of gcrawler

This directory models the coordination of gcrawler in TLA+: the queues, the
runners' goroutines, the rate limiters, the link policies and the storages. TLC
checks the modules on small instances (`MC*.tla`, `*.cfg`), and TLAPS proves
their safety properties for every instance (`*Proofs.tla`). `PROJECT.json` lists
the runs, the source lines behind every definition, the hazards and the
theorems. Paths below are relative to the repository.

    tlc -config MCAsyncCyclic.cfg MCAsyncRunner.tla     # one run
    tlc -config MCAsyncTree.cfg MCAsyncTree.tla         # another, on a site with its own assumption
    tlapm AsyncRunnerProofs.tla                         # one module's proofs

## 1. The system

A crawl is one call of `Run(ctx, crawler, queue)` of a runner. Its workers
fetch requests from the queue, wait for the rate limiter, and hand the page to
the crawler, whose handler stores data and enqueues links through the link
policy back into the same queue; then they mark the request.

| Component | State | Operations | Shared with |
|---|---|---|---|
| MemoryQueue | maps `pending`, `visited`, under one mutex | Add, FetchNext, MarkHandled(WithError), IsEmpty, GetAllHosts | all workers, monitor |
| SQLiteQueue | one table; one connection | the same, each of one or two statements; ResetStuckRequests | all workers, later processes |
| FileQueue | directory `pending`, `visited.json`, map `visited`, one mutex | the same; Close; reopening | all workers, later processes |
| AsyncRunner | N workers, `activeWorkers`, `workersDone`, monitor | Run | queue, limiter, policy, context |
| AdaptiveRunner | the same, `currentWorkers`, stop channel, WaitGroup, scaling goroutine | Run, adjustWorkers | the same |
| domainRateLimiter | per host: lock and a window of timestamps | Wait | all workers |
| globalRateLimiter | one `time.Ticker` | Wait, Close | all workers, every Run of the runner |
| Link policies | counts per host, depth per URL, allowed hosts | Initialize, ShouldEnqueue | all workers, every Run of the runner |
| Crawlers | a browser context (chromedp) | Crawl, EnqueueLinks | a worker each |
| MemoryStorage, FileStorage | a map; a directory with a file per key | Set, Get, Has, Delete | handlers, later processes |
| Logger | none that the crawl depends on | | |

What makes it hard:

* *Interleaving.* Any number of workers runs between the steps of one. A worker
  that finds the queue empty leaves for good, while another is about to enqueue.
  A request in a worker's hands is in no map and has no file.
* *Atomicity.* The monitor reads the queue and then a counter; SQLiteQueue
  checks and then inserts, reads a count and then writes it back; the limiter
  reads the clock, sleeps, and records the old time; a link is accepted by the
  policy and then added.
* *Failure.* A crawl may fail half way and be retried; the context may be
  cancelled anywhere; a process may die with requests in hand or half a file
  written, in the queue's directory or in the storage's; a file may not be opened
  for writing, read or removed, and the runner drops the errors of its marks.
* *Lifetimes.* Monitor and scaling goroutine outlive `Run`; a second `Run` finds
  what the first left in the policy and a limiter that was closed.

What makes each component correct:

* A queue: a key is accepted once, handed to one worker at a time, carries its
  retry count, ends completed or failed, and is never forgotten; `IsEmpty`
  agrees with `FetchNext`; what was handled stays handled across a restart.
* A runner: `Run` ends; when it returns nil, all that was discovered was
  visited; afterwards nobody touches the queue; no goroutine is left behind.
* A limiter: no more grants per window than asked, no needless sleep, and every
  call returns.
* A link policy: no page enters the queue that it should keep out, in whatever
  order the workers crawl: nothing deeper than `maxDepth`, off the seeds' hosts,
  beyond a host's limit, or on a host the patterns exclude.
* A storage: a page that counts as completed has its data, under a file name of
  the storage's own directory.

## 2. Modules

| Module | Models | Built on |
|---|---|---|
| `QueueContract` | abstract: the request lifecycle of src/README.md, a status and a retry count per key | |
| `MemoryQueue` | `storage/memory_queue.go` | implements `QueueContract` |
| `SQLiteQueue` | `storage/sqlite_queue.go` | implements `QueueContract` |
| `FileQueue` | `storage/file_queue.go` | `WriteFile`; implements `QueueContract` |
| `WorkerLoop` | what a worker does with one request, the same in both runners | `MemoryQueue` |
| `AsyncRunner` | `runner/async_runner.go` | `WorkerLoop` |
| `AdaptiveRunner` | `runner/adaptive_runner.go` | `WorkerLoop` |
| `DomainRateLimiter` | `domainRateLimiter` of `runner/rate_limiter.go` | |
| `GlobalRateLimiter` | `globalRateLimiter` and `noRateLimiter` of the same file | |
| `LinkPolicy` | `runner/link_policy.go` | |
| `PolicyCrawl` | a runner with its policy and limiter, over two Runs | `AsyncRunner`, `LinkPolicy`, `GlobalRateLimiter` |
| `WriteFile` | `os.WriteFile`: the ways it can end | |
| `FileStorage` | `storage/file_storage.go` | `WriteFile` |
| `SanitizeFilename` | `storage/sanitize_filename.go`, a pure function | |
| `FileCrawl` | workers that keep both queue and data in files, and die | `FileQueue`, `FileStorage`, `SanitizeFilename` |
| `*Proofs` | theorems | the module of the name; `WorkerLoopProofs` holds those of `MemoryQueue` too, and what both runners need |
| `IterationLemmas` | induction over an interval of numbers, and loops as functions | used by `FileCrawlProofs` and `PolicyCrawlProofs` |
| `MC*` | instances: sites, URLs, symmetry | the module of the name (`MCFileQueue`: `FileCrawl`; `MCAsyncTree`: `MCAsyncRunner` with a site where every page is found once) |

Some properties differ between queues, and `QueueContract` has a parameter for
each difference: `Requeues` (SQLiteQueue may put a request back whose worker is
gone) and `Forgets` (FileQueue may forget one). With `Forgets` the contract also
says which *ended* keys may come back: those in `unrecorded`, which a key enters
in the very step that ends it or never.

### State and actions

* **Queues.** A URL is a model value; `normalizeURL` is a function from URLs to
  keys or `Invalid`, so that several spellings of one page and a string that
  does not parse can be told apart and nothing else. `held[w]` is the request
  that worker `w` fetched and has not marked: in the code that is a pointer in
  the worker's hands, and the only place where the request exists.
  - `MemoryQueue`: every method holds the mutex from start to end, and is one
    action. `FetchNext` takes any pending request, as the iteration of a Go map.
  - `SQLiteQueue`: the single connection makes a statement, and the transaction
    of `FetchNext`, atomic. `AddSelect`/`AddInsert` and
    `ReadRetryCount`/`MarkHandledWithError` are the two halves of the two-statement
    methods. `StatementFails` is an error of any of them, `Restart` a process that
    died and reopened the file. Which fetchable row is oldest by `added_at` is left
    open: it is a wall-clock time read before the insert. `GoesOn` is what a caller
    does in the middle of a method or with a request in hand; `FetchNext` is a new
    call, which a program need not make.
  - `FileQueue`: every method holds the mutex, but `os.WriteFile` can end in three
    ways, the `io` argument of an action: the file is written, it is left torn, or
    it could not be opened and is as it was. In the last case `visited.json` is
    whole and out of date. `FetchNext` skips files it cannot read or remove:
    `NothingToFetch(failing)` says when it returns io.EOF if those of `failing`
    are such. `Crash` forgets the map and the requests in hand; `Open` is the
    constructor with `loadVisited`; `OpenFails` is its error. `acked` are the keys
    of the marks that returned nil, `readded` those that were added while a worker
    had them.
* **WorkerLoop.** `pc[w]` is the worker's place between two shared accesses:
  fetch, wait for the limiter, crawl (with `todo[w]`, the links still to enqueue,
  one step each), deactivate. A page's links are fixed; a page in `Flaky` may
  fail at any point of its crawl; any crawl may fail once the context is
  cancelled. The limiter is either granted or, with `RateLimited`, cancelled.
  `attempts`, `succeeded` and `failed` are history variables.
* **AsyncRunner** adds Run's select (`ReachSelect` picks any channel that is
  ready, `Cancel` and `CloseWorkersDone` wake it), and the monitor with its two
  reads as two steps.
* **AdaptiveRunner** adds the poll of the stop channel and the context at the
  head of the loop, `ScaleUp`/`ScaleDown` (memory is the environment: at any tick
  low, high or between), the buffered channel that drops a token when it is full,
  and the waiter: `workerWg.Wait` is released when the count reaches zero, and
  panics if a worker was started before it runs again.
* **DomainRateLimiter** has a discrete clock that may advance between any two
  steps; with `Preemption = FALSE` only while calls sleep or are not in the lock.
* **LinkPolicy.** `Accepts` is what `ShouldEnqueue` answers and `Remember` what an
  accepting call records; both happen under the policy's mutex, in one step. A
  host is a model value with a spelling in lower case. A glob pattern is the set
  of hosts `filepath.Match` finds it to match.
* **PolicyCrawl.** The goroutines are `AsyncRunner`'s; `AskPolicy` and `AddLink`
  are the two halves of enqueueing a link, `Wait` takes the tick that
  `TickComes` put into the ticker's channel, Run's return closes the limiter, and
  `RunAgain` is a caller who adds a seed and calls `Run` once more.
* **FileStorage.** `fileName` is the name `sanitize` gives a key, and `Nameable`
  the names the file system takes with the extension appended; two keys may have
  one name. The module `SanitizeFilename` computes such names from strings whose
  bytes are told apart as far as the function does; `keyBytes` of `FileCrawl` are
  its storage's keys as such strings.
* **FileCrawl.** Between fetch and mark, a handler may delete what an earlier
  attempt stored, stores its page, and returns the error of `Set`: only a worker
  in `stored`, whose `Set` returned nil, marks its page handled without an error.
  The process may die before, in the middle of and after each step.

## 3. Runs

| Run | Instance | Shows |
|---|---|---|
| `async_tree` | 3 workers, 2 attempts, two seeds; every page linked once, from a page that does not fail; two flaky leaves, a forbidden link; no limiter, no cancellation | `EmptyIsEOF`, `OnePlacePerKey`, `NoKeyForgotten`, refinement of `QueueContract`; `RetryBudget`, `CompletedMeansCrawled`, `OnlyPermittedPages`, `NeverCrawledAgain`; `Termination`, `MonitorEnds` |
| `async_cyclic` | 2 workers; a cycle, a self-link, two spellings, a flaky page; cancellation, no limiter | the inductive invariant, `NoWorkAbandoned`, `CrawlComplete`, `QuietAfterReturn` |
| `policy_crawl` | 2 workers; pages on two hosts, one with two spellings, a cycle, a self-link, a flaky page, a bad link; cancellation, a second Run with a seed on the other host; maxDepth 2 around allowAll (with the global limiter), sameDomain and glob, and maxPerDomain 1; the patterns match the other host both before and after the negation that excludes it | `WithinDepth`, `SameDomainStays`, `PagesPerDomain`, `GlobMatches`, types, `RunEnds` |
| `rate_limiter` | 3 callers, one host, 2 per 2 ticks, 3 ticks; preemption, cancellation | `MaxPlusOnePerWindow`, `SleepIsJustified`, the inductive invariant, `CallReturns` |
| `sqlite_queue` | 2 callers, 2 keys in 3 spellings, a bad URL, 2 attempts, 2 faults | the inductive invariant, refinement, `EmptyIsFinished`, `EveryRowIsSettled` |
| `file_queue` | 2 workers, 2 pages under 3 URLs, one with too long a name, a bad URL, 2 attempts, 2 faults; pages are added again while they are crawled | the inductive invariant, `VisitedSurvives`, `EOFOverlooksOnlyBadFiles`, refinement of `QueueContract`; `CompletedPagesAreStored`, `FileNamesAreSafe` |
| `adaptive_runner` | 1 to 2 workers, 6 adjustments, 3 pages, one flaky; limiter, cancellation | the inductive invariant, `SurplusIsOwedToTokens`, `NoWorkAbandoned`, `QuietAfterReturn` |
| `adaptive_live` | 1 to 2 workers, 2 adjustments, 2 pages | `Termination`, `CancelEndsAll` |
| `async_duplicate` | the tree, with its root flaky | violates `DifferentUrlEach` |
| `rate_limiter_max` | 3 callers, 2 per 3 ticks, 6 ticks, no preemption | violates `MaxPerWindow` |
| `policy_depth` | a links to b and c, b back to a; maxDepth 2 | violates `DepthIsComplete` |
| `adaptive_max` | 1 to 2 workers, 3 adjustments | violates `WithinMaxWorkers` |

Every property of a passing run is broken by at least one mutant of the code
(`PROJECT.json`, "mutants"; the mutants stand beside the definitions they
change).

The module of `async_tree` has the assumption `FoundOnce`, which TLC evaluates on
its site: the condition of the theorem `TreeKeepsContract` is met by the run that
checks the same properties. The pure functions need no run of their own: the
runs use them on the patterns and names of the instance, and the theorems
`GlobFindsMatches` and `SanitizeIsSafe` speak of lists and names of every length.

### Bounds, and why they are enough

Two workers meet in every pair of steps; a third matters for the limiter's queue
(one sleeps, one waits for the lock, one has left) and for the tree, where one
leaves, one fails and one enqueues, and is there. Two keys let an operation on
one disturb the other, two spellings of one key exercise normalization, and two
attempts separate "retried" from "given up". `MaxFaults = 2` allows a crash after
a write that was cut off or failed, two writes that go wrong one after the other,
and a fault after a restart. `MaxTime` is more than one window (in
`rate_limiter_max` two of them), enough for the `maxRequests + 2` grants the bound
speaks of: they come in one tick if the limiter lets them. The clock stops there,
and a caller that sleeps on is excused in `CallReturns`. `maxDepth = 2` on a site
of longer paths and with a link back to a seed lets pages be refused and depths be
overwritten; `maxPerDomain = 1` is reached, and reached again by a duplicate and
by another spelling. Two Runs are as many as change anything: the second finds
the limiter closed and the policy used. `MaxAdjustments = 6` is three times
up and down, one more than the stop channel holds with `maxWorkers = 2`, so that
a token is dropped; the workers are then four at a time. Two are enough for
`adaptive_live`, where one late start causes the panic. `AttemptCap` only bounds a
history variable; 0 switches it off. Symmetry is used in safety runs only, on
workers.

### Fairness

Weak fairness of every goroutine: the Go scheduler is preemptive and fair, a
crawl and a limiter's wait end (both take the context, and the HTTP client has a
timeout). Strong fairness of a select's `ctx.Done()` against its ticker: the
ticker is ready twice a second or less, and Go's select picks at random. Strong
fairness of taking a limiter's lock: a Go mutex hands itself to a waiter that
starves. The clock advances, and a ticker that is not stopped goes on ticking.
Nothing is assumed of `Cancel`, of a second Run, and nothing of failures: pages
may fail always or never.
In `adaptive_live` memory need not call for any adjustment, and at most
`MaxAdjustments` of them happen: with unboundedly many, workers could be replaced
so closely that the WaitGroup never reaches zero, which ticks seconds apart do
not do. For SQLiteQueue the code justifies fairness of `GoesOn` only: a call in
progress ends, and a request in hand is marked. That somebody calls `FetchNext`
again, and `ResetStuckRequests` with a timeout longer than a crawl, is up to the
program (runner workers leave on io.EOF, and nothing in the library calls the
reset). Both are therefore antecedents of `EveryRowIsSettled` itself
(`SomeoneGoesOnFetching`, `SomeoneGoesOnResetting`); without either it is violated.

## 4. Proofs

| Theorem | States | Assumes |
|---|---|---|
| `WorkerLoopProofs!QueueTypeCorrect`, `EmptyAgreesWithEOF`, `ForgetsNoKey` | `QueueTypeOK`, `EmptyIsEOF`, `NoKeyForgotten` of a MemoryQueue | any calls at all |
| `WorkerLoopProofs!KeepsOnePlacePerKey`, `ImplementsContract` | `OnePlacePerKey`, `KeepsContract` | no key in a worker's hands is added again (`QueueSpecFresh`) |
| `AsyncRunnerProofs!Invariance`, `AbandonsNoWork`, `CompletesCrawl`, `QuietOnceReturned` | `IInv`, `NoWorkAbandoned`, `CrawlComplete`, `QuietAfterReturn` | any site, policy, flaky pages, retries, finite set of workers |
| `AdaptiveRunnerProofs!Invariance`, `SurplusExplained`, `AbandonsNoWork`, `QuietOnceReturned` | `IInv`, `SurplusIsOwedToTokens`, `NoWorkAbandoned`, `QuietAfterReturn` | any limits, site, retries, adjustments |
| both runners: `EmptyAgreesWithEOFInRun`, `ForgetsNoKeyInRun` | `EmptyIsEOF`, `NoKeyForgotten` of the queue in any run | the same |
| both: `CompletedWasCrawled` | `CompletedMeansCrawled` | no limiter, or no cancellation |
| both: `CrawlsOnlyPermitted` | `OnlyPermittedPages` | the history of attempts is kept (`AttemptCap > 0`) |
| both: `FreshKeepsContract` | `OnePlacePerKey`, `DifferentUrlEach`, `RetryBudget`, `NeverCrawledAgain`, `KeepsContract` | of the runs in which no link is enqueued while a worker has its page (`[][AddsAreFresh]_vars`) |
| both: `TreeKeepsContract` | the same five, of every run | every page found once, from a page that does not fail (`FoundOnce`), and no cancellation |
| `DomainRateLimiterProofs!RateInvariance`, `BoundsGrants`, `SleepsForAReason` | `RateInv`, `MaxPlusOnePerWindow`, `SleepIsJustified` | any callers, hosts, limit, window |
| `PolicyCrawlProofs!CrawlTypeCorrect`, `KeepsWithinDepth`, `StaysOnSeedHosts`, `StaysOnMatchingHosts` | `CrawlTypeOK`, `WithinDepth`, `SameDomainStays`, `GlobMatches` | any site, hosts, limits, options, patterns |
| `PolicyCrawlProofs!GlobFindsMatches` | the loop of `globPolicy` computes `Matches` | nothing |
| `PolicyCrawlProofs!LimitsPagesPerDomain` | `PagesPerDomain` | finitely many hosts |
| `SQLiteQueueProofs!OpenRowsCount`, `KeepsEveryRow` | `OpenRowsHaveAttempts`; no row is removed or given another URL | any callers, faults, restarts, resets |
| `SQLiteQueueProofs!SQLInvariance`, `HoldersOwnRows`, `SQLImplementsContract` | `SQLInv`, rows have one holder, `KeepsContract` | resets spare the rows in use (`~ResetLive`) |
| `SQLiteQueueProofs!EmptyMeansFinished` | `EmptyIsFinished` | the same |
| `FileCrawlProofs!CrawlFileInvariance`, `SurvivesRestarts`, `EOFMeansEmpty`, `FileImplementsContract` | `FileInv`, `VisitedSurvives`, `EOFOverlooksOnlyBadFiles`, `KeepsContract` | any callers, crashes, writes that go wrong |
| `FileCrawlProofs!CompletedIsStored` | `CompletedPagesAreStored` | the same, any file names |
| `FileCrawlProofs!SanitizeIsSafe` | `SafeName(sanitize(s))` for every string of the four kinds of bytes | nothing |
| `FileCrawlProofs!NamesAreSafe` | `FileNamesAreSafe` | file names are what `sanitize` gives (`FilesAreSanitized`), as `FileStorage` takes them |

The arguments:

* **MemoryQueue.** `EmptyIsEOF` follows from a bound on the retry counts of the
  requests that are pending *or held*, for a held one comes back with one more.
  For the contract, `OnePlacePerKey` is the strengthening: the status of a key is
  read from four places, and is well defined only if they exclude each other.
* **SQLiteQueue.** The row of a held key is `processing` and has one holder, and
  the retry count a caller has read is still the row's. That makes the second
  statement of a mark as good as an atomic one; the second statement of an Add is
  saved by the UNIQUE constraint. A reset of live rows gives a row two holders and
  breaks all that; what is left is `TableInv`: every holder's row is there, and a
  row that may be fetched again has attempts left. It needs no condition, and from
  it follows that the table only grows. For `EmptyIsFinished`, a row without a
  holder is pending, completed or out of attempts until something fails: every
  step that takes a row away from its holder either settles it or puts it back.
* **AsyncRunner.** `NoWorkAbandoned` is not inductive. `IInv` adds who still
  serves the queue (`SomeoneServes`: a worker leaves only when the queue is empty,
  and only a worker that has not left can fill it again), where every discovered
  page is (`DiscoveriesKnown`: pending, held, visited, or still in the `todo` of
  a worker that crawls), and that Run returns last (`ReturnsLast`).
* **AdaptiveRunner.** The same three parts, each with the exceptions this runner
  makes: a worker may also have left because of a token or the context, and
  workers may be started after the others have ended, but then find the queue
  empty, or the context cancelled at their first look (`ClosedQuiet`), and leave
  the queue as it is.
* **A runner over its queue.** Which promises of the queue a run keeps depends on
  the site: `async_duplicate` shows two workers with one page when a link is
  enqueued while its page is crawled. `FreshKeepsContract` proves that nothing
  else goes wrong. Its invariant `FreshInv` adds the retry budget to
  `OnePlacePerKey`: the attempts of a page are at most its retry count while it is
  pending, or held and not started; at most one more while it is crawled; and at
  most `MaxRetries` once it is visited. The count is bounded only because a key has one
  place: a second copy would start again from 0. `TreeKeepsContract` then shows
  when a run has to be such a run: with `FoundOnce`, a link that is still to be
  enqueued leads to a page no one has seen (`LookedAtOnce`: every known key is a
  seed's or was looked at by the one page that links to it, and that page is
  crawled once). Both conditions are needed. A page that fails is crawled again
  and enqueues its links again, and so is any page once the context is cancelled.
* **DomainRateLimiter.** A timestamp may be older than its grant, but was read
  after the previous one (`ReadAfterPreviousGrant`): the window in `timestamps` is
  the true window shifted by at most one grant, hence `maxRequests + 2` instead
  of `maxRequests + 1`. A sleeper holds the lock, so the window it saw full is
  still there; and every recorded time is at most its grant's.
* **PolicyCrawl.** The depth a URL has recorded is not its distance from a seed,
  and goes up and down as links to it are accepted. But it is never *less than*
  the length of some walk from a seed: that is kept when a depth is overwritten,
  when a seed's absent entry is read as 0, and between the two halves of an
  enqueue. For sameDomain, the hosts `Initialize` finds are those of pending
  requests, which are on seeds' hosts by the invariant itself. For glob, a link
  between the two halves of an enqueue has been accepted, and the list never
  changes. For maxPerDomain
  every page that is not a seed has a place of its own, a number up to the limit
  together with a spelling of its host: the number the count had when its link
  was accepted. Duplicates use up places and are never given two pages' one.
* **FileQueue and storage.** `VisitedSurvives` is about the marks that returned
  nil: their keys are in the map, and in `visited.json` unless a write tore it. A
  later write that fails leaves an older file, which has them all the same, for
  every earlier write that succeeded wrote the whole map. `FileInv` adds that a key
  outside `readded` is in one place at a time, with a file, one worker, or visited,
  and that requests have attempts left. The contract's status of a key is read from
  these, and its `unrecorded` keys are the difference between map and file. A crash
  maps to a step that forgets keys in hand or torn, a restart to one that forgets
  unrecorded keys. A key that was added while a worker had it has the status
  unknown for ever: of such keys nothing is promised, and the theorem says that
  the others are not disturbed. For the storage, the data of a page is whole from
  the `Set` that returned nil to the mark, and while its key is completed, because
  only its holder writes the file, unless two pages share it (`OwnName`).
* **The two loops.** `Glob` scans a list of patterns and `sanitize` a string. Both
  are recursive functions over an interval, and both proofs are inductions over
  it: `IterationLemmas` derives `Induction` from the fact that a set of numbers
  has a least element, and from it that such a function exists. After `i`
  patterns the scan has stopped if a negation among them matched, and allows the
  host if none did and another pattern did. Collapsing white space keeps a prefix without
  two spaces in a row; what is left by the trims and the final cut has no leading
  dot or space, and only a cut can leave a space at the end.

Only model-checked: liveness (`Termination` of both runners, `MonitorEnds`,
`RunEnds`, `CallReturns`, `EveryRowIsSettled`, `CancelEndsAll`), which is out of
the prover's reach under fairness. Every invariant and every action property of
a passing run is stated by a theorem, under the conditions in the table.

## 5. What the code does that its documents do not say

Found as violations (runs of their own):

* **Two workers crawl one URL** (`async_duplicate`). A URL being crawled is in
  neither map of MemoryQueue, so Add accepts it again; src/README.md:196 and :206
  say otherwise. It takes a page that is linked from a page that is retried, from
  itself, or from two pages.
* **One grant too many** (`rate_limiter_max`). A call that slept records the time
  from before its sleep; examples/06-runners/README.md:26 states a maximum.
* **A seed gets a depth** (`policy_depth`). A link back to a seed, once accepted,
  overwrites its depth 0; if the seed is still being crawled, its remaining links
  are refused although they are one step away; src/README.md:133.
* **More workers than the maximum** (`adaptive_max`). `currentWorkers` goes down
  when a stop token is sent, not when a worker takes it; src/README.md:190.

Met while modelling, and visible in the conditions under which the properties
above are stated:

* Re-adding a page while it is crawled also restarts its retry count: with cycles
  and failing pages the retry budget is exceeded, and two workers can keep each
  other busy for ever. Hence the tree of `async_tree`, and the single attempt of
  `policy_crawl`. `Termination` is checked in `async_tree` only: on a site whose
  pages are found once, without cancellation, for a cancelled crawl fails half
  way and adds its links again. That a cancelled Run ends is `RunEnds`.
* A cancelled limiter wait marks its request completed though nobody crawled it,
  and Run may return nil although it was cancelled. Hence the exception
  `RateLimited /\ ctxDone`, and no limiter in `async_tree`. A caller that waits
  for the lock of a host does not look at its context.
* A worker leaves on a momentarily empty queue and is not replaced: a crawl that
  starts from one seed may go on with a single worker. Nothing is lost by it
  (`NoWorkAbandoned`).
* The monitor can report the end while a request is in a worker's hands; nothing
  reads its verdict.
* A second Run of a runner with a global limiter waits for a ticker the first Run
  stopped, and ends only when it is cancelled. Hence the condition of `RunEnds`.
* maxPerDomain counts per spelling of a host, counts links that turn out to be
  duplicates, and goes on counting in a second Run; the limit may be used up by
  fewer pages. sameDomain lower-cases the hosts of the seeds and compares them
  with a link's host as it is spelled: links in upper case are refused.
  The patterns of globPolicy are matched against hosts; src/README.md:135 gives
  paths as examples.
* GetStats of MemoryQueue and FileQueue counts failed keys as completed.
* SQLiteQueue's Add returns a UNIQUE constraint error to the second of two
  workers that discover a URL at the same time; the handler sees a failed enqueue.
* SQLiteQueue's ResetStuckRequests with a timeout shorter than a crawl gives a row
  to two workers (`ResetLive`), and the properties above do not hold then.
* FileQueue loses the requests in hand in a crash, and one whose retry cannot be
  written; a torn request file blocks its URL for ever; a torn `visited.json` keeps
  the queue from opening. If `visited.json` cannot be opened when a page is marked,
  the runner drops the error, the old file stays, and after a restart the page may
  be crawled again (`unrecorded`); the next mark that succeeds repairs it. FetchNext
  returns io.EOF over intact files that it could not read or remove, and the worker
  leaves. A URL added while it is crawled gets a file beside its worker (`readded`).
* FileStorage gives keys that sanitize to one name one file, and the later `Set`
  wins (`OwnName`); a name of more than 250 bytes cannot be created, and its
  page fails; `Has` answers true for a file that was cut off.
* SQLiteQueue's IsEmpty counts pending rows only: after a crash or a failed
  statement it is true over rows that nobody will fetch. Hence `faults = 0` in
  `EmptyIsFinished`.
* AdaptiveRunner: a stale stop token can stop the last worker with work left (Run
  returns nil); the scaling goroutine outlives Run until the context ends; a
  worker started as the last one ends makes the WaitGroup panic.

## 6. Not modelled

| Part | Why |
|---|---|
| HTTP requests, the chromedp browser, handlers | environment: a page's links are fixed, a crawl succeeds or fails, a handler stores its page under its URL |
| Logger, examples | no state the crawl depends on; programs that use the library |
| GetStats, and GetAllHosts of SQLiteQueue and FileQueue; Close of SQLiteQueue | read-only, nothing in the modelled runs reads them; `Restart` stands for the end of a process |
| MemoryStorage | each method is one operation on a map |
| an error of close(2) after a whole write; loss of power | `os.WriteFile` would return an error over a whole file; what the operating system has taken it keeps |
| JSON formats, Unicode white space in names | the data is a value, a byte one of four kinds |
| PolicySameDomain in two runners at once | it is one shared value whose map is replaced while another runner reads it; the crawls have one runner |
| a limiter inside AdaptiveRunner, the domain limiter inside a runner | the runners see any limiter as one that grants, or fails after a cancellation; the limiters are checked against any callers |
| a runner over SQLiteQueue or FileQueue | the runners use a MemoryQueue; the other queues are checked against any callers, and implement the same contract |

What would come next is the last two: the worker loop over `QueueContract`, and
with it one proof of the runners for every queue. `FreshKeepsContract` is the
half that is there: it says under which condition a runner's calls are calls the
contract speaks of.
