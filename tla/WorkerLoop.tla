----------------------------- MODULE WorkerLoop -----------------------------
(***************************************************************************)
(* What a worker goroutine does with one request, the same in AsyncRunner  *)
(* and AdaptiveRunner: fetch it, wait for the rate limiter, crawl the page *)
(* and enqueue the links the policy lets through, mark it, and start over. *)
(* Between any two of these steps the other workers run.                   *)
(*                                                                         *)
(* The crawl itself (crawlers/, the user's handler, the network) is the    *)
(* environment: a page has a fixed set of links, a flaky page may fail at  *)
(* any point of its crawl, and any crawl may fail once its context is      *)
(* cancelled.  Neither a FetchNext error other than io.EOF nor a request   *)
(* whose URL does not parse can occur over a MemoryQueue (Add refuses such *)
(* a URL), so those two branches of the loop have no step here.            *)
(***************************************************************************)
EXTENDS MemoryQueue

CONSTANTS Links,        \* the links the handler enqueues from each page
          Permitted,    \* the (page, link) pairs the link policy accepts
          Flaky,        \* pages whose crawl may fail
          RateLimited,  \* a limiter whose Wait can be cancelled is configured
          Seeds,        \* URLs added before Run is called
          AttemptCap    \* bound on the history counter attempts

ASSUME LinksAssumption == Links \in [Urls -> SUBSET Urls]
ASSUME PermittedAssumption == Permitted \in SUBSET (Urls \X Urls)
ASSUME RateLimitedAssumption == RateLimited \in BOOLEAN
ASSUME AttemptCapAssumption == AttemptCap \in Nat
\* Seeds that normalize to the same key would be no-ops, the others errors.
ASSUME SeedsAssumption ==
  /\ Seeds \in SUBSET ValidUrls
  /\ \A u, v \in Seeds : normalizeURL[u] = normalizeURL[v] => u = v

VARIABLES pc,             \* where each worker is in its loop
          todo,           \* links its crawl has still to enqueue
          activeWorkers,  \* the atomic counter
          ctxDone,        \* the context passed to Run is cancelled
          attempts,       \* history: crawls started per key, up to AttemptCap
          succeeded       \* history: pages a crawl of which returned nil

loopVars == <<pc, todo, activeWorkers, ctxDone, attempts, succeeded>>
workerVars == <<queueVars, loopVars>>

Crawling == {w \in Workers : pc[w] \in {"crawl", "deactivate"}}

LoopTypeOK ==
  /\ pc \in [Workers -> {"idle", "head", "fetch", "wait", "crawl", "deactivate", "done"}]
  /\ todo \in [Workers -> SUBSET Urls]
  /\ activeWorkers = Cardinality(Crawling)
  /\ ctxDone \in BOOLEAN
  /\ attempts \in [Keys -> 0 .. AttemptCap]
  /\ succeeded \in SUBSET ValidUrls

LoopInit(start) ==
  /\ pending = Seeded(Seeds)
  /\ visited = {}
  /\ held = [w \in Workers |-> NoRequest]
  /\ failed = {}
  /\ pc = start
  /\ todo = [w \in Workers |-> {}]
  /\ activeWorkers = 0
  /\ ctxDone = FALSE
  /\ attempts = [k \in Keys |-> 0]
  /\ succeeded = {}

Goto(w, label) == pc' = [pc EXCEPT ![w] = label]
-----------------------------------------------------------------------------
\* q.FetchNext returned a request to the worker, which is at label `at`.
FetchRequest(w, k, at) ==
  /\ pc[w] = at
  /\ FetchNext(w, k)
  /\ Goto(w, "wait")
  /\ UNCHANGED <<todo, activeWorkers, ctxDone, attempts, succeeded>>

\* A mutant of QueueEmpty: the worker polls again.
QueueEmpty_Continue(w, at) ==
  /\ pc[w] = at
  /\ NothingToFetch
  /\ UNCHANGED workerVars

\* q.FetchNext returned io.EOF: the goroutine ends.
QueueEmpty(w, at) ==
  /\ pc[w] = at
  /\ NothingToFetch
  /\ Goto(w, "done")
  /\ UNCHANGED <<queueVars, todo, activeWorkers, ctxDone, attempts, succeeded>>

\* Wait returned nil; the worker counts itself active and the crawl starts.
WaitGranted(w) ==
  LET k == UniqueKey(held[w]) IN
  /\ pc[w] = "wait"
  /\ activeWorkers' = activeWorkers + 1
  /\ todo' = [todo EXCEPT ![w] = Links[held[w].url]]
  /\ attempts' = IF attempts[k] < AttemptCap THEN [attempts EXCEPT ![k] = @ + 1] ELSE attempts
  /\ Goto(w, "crawl")
  /\ UNCHANGED <<queueVars, ctxDone, succeeded>>

\* Wait returned the context's error: the request is marked handled and the
\* goroutine ends.
WaitCancelled(w) ==
  /\ pc[w] = "wait"
  /\ RateLimited /\ ctxDone
  /\ MarkHandled(w)
  /\ Goto(w, "done")
  /\ UNCHANGED <<todo, activeWorkers, ctxDone, attempts, succeeded>>

\* A mutant of EnqueueLink: the link policy is not asked.
EnqueueLink_AnyLink(w, l) ==
  /\ pc[w] = "crawl"
  /\ l \in todo[w]
  /\ todo' = [todo EXCEPT ![w] = @ \ {l}]
  /\ Add(l)
  /\ UNCHANGED <<pc, activeWorkers, ctxDone, attempts, succeeded>>

\* A mutant of EnqueueLink: only the first link of the page is looked at.
EnqueueLink_DroppedLink(w, l) ==
  /\ pc[w] = "crawl"
  /\ l \in todo[w]
  /\ todo' = [todo EXCEPT ![w] = {}]
  /\ IF <<held[w].url, l>> \in Permitted THEN Add(l) ELSE UNCHANGED queueVars
  /\ UNCHANGED <<pc, activeWorkers, ctxDone, attempts, succeeded>>

\* The handler enqueues one link of the page, through the crawler's
\* EnqueueLinks and the runner's policyFilteredEnqueue.
EnqueueLink(w, l) ==
  /\ pc[w] = "crawl"
  /\ l \in todo[w]
  /\ todo' = [todo EXCEPT ![w] = @ \ {l}]
  /\ IF <<held[w].url, l>> \in Permitted THEN Add(l) ELSE UNCHANGED queueVars
  /\ UNCHANGED <<pc, activeWorkers, ctxDone, attempts, succeeded>>

\* Crawl returned nil, all links of the page enqueued.
CrawlSucceeds(w) ==
  /\ pc[w] = "crawl"
  /\ todo[w] = {}
  /\ succeeded' = succeeded \cup {held[w].url}
  /\ MarkHandled(w)
  /\ Goto(w, "deactivate")
  /\ UNCHANGED <<todo, activeWorkers, ctxDone, attempts>>

\* A mutant of CrawlFails: every request is marked handled.
CrawlFails_Handled(w) ==
  /\ pc[w] = "crawl"
  /\ held[w].url \in Flaky \/ ctxDone
  /\ MarkHandled(w)
  /\ todo' = [todo EXCEPT ![w] = {}]
  /\ Goto(w, "deactivate")
  /\ UNCHANGED <<activeWorkers, ctxDone, attempts, succeeded>>

\* Crawl returned an error, some links of the page enqueued or none.
CrawlFails(w) ==
  /\ pc[w] = "crawl"
  /\ held[w].url \in Flaky \/ ctxDone
  /\ MarkHandledWithError(w)
  /\ todo' = [todo EXCEPT ![w] = {}]
  /\ Goto(w, "deactivate")
  /\ UNCHANGED <<activeWorkers, ctxDone, attempts, succeeded>>

\* A mutant of Deactivate: the counter is left as it is.
Deactivate_Uncounted(w) ==
  /\ pc[w] = "deactivate"
  /\ Goto(w, "head")
  /\ UNCHANGED <<queueVars, todo, activeWorkers, ctxDone, attempts, succeeded>>

Deactivate(w) ==
  /\ pc[w] = "deactivate"
  /\ activeWorkers' = activeWorkers - 1
  /\ Goto(w, "head")
  /\ UNCHANGED <<queueVars, todo, ctxDone, attempts, succeeded>>

ProcessRequest(w) ==
  \/ WaitGranted(w)
  \/ WaitCancelled(w)
  \/ \E l \in todo[w] : EnqueueLink(w, l)
  \/ CrawlSucceeds(w)
  \/ CrawlFails(w)
  \/ Deactivate(w)
-----------------------------------------------------------------------------
\* The queue returns a different URL to each worker that races to FetchNext: no
\* page is in the hands of two workers at once.
DifferentUrlEach ==
  \A v, w \in Workers :
     v # w /\ held[v] # NoRequest /\ held[w] # NoRequest
        => UniqueKey(held[v]) # UniqueKey(held[w])

\* A failing page is crawled maxRetries times and no more, however its requests
\* travel between the queue and the workers.
RetryBudget == \A k \in Keys : attempts[k] <= maxRetries

\* A page the queue calls completed was crawled without an error.
CompletedMeansCrawled ==
  \A k \in visited \ failed : \E u \in succeeded : normalizeURL[u] = k

\* A crawl never starts for a page the queue already calls completed or failed.
NeverCrawledAgain ==
  [][\A k \in visited : attempts'[k] = attempts[k]]_workerVars

\* The key of a seed, or of a link that the policy permits on a page a crawl of
\* which has started.
PermittedKey(k) ==
  \/ \E s \in Seeds : normalizeURL[s] = k
  \/ \E p \in Permitted : /\ p[2] \in Links[p[1]]
                          /\ normalizeURL[p[2]] = k
                          /\ normalizeURL[p[1]] \in Keys
                          /\ attempts[normalizeURL[p[1]]] > 0

\* Every page in the queue, in a worker's hands or visited is a seed or was
\* linked, with the policy's consent, from a page that was crawled.
OnlyPermittedPages == \A k \in KnownKeys : PermittedKey(k)

PermittedLinks(u) ==
  {l \in Links[u] : <<u, l>> \in Permitted /\ normalizeURL[l] \in Keys}

\* The seeds, and the permitted links of every page that was crawled without an
\* error, are all visited.
Complete ==
  /\ \A s \in Seeds : normalizeURL[s] \in visited
  /\ \A u \in succeeded : \A l \in PermittedLinks(u) : normalizeURL[l] \in visited

\* The parts of the runners' inductive invariants that are about the workers:
\* one holds a request from its fetch to its mark, ...
BusyWorkersHold ==
  \A w \in Workers : held[w] # NoRequest <=> pc[w] \in {"wait", "crawl"}

\* ... and no link that was looked at is forgotten.
AllKnown(urls) == \A u \in urls : normalizeURL[u] \in KnownKeys

DiscoveriesKnown ==
  /\ AllKnown(Seeds)
  /\ \A u \in succeeded : AllKnown(PermittedLinks(u))
  /\ \A w \in Workers :
       pc[w] = "crawl" => AllKnown(PermittedLinks(held[w].url) \ todo[w])
-----------------------------------------------------------------------------
\* The condition under which the queue keeps its contract, as the workers meet it:
\* no link is enqueued while a worker has the page it leads to.
AddsAreFresh ==
  \A w \in Workers, l \in Urls :
     EnqueueLink(w, l) /\ <<held[w].url, l>> \in Permitted => normalizeURL[l] \notin HeldKeys

\* A site on which it is met: each page is a seed or is linked once, with the
\* policy's consent, from a page that does not fail.
FoundOnce ==
  /\ \A u \in ValidUrls : \A l \in PermittedLinks(u), s \in Seeds :
        normalizeURL[l] # normalizeURL[s]
  /\ \A u, v \in ValidUrls : \A l \in PermittedLinks(u), m \in PermittedLinks(v) :
        normalizeURL[l] = normalizeURL[m] => u = v /\ l = m
  /\ \A u \in Flaky \cap ValidUrls : PermittedLinks(u) = {}
=============================================================================
