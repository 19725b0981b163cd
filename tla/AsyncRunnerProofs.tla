------------------------- MODULE AsyncRunnerProofs -------------------------
(* What holds of AsyncRunner.Run over a MemoryQueue for every number of     *)
(* workers, every site, every link policy and every retry limit.            *)
EXTENDS AsyncRunner, WorkerLoopProofs

\* A worker leaves only when there is nothing to fetch or its Wait was cancelled.
LEMMA LoopStepServes ==
  ASSUME QueueTypeOK, LoopTypeOK, SomeoneServes, NEW w \in Workers, LoopStep(w, "head")
  PROVE  SomeoneServes'
<1>1. CASE pc'[w] # "done"
  BY <1>1 DEF SomeoneServes
<1>2. CASE pc'[w] = "done"
  <2>1. QueueEmpty(w, "head") \/ WaitCancelled(w)
    BY <1>2 DEF LoopStep, ProcessRequest, FetchRequest, WaitGranted, EnqueueLink, CrawlSucceeds,
                CrawlFails, Deactivate, Goto, LoopTypeOK
  <2>2. CASE QueueEmpty(w, "head")
    <3>1. PendingKeys = {}
      BY <2>2, MaxRetriesPositive
         DEF QueueEmpty, NothingToFetch, PendingKeys, QueueTypeOK, Request
    <3> QED
      BY <2>2, <3>1 DEF QueueEmpty, queueVars, PendingKeys, IsEmpty, SomeoneServes
  <2>3. CASE WaitCancelled(w)
    BY <2>3 DEF WaitCancelled, SomeoneServes
  <2> QED
    BY <2>1, <2>2, <2>3
<1> QED
  BY <1>1, <1>2

LEMMA WorkerStepInv ==
  ASSUME IInv, NEW w \in Workers, WorkerStep(w)
  PROVE  IInv'
<1>1. LoopStep(w, "head") /\ UNCHANGED runVars
  BY DEF WorkerStep, LoopStep
<1> USE <1>1 DEF IInv, AsyncTypeOK
<1>2. AsyncTypeOK'
  BY LoopStepQueueType, LoopStepLoopType, WorkersAssumption DEF runVars
<1>3. BusyWorkersHold'
  BY LoopStepBusy
<1>4. SomeoneServes'
  BY LoopStepServes
<1>5. DiscoveriesKnown'
  BY LoopStepDiscoveries
<1>6. ReturnsLast'
  <2>1. pc[w] # "done"
    BY DEF LoopStep, ProcessRequest, FetchRequest, QueueEmpty, WaitGranted, WaitCancelled,
           EnqueueLink, CrawlSucceeds, CrawlFails, Deactivate
  <2>2. ~workersDone /\ result = "none"
    BY <2>1 DEF ReturnsLast
  <2> QED
    BY <2>2 DEF ReturnsLast, runVars
<1> QED
  BY <1>2, <1>3, <1>4, <1>5, <1>6

-----------------------------------------------------------------------------
(* The steps of Run, its caller, the closer and the monitor leave the queue *)
(* and the workers alone.                                                   *)

LEMMA CancelInv ==
  ASSUME IInv, Cancel
  PROVE  IInv'
<1>1. QueueTypeOK' /\ LoopTypeOK' /\ BusyWorkersHold' /\ DiscoveriesKnown'
  BY QueueAndLoopUnchanged DEF Cancel, IInv, AsyncTypeOK
<1>2. SomeoneServes'
  BY DEF Cancel, queueVars, IInv, SomeoneServes, IsEmpty, PendingKeys
<1>3. ReturnsLast'
  BY DEF Cancel, IInv, ReturnsLast
<1> QED
  BY <1>1, <1>2, <1>3 DEF Cancel, IInv, AsyncTypeOK

\* The steps that change runVars only.
RunStep ==
  \/ CloseWorkersDone \/ ReachSelect \/ Drained
  \/ MonitorTick \/ MonitorLoad \/ MonitorCancelled

LEMMA RunStepInv ==
  ASSUME IInv, RunStep
  PROVE  IInv'
<1>1. UNCHANGED <<queueVars, loopVars>>
  BY DEF RunStep, CloseWorkersDone, ReachSelect, Drained, MonitorTick, MonitorLoad,
         MonitorCancelled
<1>2. QueueTypeOK' /\ LoopTypeOK' /\ BusyWorkersHold' /\ DiscoveriesKnown'
  BY <1>1, QueueAndLoopUnchanged DEF IInv, AsyncTypeOK, LoopTypeOK, loopVars
<1>3. ReturnsLast'
  BY <1>1 DEF IInv, ReturnsLast, RunStep, CloseWorkersDone, ReachSelect, Drained, MonitorTick,
              MonitorLoad, MonitorCancelled, Return, loopVars, AsyncTypeOK
<1>4. /\ main' \in {"spawn", "select", "drain", "returned"}
      /\ result' \in {"none", "nil", "canceled"}
      /\ workersDone' \in BOOLEAN
      /\ monitor' \in {"ticker", "load", "exited"}
  BY DEF IInv, AsyncTypeOK, RunStep, CloseWorkersDone, ReachSelect, Drained, MonitorTick,
         MonitorLoad, MonitorCancelled, Return
<1>5. seenEmpty' \in BOOLEAN
  BY DEF IInv, AsyncTypeOK, RunStep, CloseWorkersDone, ReachSelect, Drained, MonitorTick,
         MonitorLoad, MonitorCancelled, IsEmpty
<1>6. SomeoneServes'
  BY <1>1 DEF queueVars, loopVars, IInv, SomeoneServes, IsEmpty, PendingKeys
<1> QED
  BY <1>2, <1>3, <1>4, <1>5, <1>6 DEF IInv, AsyncTypeOK

LEMMA InitInv == Init => IInv
<1> SUFFICES ASSUME Init
             PROVE  IInv
  OBVIOUS
<1>1. QueueTypeOK /\ LoopTypeOK /\ BusyWorkersHold /\ DiscoveriesKnown
  BY LoopInitInv DEF Init
<1>2. AsyncTypeOK
  BY <1>1 DEF Init, AsyncTypeOK
<1>3. SomeoneServes
  BY WorkersAssumption DEF Init, LoopInit, SomeoneServes
<1>4. ReturnsLast
  BY DEF Init, ReturnsLast
<1> QED
  BY <1>1, <1>2, <1>3, <1>4 DEF IInv

LEMMA NextInv == IInv /\ [Next]_vars => IInv'
<1> SUFFICES ASSUME IInv, [Next]_vars
             PROVE  IInv'
  OBVIOUS
<1>1. ASSUME NEW w \in Workers, WorkerStep(w)
      PROVE  IInv'
  BY <1>1, WorkerStepInv
<1>2. CASE Cancel
  BY <1>2, CancelInv
<1>3. CASE RunStep
  BY <1>3, RunStepInv
<1>4. CASE UNCHANGED vars
  <2>1. QueueTypeOK' /\ LoopTypeOK' /\ BusyWorkersHold' /\ DiscoveriesKnown'
    BY <1>4, QueueAndLoopUnchanged DEF IInv, AsyncTypeOK, LoopTypeOK, vars, loopVars
  <2>2. SomeoneServes'
    BY <1>4 DEF vars, queueVars, loopVars, IInv, SomeoneServes, IsEmpty, PendingKeys
  <2> QED
    BY <1>4, <2>1, <2>2 DEF IInv, AsyncTypeOK, ReturnsLast, vars, loopVars, runVars
<1> QED
  BY <1>1, <1>2, <1>3, <1>4 DEF Next, RunStep, Terminated

THEOREM Invariance == Spec => []IInv
BY InitInv, NextInv, PTL DEF Spec

-----------------------------------------------------------------------------
\* The queue, the workers' program counters and the active counter stay
\* consistent: the counter is the number of workers inside a crawl.
THEOREM TypeCorrect == Spec => []AsyncTypeOK
BY Invariance, PTL DEF IInv

\* Run returns nil with an empty queue, unless a cancelled limiter made the
\* workers give up.
THEOREM AbandonsNoWork == Spec => []NoWorkAbandoned
<1>1. IInv => NoWorkAbandoned
  BY DEF IInv, SomeoneServes, ReturnsLast, NoWorkAbandoned
<1> QED
  BY <1>1, Invariance, PTL

\* When Run returns nil every seed, and every permitted link of every page
\* crawled without an error, is visited, with the same exception.
THEOREM CompletesCrawl == Spec => []CrawlComplete
<1>1. IInv => CrawlComplete
  <2> SUFFICES ASSUME IInv, result = "nil", ~(RateLimited /\ ctxDone)
               PROVE  Complete
    BY DEF CrawlComplete
  <2>1. \A w \in Workers : pc[w] = "done"
    BY DEF IInv, ReturnsLast
  <2>2. PendingKeys = {}
    BY <2>1 DEF IInv, SomeoneServes, IsEmpty
  <2>3. HeldKeys = {}
    BY <2>1 DEF IInv, BusyWorkersHold, HeldKeys
  <2>4. KnownKeys = visited
    BY <2>2, <2>3 DEF KnownKeys
  <2> QED
    BY <2>4 DEF IInv, DiscoveriesKnown, AllKnown, Complete
<1> QED
  BY <1>1, Invariance, PTL

\* Once Run has returned, no goroutine of it touches the queue.
THEOREM QuietOnceReturned == Spec => QuietAfterReturn
<1>1. IInv /\ [Next]_vars => [result # "none" => UNCHANGED queueVars]_vars
  <2> SUFFICES ASSUME IInv, Next, result # "none"
               PROVE  UNCHANGED queueVars
    OBVIOUS
  <2>1. \A w \in Workers : pc[w] = "done"
    BY DEF IInv, ReturnsLast
  <2>2. ASSUME NEW w \in Workers, WorkerStep(w)
        PROVE  FALSE
    BY <2>1, <2>2 DEF WorkerStep, ProcessRequest, FetchRequest, QueueEmpty, WaitGranted,
                      WaitCancelled, EnqueueLink, CrawlSucceeds, CrawlFails, Deactivate
  <2> QED
    BY <2>2 DEF Next, Cancel, CloseWorkersDone, ReachSelect, Drained, MonitorTick, MonitorLoad,
                MonitorCancelled, Terminated, vars
<1> QED
  BY <1>1, Invariance, PTL DEF Spec, QuietAfterReturn

-----------------------------------------------------------------------------
(* What the marks, and the pages in the queue, say about the crawls.        *)

LEMMA LeavesMarksAlone ==
  ASSUME [Next]_vars
  PROVE  \/ \E w \in Workers : LoopStep(w, "head")
         \/ UNCHANGED <<queueVars, pc, todo, attempts, succeeded>>
BY DEF Next, WorkerStep, LoopStep, Cancel, CloseWorkersDone, ReachSelect, Drained, MonitorTick,
       MonitorLoad, MonitorCancelled, Terminated, vars, loopVars

\* A page the queue calls completed was crawled without an error, unless the
\* runner has a limiter and its caller may cancel.
THEOREM CompletedWasCrawled ==
  ASSUME ~(RateLimited /\ Cancellable)
  PROVE  Spec => []CompletedMeansCrawled
<1> DEFINE Inv == CompletedMeansCrawled /\ (ctxDone => Cancellable)
<1>1. Init => Inv
  BY DEF Init, LoopInit, CompletedMeansCrawled
<1>2. IInv /\ Inv /\ [Next]_vars => Inv'
  <2> SUFFICES ASSUME IInv, Inv, [Next]_vars
               PROVE  Inv'
    OBVIOUS
  <2>1. ctxDone' => Cancellable
    BY DEF Next, WorkerStep, FetchRequest, QueueEmpty, ProcessRequest, WaitGranted, WaitCancelled,
       EnqueueLink, CrawlSucceeds, CrawlFails, Deactivate, Cancel, CloseWorkersDone, ReachSelect,
       Drained, MonitorTick, MonitorLoad, MonitorCancelled, Terminated, vars, loopVars
  <2>2. CASE \E w \in Workers : LoopStep(w, "head")
    BY <2>1, <2>2, LoopStepCompleted DEF IInv, AsyncTypeOK
  <2>3. CASE UNCHANGED <<queueVars, succeeded>>
    BY <2>1, <2>3 DEF queueVars, CompletedMeansCrawled
  <2> QED
    BY <2>1, <2>2, <2>3, LeavesMarksAlone
<1> QED
  BY <1>1, <1>2, Invariance, PTL DEF Spec

\* Nothing is ever fetched, queued or marked that the policy has not let through,
\* if the history counter counts at all.
THEOREM CrawlsOnlyPermitted ==
  ASSUME AttemptCap > 0
  PROVE  Spec => []OnlyPermittedPages
<1> DEFINE Inv == CrawlsItsPage /\ OnlyPermittedPages
<1>1. Init => Inv
  <2> SUFFICES ASSUME Init
               PROVE  Inv
    OBVIOUS
  <2>1. CrawlsItsPage
    BY DEF Init, LoopInit, CrawlsItsPage
  <2>2. \A k \in KnownKeys : \E s \in Seeds : normalizeURL[s] = k
    BY DEF Init, LoopInit, Seeded, KnownKeys, PendingKeys, HeldKeys
  <2> QED
    BY <2>1, <2>2 DEF OnlyPermittedPages, PermittedKey
<1>2. IInv /\ Inv /\ [Next]_vars => Inv'
  <2> SUFFICES ASSUME IInv, Inv, [Next]_vars
               PROVE  Inv'
    OBVIOUS
  <2>1. CASE \E w \in Workers : LoopStep(w, "head")
    BY <2>1, LoopStepPage, LoopStepPermitted DEF IInv, AsyncTypeOK
  <2>2. CASE UNCHANGED <<queueVars, pc, todo, attempts>>
    <3>1. KnownKeys' = KnownKeys
      BY <2>2 DEF queueVars, KnownKeys, PendingKeys, HeldKeys, UniqueKey
    <3> QED
      BY <2>2, <3>1 DEF queueVars, CrawlsItsPage, OnlyPermittedPages, PermittedKey, UniqueKey
  <2> QED
    BY <2>1, <2>2, LeavesMarksAlone
<1> QED
  BY <1>1, <1>2, Invariance, PTL DEF Spec

-----------------------------------------------------------------------------
(* What the runner keeps of the queue's promises.                           *)

\* IsEmpty and FetchNext never disagree about whether there is work.
THEOREM EmptyAgreesWithEOFInRun == Spec => []EmptyIsEOF
<1>1. IInv => EmptyIsEOF
  BY TypeAgrees DEF IInv, AsyncTypeOK
<1> QED
  BY <1>1, Invariance, PTL

LEMMA StepIsLoopOrQuiet ==
  ASSUME [Next]_vars
  PROVE  (\E w \in Workers : LoopStep(w, "head")) \/ QuietStep
BY LeavesMarksAlone DEF QuietStep

\* No page that a seed or a link made known is forgotten, whatever the workers,
\* the caller and the monitor do.
THEOREM ForgetsNoKeyInRun == Spec => NoKeyForgotten
<1>1. IInv /\ [Next]_vars => [KnownKeys \subseteq KnownKeys']_queueVars
  BY StepIsLoopOrQuiet, StepKnown DEF IInv, AsyncTypeOK
<1> QED
  BY <1>1, Invariance, PTL DEF Spec, NoKeyForgotten

LEMMA NextFresh ==
  ASSUME IInv, FreshInv, [Next]_vars, [AddsAreFresh]_vars
  PROVE  /\ FreshInv'
         /\ [QueueNextFresh]_queueVars
         /\ \A k \in visited : attempts'[k] = attempts[k]
<1>1. QuietStep \/ (AddsAreFresh /\ \E w \in Workers : LoopStep(w, "head"))
  BY StepIsLoopOrQuiet DEF vars, QuietStep, loopVars
<1> QED
  BY <1>1, StepIsFresh, FreshInvKept DEF IInv, AsyncTypeOK

\* In every run in which no link is enqueued while a worker has its page, the
\* queue keeps its contract, a failing page is crawled maxRetries times at most
\* and no crawl starts for a page that has been marked.
THEOREM FreshKeepsContract ==
  Spec /\ [][AddsAreFresh]_vars =>
    /\ []OnePlacePerKey /\ []DifferentUrlEach /\ []RetryBudget
    /\ NeverCrawledAgain /\ KeepsContract
<1>1. Init => FreshInv /\ Contract!ContractInit
  BY LoopInitFresh DEF Init
<1>2. IInv /\ FreshInv /\ [Next]_vars /\ [AddsAreFresh]_vars => FreshInv'
  BY NextFresh
<1>3. Spec /\ [][AddsAreFresh]_vars => []FreshInv
  BY <1>1, <1>2, Invariance, PTL DEF Spec
<1>4. IInv /\ FreshInv => OnePlacePerKey /\ DifferentUrlEach /\ RetryBudget
  BY BudgetKept DEF FreshInv, OnePlacePerKey, DifferentUrlEach, IInv, AsyncTypeOK
<1>5. IInv /\ FreshInv /\ [Next]_vars /\ [AddsAreFresh]_vars
        => [\A k \in visited : attempts'[k] = attempts[k]]_workerVars
  BY NextFresh
<1>6. IInv /\ FreshInv /\ IInv' /\ FreshInv' /\ [Next]_vars /\ [AddsAreFresh]_vars
        => [Contract!ContractNext]_(Contract!contractVars)
  BY NextFresh, StepKeepsContract DEF IInv, AsyncTypeOK, FreshInv
<1> QED
  BY <1>1, <1>3, <1>4, <1>5, <1>6, Invariance, PTL
     DEF Spec, NeverCrawledAgain, KeepsContract, Contract!ContractSpec

\* A run that nobody cancels is one of those, if each page of the site is a seed or
\* is linked once, from a page that does not fail.
LEMMA AddsStayFresh ==
  ASSUME FoundOnce, ~Cancellable
  PROVE  Spec => [][AddsAreFresh]_vars
<1> DEFINE Inv == ~ctxDone /\ OnePlacePerKey /\ LookedAtOnce
<1>1. Init => Inv
  BY LoopInitFresh, LoopInitLookedAt DEF Init, LoopInit, FreshInv
<1>2. IInv /\ Inv /\ [Next]_vars => Inv' /\ AddsAreFresh
  <2> SUFFICES ASSUME IInv, Inv, [Next]_vars
               PROVE  Inv' /\ AddsAreFresh
    OBVIOUS
  <2>1. ~ctxDone'
    BY DEF Next, WorkerStep, FetchRequest, QueueEmpty, ProcessRequest, WaitGranted, WaitCancelled,
       EnqueueLink, CrawlSucceeds, CrawlFails, Deactivate, Cancel, CloseWorkersDone, ReachSelect,
       Drained, MonitorTick, MonitorLoad, MonitorCancelled, Terminated, vars, loopVars
  <2> QED
    BY <2>1, StepIsLoopOrQuiet, LookedAtKept DEF IInv, AsyncTypeOK
<1> QED
  BY <1>1, <1>2, Invariance, PTL DEF Spec

\* On such a site the retry budget and the contract hold of every run.
THEOREM TreeKeepsContract ==
  ASSUME FoundOnce, ~Cancellable
  PROVE  Spec => /\ []OnePlacePerKey /\ []DifferentUrlEach /\ []RetryBudget
                 /\ NeverCrawledAgain /\ KeepsContract
BY AddsStayFresh, FreshKeepsContract, PTL
=============================================================================
