---------------------------- MODULE AsyncRunner ----------------------------
(***************************************************************************)
(* runner.AsyncRunner.Run over a MemoryQueue: a fixed set of workers, the  *)
(* goroutine that closes workersDone when the last of them ends, the       *)
(* monitor that watches the queue and the active counter, and Run itself,  *)
(* which waits for whichever of workersDone and ctx.Done() comes first.    *)
(***************************************************************************)
EXTENDS WorkerLoop

CONSTANT Cancellable  \* the caller may cancel the context it passed to Run

ASSUME CancellableAssumption == Cancellable \in BOOLEAN
ASSUME WorkersAssumption == IsFiniteSet(Workers) /\ Workers # {}

VARIABLES main,         \* Run's goroutine: before, in, or past its select
          result,       \* what Run returned
          workersDone,  \* the channel is closed
          monitor,      \* the monitor: waiting for its ticker, between its two
                        \* reads, or ended
          seenEmpty     \* what its IsEmpty call answered

runVars == <<main, result, workersDone, monitor, seenEmpty>>
vars == <<queueVars, loopVars, runVars>>

AsyncTypeOK ==
  /\ QueueTypeOK
  /\ LoopTypeOK
  /\ main \in {"spawn", "select", "drain", "returned"}
  /\ result \in {"none", "nil", "canceled"}
  /\ workersDone \in BOOLEAN
  /\ monitor \in {"ticker", "load", "exited"}
  /\ seenEmpty \in BOOLEAN

Init ==
  /\ LoopInit([w \in Workers |-> "head"])
  /\ main = "spawn"
  /\ result = "none"
  /\ workersDone = FALSE
  /\ monitor = "ticker"
  /\ seenEmpty = FALSE

Return(r) == main' = "returned" /\ result' = r
-----------------------------------------------------------------------------
\* A mutant of a worker's step: it also ends when the context is cancelled.
WorkerStep_StopsOnCancel(w) ==
  /\ \/ \E k \in Keys : FetchRequest(w, k, "head")
     \/ QueueEmpty(w, "head")
     \/ /\ ctxDone /\ pc[w] = "head"
        /\ Goto(w, "done")
        /\ UNCHANGED <<queueVars, todo, activeWorkers, ctxDone, attempts, succeeded>>
     \/ ProcessRequest(w)
  /\ UNCHANGED runVars

WorkerStep(w) ==
  /\ \/ \E k \in Keys : FetchRequest(w, k, "head")
     \/ QueueEmpty(w, "head")
     \/ ProcessRequest(w)
  /\ UNCHANGED runVars

\* The caller cancels the context; Run wakes if it is parked in its select.
Cancel ==
  /\ Cancellable /\ ~ctxDone
  /\ ctxDone' = TRUE
  /\ main' = IF main = "select" THEN "drain" ELSE main
  /\ UNCHANGED <<queueVars, pc, todo, activeWorkers, attempts, succeeded,
                 result, workersDone, monitor, seenEmpty>>

\* wg.Wait() returned: workersDone is closed, and Run returns if it is parked.
CloseWorkersDone ==
  /\ ~workersDone
  /\ \A w \in Workers : pc[w] = "done"
  /\ workersDone' = TRUE
  /\ IF main = "select" THEN Return("nil") ELSE UNCHANGED <<main, result>>
  /\ UNCHANGED <<queueVars, loopVars, monitor, seenEmpty>>

\* Run reaches its select: it parks if no channel is ready, and picks any of
\* those that are.
ReachSelect ==
  /\ main = "spawn"
  /\ \/ ~workersDone /\ ~ctxDone /\ main' = "select" /\ UNCHANGED result
     \/ workersDone /\ Return("nil")
     \/ ctxDone /\ main' = "drain" /\ UNCHANGED result
  /\ UNCHANGED <<queueVars, loopVars, workersDone, monitor, seenEmpty>>

\* A mutant of Drained: Run does not wait for its workers.
Drained_NoWait ==
  /\ main = "drain"
  /\ Return("canceled")
  /\ UNCHANGED <<queueVars, loopVars, workersDone, monitor, seenEmpty>>

Drained ==
  /\ main = "drain"
  /\ workersDone
  /\ Return("canceled")
  /\ UNCHANGED <<queueVars, loopVars, workersDone, monitor, seenEmpty>>

\* The monitor's ticker fired: it asks the queue ...
MonitorTick ==
  /\ monitor = "ticker"
  /\ monitor' = "load"
  /\ seenEmpty' = IsEmpty
  /\ UNCHANGED <<queueVars, loopVars, main, result, workersDone>>

\* ... and then reads the counter, and ends if both say there is nothing left.
MonitorLoad ==
  /\ monitor = "load"
  /\ monitor' = IF seenEmpty /\ activeWorkers = 0 THEN "exited" ELSE "ticker"
  /\ seenEmpty' = FALSE
  /\ UNCHANGED <<queueVars, loopVars, main, result, workersDone>>

MonitorCancelled ==
  /\ monitor = "ticker"
  /\ ctxDone
  /\ monitor' = "exited"
  /\ UNCHANGED <<queueVars, loopVars, main, result, workersDone, seenEmpty>>

\* Everything has ended: not a deadlock.
Terminated ==
  /\ main = "returned" /\ monitor = "exited"
  /\ UNCHANGED vars

Next ==
  \/ \E w \in Workers : WorkerStep(w)
  \/ Cancel \/ CloseWorkersDone
  \/ ReachSelect \/ Drained
  \/ MonitorTick \/ MonitorLoad \/ MonitorCancelled
  \/ Terminated

Spec == Init /\ [][Next]_vars

\* Every goroutine that can run does; a crawl and a limiter's Wait end; and of
\* the monitor's two channels ctx.Done() is served in the end, its ticker being
\* ready only twice a second.  Nobody need cancel the context.
Fairness ==
  /\ \A w \in Workers : WF_vars(WorkerStep(w))
  /\ WF_vars(CloseWorkersDone)
  /\ WF_vars(ReachSelect)
  /\ WF_vars(Drained)
  /\ WF_vars(MonitorTick)
  /\ WF_vars(MonitorLoad)
  /\ SF_vars(MonitorCancelled)

FairSpec == Spec /\ Fairness
-----------------------------------------------------------------------------
\* When Run returns nil there is nothing left in the queue, unless a cancelled
\* rate limiter made the workers give up.
NoWorkAbandoned ==
  result = "nil" => IsEmpty \/ (RateLimited /\ ctxDone)

\* When Run returns nil the crawl is complete, unless a cancelled rate limiter
\* made the workers give up: no discovered page was lost on the way.
CrawlComplete ==
  result = "nil" => Complete \/ (RateLimited /\ ctxDone)

\* Part of the inductive invariant behind the two: work left has a worker left.
SomeoneServes ==
  IsEmpty \/ (\E w \in Workers : pc[w] # "done") \/ (RateLimited /\ ctxDone)

ReturnsLast ==
  /\ workersDone => \A w \in Workers : pc[w] = "done"
  /\ result # "none" => workersDone

IInv == AsyncTypeOK /\ BusyWorkersHold /\ SomeoneServes /\ DiscoveriesKnown /\ ReturnsLast

\* Once Run has returned, nothing touches the queue any more.
QuietAfterReturn == [][result # "none" => UNCHANGED queueVars]_vars

\* Run ends of itself, nobody cancelling it, although workers leave one by one on
\* an empty queue, come back for links, and retry what fails: on a site whose
\* pages are each found once.  On one with a cycle, pages that fail and are added
\* again while they are crawled can keep two workers busy for ever.
Termination == <>(result # "none")

\* Run leaves no goroutine behind: its monitor ends too.
MonitorEnds == result # "none" ~> monitor = "exited"
=============================================================================
