--------------------------- MODULE AdaptiveRunner ---------------------------
(***************************************************************************)
(* runner.AdaptiveRunner.Run over a MemoryQueue: workers that poll a stop  *)
(* channel and their context before each fetch, a scaling goroutine that   *)
(* starts a worker when memory is low and sends a stop token when it is    *)
(* high, the monitor, the goroutine that waits for the workers, and Run.   *)
(*                                                                         *)
(* Memory is the environment: at any tick it may be low, high or between   *)
(* the two thresholds, when adjustWorkers changes nothing.  Ticks are      *)
(* seconds apart in the code, so that only finitely many of them change    *)
(* something in one crawl: MaxAdjustments bounds them.                     *)
(***************************************************************************)
EXTENDS WorkerLoop

CONSTANTS MinWorkersOption,  \* what NewAdaptiveRunner is given
          MaxWorkersOption,
          MaxAdjustments,    \* bound on the ticks that change the worker count
          Cancellable        \* the caller may cancel the context it passed to Run

minWorkers == IF MinWorkersOption = 0 THEN 2 ELSE MinWorkersOption
maxWorkers == IF MaxWorkersOption <= minWorkers THEN minWorkers + 1 ELSE MaxWorkersOption

ASSUME OptionsAssumption == MinWorkersOption \in Nat /\ MaxWorkersOption \in Nat
ASSUME AdjustmentsAssumption == MaxAdjustments \in Nat /\ Cancellable \in BOOLEAN
\* A goroutine is one of Workers, enough of them for those alive at a time: the
\* counter bounds the adjustments that go up by those that go down.
ASSUME SlotsAssumption ==
  /\ IsFiniteSet(Workers)
  /\ Cardinality(Workers) >=
       minWorkers + (MaxAdjustments + maxWorkers - minWorkers) \div 2

VARIABLES currentWorkers,  \* the counter that adjustWorkers compares and changes
          stopTokens,      \* stop tokens in the buffered channel
          lost,            \* history: tokens dropped because the buffer was full
          stopped,         \* history: some worker has taken a token
          scaling,         \* the scaling goroutine: "ticker" or "exited"
          adjustments,     \* bound: adjustments so far
          waiter,          \* the goroutine in workerWg.Wait
          main, result,    \* Run's goroutine, and what Run returned
          monitor,         \* the monitor goroutine, and ...
          seenEmpty        \* ... what its IsEmpty call answered

scaleVars == <<currentWorkers, stopTokens, lost, stopped, scaling, adjustments>>
runVars == <<waiter, main, result>>
monitorVars == <<monitor, seenEmpty>>
vars == <<queueVars, loopVars, scaleVars, runVars, monitorVars>>

\* The goroutines that workerWg counts.
Alive == {w \in Workers : pc[w] \notin {"idle", "done"}}

Init ==
  /\ \E first \in SUBSET Workers :
       /\ Cardinality(first) = minWorkers
       /\ LoopInit([w \in Workers |-> IF w \in first THEN "head" ELSE "idle"])
  /\ currentWorkers = minWorkers
  /\ stopTokens = 0 /\ lost = 0 /\ stopped = FALSE
  /\ scaling = "ticker" /\ adjustments = 0
  /\ waiter = "start"
  /\ main = "spawn" /\ result = "none"
  /\ monitor = "ticker" /\ seenEmpty = FALSE
-----------------------------------------------------------------------------
\* The select at the head of a worker's loop.  A worker that finds a token and
\* the context done takes either way out; it goes on when it finds neither.
PollStop(w) ==
  /\ pc[w] = "head"
  /\ stopTokens > 0
  /\ stopTokens' = stopTokens - 1
  /\ stopped' = TRUE
  /\ Goto(w, "done")
  /\ UNCHANGED <<queueVars, todo, activeWorkers, ctxDone, attempts, succeeded>>

PollCancelled(w) ==
  /\ pc[w] = "head"
  /\ ctxDone
  /\ Goto(w, "done")
  /\ UNCHANGED <<queueVars, todo, activeWorkers, ctxDone, attempts, succeeded,
                 stopTokens, stopped>>

PollNeither(w) ==
  /\ pc[w] = "head"
  /\ stopTokens = 0 /\ ~ctxDone
  /\ Goto(w, "fetch")
  /\ UNCHANGED <<queueVars, todo, activeWorkers, ctxDone, attempts, succeeded,
                 stopTokens, stopped>>

FetchOrProcess(w) ==
  /\ \/ \E k \in Keys : FetchRequest(w, k, "fetch")
     \/ QueueEmpty(w, "fetch")
     \/ ProcessRequest(w)
  /\ UNCHANGED <<stopTokens, stopped>>

\* The last worker to end brings workerWg to zero, which releases the waiter.
WorkerStep(w) ==
  /\ PollStop(w) \/ PollCancelled(w) \/ PollNeither(w) \/ FetchOrProcess(w)
  /\ waiter' = IF waiter = "parked" /\ Alive' = {} THEN "released" ELSE waiter
  /\ UNCHANGED <<currentWorkers, lost, scaling, adjustments, main, result, monitorVars>>

\* adjustWorkers with memory below the lower threshold.
ScaleUp(w) ==
  /\ scaling = "ticker" /\ adjustments < MaxAdjustments
  /\ currentWorkers < maxWorkers
  /\ pc[w] \in {"idle", "done"}
  /\ currentWorkers' = currentWorkers + 1
  /\ Goto(w, "head")
  /\ adjustments' = adjustments + 1
  /\ UNCHANGED <<queueVars, todo, activeWorkers, ctxDone, attempts, succeeded,
                 stopTokens, lost, stopped, scaling, runVars, monitorVars>>

\* A mutant of ScaleDown: the counter goes down and no token is sent.
ScaleDown_NoToken ==
  /\ scaling = "ticker" /\ adjustments < MaxAdjustments
  /\ currentWorkers > minWorkers
  /\ currentWorkers' = currentWorkers - 1
  /\ adjustments' = adjustments + 1
  /\ UNCHANGED <<queueVars, loopVars, stopTokens, lost, stopped, scaling, runVars, monitorVars>>

\* adjustWorkers with memory above the upper threshold: the token is dropped if
\* the channel's buffer is full, and the counter goes down all the same.
ScaleDown ==
  /\ scaling = "ticker" /\ adjustments < MaxAdjustments
  /\ currentWorkers > minWorkers
  /\ currentWorkers' = currentWorkers - 1
  /\ IF stopTokens < maxWorkers
     THEN stopTokens' = stopTokens + 1 /\ UNCHANGED lost
     ELSE lost' = lost + 1 /\ UNCHANGED stopTokens
  /\ adjustments' = adjustments + 1
  /\ UNCHANGED <<queueVars, loopVars, stopped, scaling, runVars, monitorVars>>

\* A mutant of ScalingCancelled: its break leaves the select and not the loop.
ScalingCancelled_Break ==
  /\ scaling = "ticker" /\ ctxDone
  /\ UNCHANGED vars

\* Only the context ends the scaling goroutine: it goes on when Run has returned.
ScalingCancelled ==
  /\ scaling = "ticker" /\ ctxDone
  /\ scaling' = "exited"
  /\ UNCHANGED <<queueVars, loopVars, currentWorkers, stopTokens, lost, stopped,
                 adjustments, runVars, monitorVars>>
-----------------------------------------------------------------------------
Cancel ==
  /\ Cancellable /\ ~ctxDone
  /\ ctxDone' = TRUE
  /\ main' = IF main = "select" THEN "drain" ELSE main
  /\ UNCHANGED <<queueVars, pc, todo, activeWorkers, attempts, succeeded,
                 scaleVars, waiter, result, monitorVars>>

\* workersDone is closed, and Run returns if it is parked in its select.
Close ==
  /\ waiter' = "closed"
  /\ IF main = "select" THEN main' = "returned" /\ result' = "nil"
                        ELSE UNCHANGED <<main, result>>

\* workerWg.Wait is called: it returns at once when no worker is left.
WaiterStarts ==
  /\ waiter = "start"
  /\ IF Alive = {} THEN Close ELSE waiter' = "parked" /\ UNCHANGED <<main, result>>
  /\ UNCHANGED <<queueVars, loopVars, scaleVars, monitorVars>>

\* The released waiter runs.  A worker started since makes sync.WaitGroup panic:
\* it was reused before Wait has returned.
WaiterWakes ==
  /\ waiter = "released"
  /\ IF Alive = {} THEN Close ELSE main' = "panicked" /\ UNCHANGED <<waiter, result>>
  /\ UNCHANGED <<queueVars, loopVars, scaleVars, monitorVars>>

ReachSelect ==
  /\ main = "spawn"
  /\ \/ waiter # "closed" /\ ~ctxDone /\ main' = "select" /\ UNCHANGED result
     \/ waiter = "closed" /\ main' = "returned" /\ result' = "nil"
     \/ ctxDone /\ main' = "drain" /\ UNCHANGED result
  /\ UNCHANGED <<queueVars, loopVars, scaleVars, waiter, monitorVars>>

\* A mutant of Drained: Run does not wait for its workers.
Drained_NoWait ==
  /\ main = "drain"
  /\ main' = "returned" /\ result' = "canceled"
  /\ UNCHANGED <<queueVars, loopVars, scaleVars, waiter, monitorVars>>

Drained ==
  /\ main = "drain"
  /\ waiter = "closed"
  /\ main' = "returned" /\ result' = "canceled"
  /\ UNCHANGED <<queueVars, loopVars, scaleVars, waiter, monitorVars>>

\* The monitor reads the queue, then the counter; it ends when both say that
\* nothing is left, or with the context.
MonitorTick ==
  /\ monitor = "ticker"
  /\ monitor' = "load" /\ seenEmpty' = IsEmpty
  /\ UNCHANGED <<queueVars, loopVars, scaleVars, runVars>>

MonitorLoad ==
  /\ monitor = "load"
  /\ monitor' = IF seenEmpty /\ activeWorkers = 0 THEN "exited" ELSE "ticker"
  /\ seenEmpty' = FALSE
  /\ UNCHANGED <<queueVars, loopVars, scaleVars, runVars>>

MonitorCancelled ==
  /\ monitor = "ticker" /\ ctxDone
  /\ monitor' = "exited"
  /\ UNCHANGED <<queueVars, loopVars, scaleVars, runVars, seenEmpty>>

Terminated ==
  /\ main = "panicked" \/ (main = "returned" /\ Alive = {} /\ monitor = "exited")
  /\ UNCHANGED vars

Next ==
  \/ /\ main # "panicked"
     /\ \/ \E w \in Workers : WorkerStep(w) \/ ScaleUp(w)
        \/ ScaleDown \/ ScalingCancelled
        \/ Cancel \/ WaiterStarts \/ WaiterWakes
        \/ ReachSelect \/ Drained
        \/ MonitorTick \/ MonitorLoad \/ MonitorCancelled
  \/ Terminated

Spec == Init /\ [][Next]_vars

\* Every goroutine that can run does, and a ctx.Done() that competes with a slow
\* ticker is served in the end.  Memory need not call for any adjustment.
Running(A) == main # "panicked" /\ A

Fairness ==
  /\ \A w \in Workers : WF_vars(Running(WorkerStep(w)))
  /\ WF_vars(Running(WaiterStarts))
  /\ WF_vars(Running(WaiterWakes))
  /\ WF_vars(Running(ReachSelect))
  /\ WF_vars(Running(Drained))
  /\ WF_vars(Running(MonitorTick))
  /\ WF_vars(Running(MonitorLoad))
  /\ SF_vars(Running(MonitorCancelled))
  /\ SF_vars(Running(ScalingCancelled))

FairSpec == Spec /\ Fairness
-----------------------------------------------------------------------------
TypeOK ==
  /\ QueueTypeOK
  /\ LoopTypeOK
  /\ currentWorkers \in minWorkers .. maxWorkers
  /\ stopTokens \in 0 .. maxWorkers
  /\ lost \in Nat
  /\ stopped \in BOOLEAN
  /\ scaling \in {"ticker", "exited"}
  /\ adjustments \in 0 .. MaxAdjustments
  /\ waiter \in {"start", "parked", "released", "closed"}
  /\ main \in {"spawn", "select", "drain", "returned", "panicked"}
  /\ result \in {"none", "nil", "canceled"}
  /\ monitor \in {"ticker", "load", "exited"}
  /\ seenEmpty \in BOOLEAN

\* The goroutines beyond currentWorkers are those whose stop token nobody has
\* taken yet, or was dropped: nothing else starts a worker too many.
SurplusIsOwedToTokens ==
  Cardinality(Alive) <= currentWorkers + stopTokens + lost

\* When Run returns nil, nothing is left in the queue and no discovered page was
\* lost, unless a worker took a stop token or the context was cancelled.
NoWorkAbandoned ==
  result = "nil" => (IsEmpty /\ Complete) \/ stopped \/ ctxDone

\* The rest of the inductive invariant: work left has a worker left, ...
SomeoneServes == IsEmpty \/ Alive # {} \/ stopped \/ ctxDone

\* ... a worker that is started after the others have ended finds nothing, or ends
\* at its first look at the context, ...
ClosedQuiet ==
  waiter = "closed" /\ ~stopped =>
    /\ \A w \in Workers : pc[w] \in {"idle", "head", "fetch", "done"}
    /\ IsEmpty \/ (ctxDone /\ \A w \in Workers : pc[w] # "fetch")

\* ... and Run returns after its workers.
ReturnsLast == result # "none" => waiter = "closed"

IInv ==
  /\ TypeOK /\ BusyWorkersHold /\ DiscoveriesKnown
  /\ SurplusIsOwedToTokens /\ SomeoneServes /\ ClosedQuiet /\ ReturnsLast

\* Once Run has returned, the workers that the scaling goroutine goes on starting
\* leave the queue alone, unless a stop token made a worker leave work behind.
QuietAfterReturn ==
  [][result # "none" /\ ~stopped => UNCHANGED queueVars]_vars

\* Run ends, by a return or by the WaitGroup's panic, however the worker count
\* is adjusted on the way.
Termination == <>(result # "none" \/ main = "panicked")

\* A cancelled context ends every goroutine that Run has started.
CancelEndsAll ==
  ctxDone ~> \/ Alive = {} /\ scaling = "exited" /\ monitor = "exited"
             \/ main = "panicked"

\* The number of workers stays within the maximum.
WithinMaxWorkers == Cardinality(Alive) <= maxWorkers
=============================================================================
