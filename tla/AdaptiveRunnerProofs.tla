------------------------ MODULE AdaptiveRunnerProofs ------------------------
(* What holds of AdaptiveRunner.Run however memory makes it change its      *)
(* number of workers: for any limits of that number, any number of          *)
(* adjustments, any site, link policy and retry limit.                      *)
EXTENDS AdaptiveRunner, WorkerLoopProofs

LEMMA WorkerLimits ==
  minWorkers \in Nat /\ maxWorkers \in Nat /\ minWorkers <= maxWorkers
BY OptionsAssumption DEF minWorkers, maxWorkers

LEMMA WorkersFinite == IsFiniteSet(Workers)
BY SlotsAssumption

\* A step that leaves every worker but one as it is adds or removes that one.
LEMMA AliveChange ==
  ASSUME LoopTypeOK, NEW w \in Workers, \A v \in Workers \ {w} : pc'[v] = pc[v]
  PROVE  /\ Cardinality(Alive) \in Nat /\ Cardinality(Alive') \in Nat
         /\ pc[w] \in {"idle", "done"} <=> w \notin Alive
         /\ pc'[w] \in {"idle", "done"} <=> w \notin Alive'
         /\ w \in Alive <=> w \in Alive' => Alive' = Alive
         /\ w \in Alive /\ w \notin Alive' => Cardinality(Alive') = Cardinality(Alive) - 1
         /\ w \notin Alive /\ w \in Alive' => Cardinality(Alive') = Cardinality(Alive) + 1
<1>1. Alive \in SUBSET Workers /\ Alive' \in SUBSET Workers
  BY DEF Alive
<1>2. \A v \in Workers \ {w} : v \in Alive' <=> v \in Alive
  BY DEF Alive
<1>3. (pc[w] \in {"idle", "done"} <=> w \notin Alive)
      /\ (pc'[w] \in {"idle", "done"} <=> w \notin Alive')
  BY DEF Alive
<1>4. w \in Alive /\ w \notin Alive' => Alive' = Alive \ {w}
  BY <1>1, <1>2
<1>5. w \notin Alive /\ w \in Alive' => Alive' = Alive \cup {w}
  BY <1>1, <1>2
<1>6. (w \in Alive <=> w \in Alive') => Alive' = Alive
  BY <1>1, <1>2
<1> QED
  BY <1>1, <1>3, <1>4, <1>5, <1>6, WorkersFinite, CountChange

LEMMA CountersAreNatural ==
  ASSUME IInv
  PROVE  Cardinality(Alive) \in Nat /\ currentWorkers \in Nat /\ stopTokens \in Nat /\ lost \in Nat
<1>1. Cardinality(Alive) \in Nat
  <2>1. Alive \in SUBSET Workers
    BY DEF Alive
  <2>2. IsFiniteSet(Alive)
    BY <2>1, WorkersFinite, FS_Subset
  <2> QED
    BY <2>2, FS_CardinalityType
<1>2. currentWorkers \in minWorkers .. maxWorkers /\ stopTokens \in 0 .. maxWorkers /\ lost \in Nat
  BY DEF IInv, TypeOK
<1> QED
  BY <1>1, <1>2, WorkerLimits

-----------------------------------------------------------------------------
(* The steps of a worker.                                                   *)

Poll(w) == PollStop(w) \/ PollCancelled(w) \/ PollNeither(w)

LEMMA PollLoop ==
  ASSUME IInv, NEW w \in Workers, Poll(w)
  PROVE  QueueTypeOK' /\ LoopTypeOK' /\ BusyWorkersHold' /\ DiscoveriesKnown'
<1>1. /\ UNCHANGED <<queueVars, todo, activeWorkers, ctxDone, attempts, succeeded>>
      /\ pc[w] = "head" /\ pc' = [pc EXCEPT ![w] = pc'[w]] /\ pc'[w] \in {"done", "fetch"}
  BY DEF Poll, PollStop, PollCancelled, PollNeither, Goto, IInv, TypeOK, LoopTypeOK
<1>2. QueueTypeOK' /\ KnownKeys' = KnownKeys
  BY <1>1 DEF queueVars, QueueTypeOK, UniqueKey, KnownKeys, PendingKeys, HeldKeys, IInv, TypeOK
<1>3. Crawling' = Crawling
  BY <1>1 DEF Crawling, IInv, TypeOK, LoopTypeOK
<1>4. LoopTypeOK'
  BY <1>1, <1>3 DEF LoopTypeOK, IInv, TypeOK
<1>5. BusyWorkersHold'
  BY <1>1 DEF queueVars, BusyWorkersHold, IInv, TypeOK, LoopTypeOK
<1>6. DiscoveriesKnown'
  BY <1>1, <1>2 DEF queueVars, DiscoveriesKnown, AllKnown, PermittedLinks, IInv, TypeOK, LoopTypeOK
<1> QED
  BY <1>2, <1>4, <1>5, <1>6

LEMMA WorkerStepLoop ==
  ASSUME IInv, NEW w \in Workers, WorkerStep(w)
  PROVE  QueueTypeOK' /\ LoopTypeOK' /\ BusyWorkersHold' /\ DiscoveriesKnown'
<1>1. CASE Poll(w)
  BY <1>1, PollLoop
<1>2. CASE LoopStep(w, "fetch")
  BY <1>2, WorkersFinite, LoopStepQueueType, LoopStepLoopType, LoopStepBusy, LoopStepDiscoveries
     DEF IInv, TypeOK
<1> QED
  BY <1>1, <1>2 DEF WorkerStep, FetchOrProcess, Poll, LoopStep

\* Where a worker's step takes it, and what it takes with it.
LEMMA WorkerStepMoves ==
  ASSUME IInv, NEW w \in Workers, WorkerStep(w)
  PROVE  /\ pc[w] \notin {"idle", "done"} /\ pc'[w] # "idle"
         /\ \A v \in Workers \ {w} : pc'[v] = pc[v]
         /\ ctxDone' = ctxDone
         /\ \/ PollStop(w)
            \/ UNCHANGED <<stopTokens, stopped>>
<1>1. IInv => pc \in [Workers -> {"idle", "head", "fetch", "wait", "crawl", "deactivate", "done"}]
  BY DEF IInv, TypeOK, LoopTypeOK
<1> QED
  BY <1>1 DEF WorkerStep, FetchOrProcess, PollStop, PollCancelled, PollNeither, FetchRequest,
     QueueEmpty, ProcessRequest, WaitGranted, WaitCancelled, EnqueueLink, CrawlSucceeds,
     CrawlFails, Deactivate, Goto

\* A worker ends for one of four reasons.
LEMMA WorkerStepServes ==
  ASSUME IInv, NEW w \in Workers, WorkerStep(w)
  PROVE  SomeoneServes'
<1>1. CASE pc'[w] # "done"
  BY <1>1, WorkerStepMoves DEF SomeoneServes, Alive
<1>2. CASE pc'[w] = "done"
  <2>1. PollStop(w) \/ PollCancelled(w) \/ QueueEmpty(w, "fetch") \/ WaitCancelled(w)
    BY <1>2 DEF WorkerStep, FetchOrProcess, PollNeither, FetchRequest, ProcessRequest, WaitGranted,
       EnqueueLink, CrawlSucceeds, CrawlFails, Deactivate, Goto, IInv, TypeOK, LoopTypeOK
  <2>2. CASE QueueEmpty(w, "fetch")
    <3>1. PendingKeys = {}
      BY <2>2, MaxRetriesPositive
         DEF QueueEmpty, NothingToFetch, PendingKeys, QueueTypeOK, Request, IInv, TypeOK
    <3> QED
      BY <2>2, <3>1 DEF QueueEmpty, queueVars, PendingKeys, IsEmpty, SomeoneServes
  <2>3. CASE PollStop(w)
    BY <2>3 DEF PollStop, SomeoneServes
  <2>4. CASE PollCancelled(w) \/ WaitCancelled(w)
    BY <2>4 DEF PollCancelled, WaitCancelled, SomeoneServes
  <2> QED
    BY <2>1, <2>2, <2>3, <2>4
<1> QED
  BY <1>1, <1>2

LEMMA WorkerStepSurplus ==
  ASSUME IInv, NEW w \in Workers, WorkerStep(w)
  PROVE  SurplusIsOwedToTokens'
<1>1. Cardinality(Alive) \in Nat /\ currentWorkers \in Nat /\ stopTokens \in Nat /\ lost \in Nat
  BY CountersAreNatural
<1>2. UNCHANGED <<currentWorkers, lost>>
  BY DEF WorkerStep
<1>3. w \in Alive
  BY WorkerStepMoves DEF Alive
<1>4. CASE PollStop(w)
  <2>1. stopTokens > 0 /\ stopTokens' = stopTokens - 1 /\ pc'[w] = "done"
    BY <1>4 DEF PollStop, Goto, IInv, TypeOK, LoopTypeOK
  <2>2. w \notin Alive'
    BY <2>1 DEF Alive
  <2>3. Cardinality(Alive') = Cardinality(Alive) - 1
    BY <1>3, <2>2, WorkerStepMoves, AliveChange DEF IInv, TypeOK
  <2> QED
    BY <1>1, <1>2, <2>1, <2>3 DEF IInv, SurplusIsOwedToTokens
<1>5. CASE stopTokens' = stopTokens
  <2>1. Cardinality(Alive') <= Cardinality(Alive)
    BY <1>1, <1>3, WorkerStepMoves, AliveChange DEF IInv, TypeOK
  <2>2. Cardinality(Alive') \in Nat
    BY WorkerStepMoves, AliveChange DEF IInv, TypeOK
  <2> QED
    BY <1>1, <1>2, <1>5, <2>1, <2>2 DEF IInv, SurplusIsOwedToTokens
<1> QED
  BY <1>4, <1>5, WorkerStepMoves

\* A worker that was started late leaves the queue alone.
LEMMA LateWorker ==
  ASSUME IInv, waiter = "closed", ~stopped, NEW w \in Workers, WorkerStep(w)
  PROVE  /\ UNCHANGED queueVars
         /\ pc'[w] \in {"fetch", "done"}
         /\ pc'[w] = "fetch" => ~ctxDone
<1>1. /\ pc[w] \in {"idle", "head", "fetch", "done"}
      /\ IsEmpty \/ (ctxDone /\ pc[w] # "fetch")
  BY DEF IInv, ClosedQuiet
<1>2. ASSUME NEW k \in Keys, FetchRequest(w, k, "fetch")
      PROVE  FALSE
  BY <1>1, <1>2 DEF FetchRequest, FetchNext, IsEmpty, PendingKeys
<1>3. ~ProcessRequest(w)
  BY <1>1 DEF ProcessRequest, WaitGranted, WaitCancelled, EnqueueLink, CrawlSucceeds, CrawlFails,
     Deactivate
<1>4. PollStop(w) \/ PollCancelled(w) \/ PollNeither(w) \/ QueueEmpty(w, "fetch")
  BY <1>2, <1>3 DEF WorkerStep, FetchOrProcess
<1> QED
  BY <1>4 DEF PollStop, PollCancelled, PollNeither, QueueEmpty, Goto, IInv, TypeOK, LoopTypeOK

LEMMA WorkerStepClosed ==
  ASSUME IInv, NEW w \in Workers, WorkerStep(w)
  PROVE  ClosedQuiet'
<1> SUFFICES ASSUME waiter' = "closed", ~stopped'
             PROVE  ClosedQuiet'
  BY DEF ClosedQuiet
<1>1. waiter = "closed"
  BY DEF WorkerStep
<1>2. ~stopped
  BY WorkerStepMoves DEF PollStop
<1>3. /\ UNCHANGED queueVars /\ pc'[w] \in {"fetch", "done"}
      /\ pc'[w] = "fetch" => ~ctxDone
  BY <1>1, <1>2, LateWorker
<1>4. IsEmpty' <=> IsEmpty
  BY <1>3 DEF queueVars, IsEmpty, PendingKeys
<1>5. /\ \A v \in Workers \ {w} : pc'[v] = pc[v]
      /\ ctxDone' = ctxDone
  BY WorkerStepMoves
<1>6. /\ \A v \in Workers : pc[v] \in {"idle", "head", "fetch", "done"}
      /\ IsEmpty \/ (ctxDone /\ \A v \in Workers : pc[v] # "fetch")
  BY <1>1, <1>2 DEF IInv, ClosedQuiet
<1>7. \A v \in Workers : pc'[v] \in {"idle", "head", "fetch", "done"}
  BY <1>3, <1>5, <1>6
<1>8. IsEmpty' \/ (ctxDone' /\ \A v \in Workers : pc'[v] # "fetch")
  BY <1>3, <1>4, <1>5, <1>6
<1> QED
  BY <1>7, <1>8 DEF ClosedQuiet

LEMMA WorkerStepInv ==
  ASSUME IInv, NEW w \in Workers, WorkerStep(w)
  PROVE  IInv'
<1>1. QueueTypeOK' /\ LoopTypeOK' /\ BusyWorkersHold' /\ DiscoveriesKnown'
  BY WorkerStepLoop
<1>2. /\ UNCHANGED <<currentWorkers, lost, scaling, adjustments, main, result, monitorVars>>
      /\ waiter' \in {waiter, "released"}
      /\ waiter = "closed" => waiter' = "closed"
  BY DEF WorkerStep
<1>3. stopTokens' \in 0 .. maxWorkers /\ stopped' \in BOOLEAN
  <2>1. stopTokens \in 0 .. maxWorkers /\ stopped \in BOOLEAN
    BY DEF IInv, TypeOK
  <2>2. \/ stopTokens > 0 /\ stopTokens' = stopTokens - 1 /\ stopped' = TRUE
        \/ stopTokens' = stopTokens /\ stopped' = stopped
    BY WorkerStepMoves DEF PollStop
  <2>3. stopTokens' \in 0 .. maxWorkers
    BY <2>1, <2>2, WorkerLimits
  <2>4. stopped' \in BOOLEAN
    BY <2>1, <2>2, Zenon
  <2> QED
    BY <2>3, <2>4
<1>4. TypeOK'
  BY <1>1, <1>2, <1>3 DEF IInv, TypeOK, monitorVars
<1>5. ReturnsLast'
  BY <1>2 DEF IInv, ReturnsLast
<1> QED
  BY <1>1, <1>4, <1>5, WorkerStepSurplus, WorkerStepServes, WorkerStepClosed DEF IInv

-----------------------------------------------------------------------------
(* The steps of everybody else.                                             *)

LEMMA ScaleUpInv ==
  ASSUME IInv, NEW w \in Workers, ScaleUp(w)
  PROVE  IInv'
<1>1. /\ pc[w] \in {"idle", "done"} /\ pc' = [pc EXCEPT ![w] = "head"]
      /\ currentWorkers < maxWorkers /\ currentWorkers' = currentWorkers + 1
      /\ adjustments < MaxAdjustments /\ adjustments' = adjustments + 1
      /\ UNCHANGED <<queueVars, todo, activeWorkers, ctxDone, attempts, succeeded,
                     stopTokens, lost, stopped, scaling, runVars, monitorVars>>
  BY DEF ScaleUp, Goto
<1>2. pc'[w] = "head" /\ \A v \in Workers \ {w} : pc'[v] = pc[v]
  BY <1>1 DEF IInv, TypeOK, LoopTypeOK
<1>3. QueueTypeOK' /\ KnownKeys' = KnownKeys /\ (IsEmpty' <=> IsEmpty)
  BY <1>1 DEF queueVars, QueueTypeOK, UniqueKey, KnownKeys, PendingKeys, HeldKeys, IsEmpty, IInv,
     TypeOK
<1>4. Crawling' = Crawling
  BY <1>1, <1>2 DEF Crawling
<1>5. LoopTypeOK'
  BY <1>1, <1>4 DEF LoopTypeOK, IInv, TypeOK
<1>6. BusyWorkersHold' /\ DiscoveriesKnown'
  BY <1>1, <1>2, <1>3
     DEF queueVars, BusyWorkersHold, DiscoveriesKnown, AllKnown, PermittedLinks, IInv
<1>7. TypeOK'
  BY <1>1, <1>3, <1>5, WorkerLimits, AdjustmentsAssumption
     DEF IInv, TypeOK, runVars, monitorVars
<1>8. SurplusIsOwedToTokens'
  <2>1. w \notin Alive /\ w \in Alive'
    BY <1>1, <1>2 DEF Alive
  <2>2. Cardinality(Alive') = Cardinality(Alive) + 1 /\ Cardinality(Alive) \in Nat
    BY <1>2, <2>1, AliveChange DEF IInv, TypeOK
  <2> QED
    BY <1>1, <2>2, WorkerLimits DEF IInv, TypeOK, SurplusIsOwedToTokens
<1>9. SomeoneServes'
  BY <1>2 DEF SomeoneServes, Alive
<1>10. ClosedQuiet' /\ ReturnsLast'
  BY <1>1, <1>2, <1>3 DEF IInv, ClosedQuiet, ReturnsLast, runVars
<1> QED
  BY <1>6, <1>7, <1>8, <1>9, <1>10 DEF IInv

\* The steps that leave the queue and every worker where they are.
ControlStep ==
  \/ ScaleDown \/ ScalingCancelled
  \/ Cancel \/ WaiterStarts \/ WaiterWakes
  \/ ReachSelect \/ Drained
  \/ MonitorTick \/ MonitorLoad \/ MonitorCancelled
  \/ UNCHANGED vars

LEMMA ControlStepFrame ==
  ASSUME IInv, ControlStep
  PROVE  /\ UNCHANGED <<queueVars, pc, todo, activeWorkers, attempts, succeeded, stopped>>
         /\ ctxDone' \in BOOLEAN /\ (ctxDone => ctxDone')
         /\ Cancel \/ ctxDone' = ctxDone
BY DEF IInv, TypeOK, LoopTypeOK, ControlStep, ScaleDown, ScalingCancelled, Cancel, WaiterStarts,
   WaiterWakes, Close, ReachSelect, Drained, MonitorTick, MonitorLoad, MonitorCancelled, vars,
   loopVars, scaleVars

LEMMA ControlStepType ==
  ASSUME IInv, ControlStep, QueueTypeOK', LoopTypeOK'
  PROVE  TypeOK'
<1>1. /\ currentWorkers' \in minWorkers .. maxWorkers
      /\ stopTokens' \in 0 .. maxWorkers
      /\ lost' \in Nat
      /\ adjustments' \in 0 .. MaxAdjustments
      /\ scaling' \in {"ticker", "exited"}
      /\ stopped' \in BOOLEAN
  BY WorkerLimits, AdjustmentsAssumption
     DEF IInv, TypeOK, ControlStep, ScaleDown, ScalingCancelled, Cancel, WaiterStarts, WaiterWakes,
         Close, ReachSelect, Drained, MonitorTick, MonitorLoad, MonitorCancelled, vars, scaleVars
<1>2. /\ waiter' \in {"start", "parked", "released", "closed"}
      /\ main' \in {"spawn", "select", "drain", "returned", "panicked"}
      /\ result' \in {"none", "nil", "canceled"}
  BY DEF IInv, TypeOK, ControlStep, ScaleDown, ScalingCancelled, Cancel, WaiterStarts, WaiterWakes,
         Close, ReachSelect, Drained, MonitorTick, MonitorLoad, MonitorCancelled, vars, runVars
<1>3. monitor' \in {"ticker", "load", "exited"} /\ seenEmpty' \in BOOLEAN
  BY DEF IInv, TypeOK, ControlStep, ScaleDown, ScalingCancelled, Cancel, WaiterStarts, WaiterWakes,
         Close, ReachSelect, Drained, MonitorTick, MonitorLoad, MonitorCancelled, vars,
         monitorVars, IsEmpty
<1> QED
  BY <1>1, <1>2, <1>3 DEF TypeOK

LEMMA ControlStepSurplus ==
  ASSUME IInv, ControlStep, Alive' = Alive
  PROVE  SurplusIsOwedToTokens'
<1>1. Cardinality(Alive) \in Nat /\ currentWorkers \in Nat /\ stopTokens \in Nat /\ lost \in Nat
  BY CountersAreNatural
<1>2. currentWorkers + stopTokens + lost = currentWorkers' + stopTokens' + lost'
  BY <1>1 DEF ControlStep, ScaleDown, ScalingCancelled, Cancel, WaiterStarts, WaiterWakes,
     Close, ReachSelect, Drained, MonitorTick, MonitorLoad, MonitorCancelled, vars, scaleVars
<1> QED
  BY <1>2 DEF IInv, SurplusIsOwedToTokens

LEMMA ControlStepClosed ==
  ASSUME IInv, ControlStep, Alive' = Alive, IsEmpty' <=> IsEmpty
  PROVE  ClosedQuiet' /\ ReturnsLast'
<1>1. /\ pc' = pc /\ stopped' = stopped /\ (ctxDone => ctxDone')
  BY ControlStepFrame
<1>2. \/ waiter' # "closed" /\ waiter # "closed" /\ result' = result
      \/ waiter = "closed" /\ waiter' = "closed"
      \/ waiter' = "closed" /\ Alive = {}
  BY DEF IInv, ReturnsLast, TypeOK, ControlStep, ScaleDown, ScalingCancelled, Cancel,
     WaiterStarts, WaiterWakes, Close, ReachSelect, Drained, MonitorTick, MonitorLoad,
     MonitorCancelled, vars, runVars
<1>3. CASE waiter' # "closed" /\ waiter # "closed" /\ result' = result
  BY <1>3 DEF IInv, ClosedQuiet, ReturnsLast
<1>4. CASE waiter = "closed" /\ waiter' = "closed"
  BY <1>1, <1>4 DEF IInv, ClosedQuiet, ReturnsLast
<1>5. CASE waiter' = "closed" /\ Alive = {}
  <2>1. \A w \in Workers : pc[w] \in {"idle", "done"}
    BY <1>5 DEF Alive
  <2>2. IsEmpty \/ stopped \/ ctxDone
    BY <1>5 DEF IInv, SomeoneServes
  <2> QED
    BY <1>1, <1>5, <2>1, <2>2 DEF ClosedQuiet, ReturnsLast
<1> QED
  BY <1>2, <1>3, <1>4, <1>5

LEMMA ControlStepInv ==
  ASSUME IInv, ControlStep
  PROVE  IInv'
<1>1. QueueTypeOK' /\ LoopTypeOK' /\ BusyWorkersHold' /\ DiscoveriesKnown'
  BY ControlStepFrame, QueueAndLoopUnchanged DEF IInv, TypeOK
<1>2. Alive' = Alive /\ (IsEmpty' <=> IsEmpty)
  BY ControlStepFrame DEF queueVars, Alive, IsEmpty, PendingKeys
<1>3. SomeoneServes'
  BY <1>2, ControlStepFrame DEF IInv, SomeoneServes
<1> QED
  BY <1>1, <1>2, <1>3, ControlStepType, ControlStepSurplus, ControlStepClosed DEF IInv

-----------------------------------------------------------------------------
LEMMA InitInv == Init => IInv
<1> SUFFICES ASSUME Init
             PROVE  IInv
  OBVIOUS
<1>1. PICK first \in SUBSET Workers :
        /\ Cardinality(first) = minWorkers
        /\ LoopInit([w \in Workers |-> IF w \in first THEN "head" ELSE "idle"])
  BY DEF Init
<1>2. QueueTypeOK /\ LoopTypeOK /\ BusyWorkersHold /\ DiscoveriesKnown
  BY <1>1, LoopInitInv
<1>3. Alive = first
  BY <1>1 DEF LoopInit, Alive
<1>4. TypeOK
  <2>1. minWorkers \in minWorkers .. maxWorkers /\ 0 \in 0 .. maxWorkers /\ 0 \in 0 .. MaxAdjustments
    BY WorkerLimits, AdjustmentsAssumption
  <2> QED
    BY <1>2, <2>1 DEF Init, TypeOK
<1>5. SurplusIsOwedToTokens
  BY <1>1, <1>3, WorkerLimits DEF Init, SurplusIsOwedToTokens
<1>6. SomeoneServes
  <2>1. minWorkers # 0
    BY OptionsAssumption DEF minWorkers
  <2>2. first # {}
    BY <1>1, <2>1, FS_EmptySet
  <2> QED
    BY <1>3, <2>2 DEF SomeoneServes
<1>7. ClosedQuiet /\ ReturnsLast
  BY DEF Init, ClosedQuiet, ReturnsLast
<1> QED
  BY <1>2, <1>4, <1>5, <1>6, <1>7 DEF IInv

LEMMA NextInv == IInv /\ [Next]_vars => IInv'
<1> SUFFICES ASSUME IInv, [Next]_vars
             PROVE  IInv'
  OBVIOUS
<1>1. \/ \E w \in Workers : WorkerStep(w) \/ ScaleUp(w)
      \/ ControlStep
  BY DEF Next, Terminated, ControlStep
<1> QED
  BY <1>1, WorkerStepInv, ScaleUpInv, ControlStepInv

\* The inductive invariant of the runner, whatever memory does.
THEOREM Invariance == Spec => []IInv
BY InitInv, NextInv, PTL DEF Spec

\* adjustWorkers: only stop tokens that nobody has taken yet, or that the full
\* channel dropped, keep more goroutines alive than its counter says.
THEOREM SurplusExplained == Spec => []SurplusIsOwedToTokens
<1>1. IInv => SurplusIsOwedToTokens
  BY DEF IInv
<1> QED
  BY <1>1, Invariance, PTL

\* Run returns nil over an empty queue, every seed and every permitted link of a
\* crawled page visited, unless a worker was stopped or the context cancelled.
THEOREM AbandonsNoWork == Spec => []NoWorkAbandoned
<1>1. ASSUME IInv, result = "nil", ~stopped, ~ctxDone
      PROVE  IsEmpty /\ Complete
  <2>1. waiter = "closed"
    BY <1>1 DEF IInv, ReturnsLast
  <2>2. IsEmpty /\ \A w \in Workers : pc[w] \in {"idle", "head", "fetch", "done"}
    BY <1>1, <2>1 DEF IInv, ClosedQuiet
  <2>3. HeldKeys = {}
    BY <1>1, <2>2 DEF IInv, BusyWorkersHold, HeldKeys
  <2>4. KnownKeys = visited
    BY <2>2, <2>3 DEF KnownKeys, IsEmpty
  <2> QED
    BY <1>1, <2>2, <2>4 DEF IInv, DiscoveriesKnown, AllKnown, Complete
<1>2. IInv => NoWorkAbandoned
  BY <1>1 DEF NoWorkAbandoned
<1> QED
  BY <1>2, Invariance, PTL

\* The workers that adjustWorkers goes on starting once Run has returned leave
\* the queue alone, unless a stop token made a worker leave work behind.
THEOREM QuietOnceReturned == Spec => QuietAfterReturn
<1>1. IInv /\ [Next]_vars => [result # "none" /\ ~stopped => UNCHANGED queueVars]_vars
  <2> SUFFICES ASSUME IInv, [Next]_vars, result # "none", ~stopped
               PROVE  UNCHANGED queueVars
    OBVIOUS
  <2>1. waiter = "closed"
    BY DEF IInv, ReturnsLast
  <2>2. ASSUME NEW w \in Workers, WorkerStep(w)
        PROVE  UNCHANGED queueVars
    BY <2>1, <2>2, LateWorker
  <2>3. ASSUME NEW w \in Workers, ScaleUp(w)
        PROVE  UNCHANGED queueVars
    BY <2>3 DEF ScaleUp
  <2>4. CASE ControlStep
    BY <2>4, ControlStepFrame
  <2> QED
    BY <2>2, <2>3, <2>4 DEF Next, Terminated, ControlStep
<1> QED
  BY <1>1, Invariance, PTL DEF Spec, QuietAfterReturn

-----------------------------------------------------------------------------
(* What the runner keeps of the queue's promises.                           *)

\* IsEmpty and FetchNext never disagree about whether there is work.
THEOREM EmptyAgreesWithEOFInRun == Spec => []EmptyIsEOF
<1>1. IInv => EmptyIsEOF
  BY TypeAgrees DEF IInv, TypeOK
<1> QED
  BY <1>1, Invariance, PTL

LEMMA StepIsLoopOrQuiet ==
  ASSUME IInv, [Next]_vars
  PROVE  (\E w \in Workers : LoopStep(w, "fetch")) \/ QuietStep
<1>1. ASSUME NEW w \in Workers, pc[w] \in {"head", "idle", "done"}, pc'[w] \in {"head", "fetch", "done"},
             UNCHANGED <<queueVars, todo, attempts, succeeded>>,
             \A v \in Workers \ {w} : pc'[v] = pc[v]
      PROVE  QuietStep
  BY <1>1 DEF QuietStep, IInv, BusyWorkersHold
<1>2. ASSUME NEW w \in Workers, Poll(w) \/ ScaleUp(w)
      PROVE  QuietStep
  BY <1>1, <1>2 DEF Poll, PollStop, PollCancelled, PollNeither, ScaleUp, Goto, IInv, TypeOK,
                    LoopTypeOK
<1>3. CASE ControlStep
  BY <1>3, ControlStepFrame DEF QuietStep
<1> QED
  BY <1>2, <1>3
     DEF Next, Terminated, ControlStep, WorkerStep, Poll, FetchOrProcess, LoopStep

\* No page that a seed or a link made known is forgotten, however the number of
\* workers is adjusted.
THEOREM ForgetsNoKeyInRun == Spec => NoKeyForgotten
<1>1. IInv /\ [Next]_vars => [KnownKeys \subseteq KnownKeys']_queueVars
  BY StepIsLoopOrQuiet, StepKnown DEF IInv, TypeOK
<1> QED
  BY <1>1, Invariance, PTL DEF Spec, NoKeyForgotten

LEMMA ContextStep ==
  ASSUME IInv, [Next]_vars
  PROVE  ctxDone' = ctxDone \/ Cancel
BY WorkerStepMoves, ControlStepFrame DEF Next, Terminated, ControlStep, ScaleUp

\* A page the queue calls completed was crawled without an error, unless the
\* runner has a limiter and its caller may cancel.
THEOREM CompletedWasCrawled ==
  ASSUME ~(RateLimited /\ Cancellable)
  PROVE  Spec => []CompletedMeansCrawled
<1> DEFINE Inv == CompletedMeansCrawled /\ (ctxDone => Cancellable)
<1>1. Init => Inv
  BY DEF Init, LoopInit, CompletedMeansCrawled
<1>2. IInv /\ Inv /\ [Next]_vars => Inv'
  <2> SUFFICES ASSUME IInv, Inv, [Next]_vars
               PROVE  Inv'
    OBVIOUS
  <2>1. ctxDone' => Cancellable
    BY ContextStep DEF Cancel
  <2>2. CASE \E w \in Workers : LoopStep(w, "fetch")
    BY <2>1, <2>2, LoopStepCompleted DEF IInv, TypeOK
  <2>3. CASE QuietStep
    BY <2>1, <2>3 DEF QuietStep, queueVars, CompletedMeansCrawled
  <2> QED
    BY <2>2, <2>3, StepIsLoopOrQuiet
<1> QED
  BY <1>1, <1>2, Invariance, PTL DEF Spec

\* Nothing is ever fetched, queued or marked that the policy has not let through,
\* if the history counter counts at all.
THEOREM CrawlsOnlyPermitted ==
  ASSUME AttemptCap > 0
  PROVE  Spec => []OnlyPermittedPages
<1> DEFINE Inv == CrawlsItsPage /\ OnlyPermittedPages
<1>1. Init => Inv
  <2> SUFFICES ASSUME Init
               PROVE  Inv
    OBVIOUS
  <2>1. PICK start \in [Workers -> {"idle", "head"}] : LoopInit(start)
    BY DEF Init
  <2>2. CrawlsItsPage
    BY <2>1 DEF LoopInit, CrawlsItsPage
  <2>3. \A k \in KnownKeys : \E s \in Seeds : normalizeURL[s] = k
    BY <2>1 DEF LoopInit, Seeded, KnownKeys, PendingKeys, HeldKeys
  <2> QED
    BY <2>2, <2>3 DEF OnlyPermittedPages, PermittedKey
<1>2. IInv /\ Inv /\ [Next]_vars => Inv'
  <2> SUFFICES ASSUME IInv, Inv, [Next]_vars
               PROVE  Inv'
    OBVIOUS
  <2>1. CASE \E w \in Workers : LoopStep(w, "fetch")
    BY <2>1, LoopStepPage, LoopStepPermitted DEF IInv, TypeOK
  <2>2. CASE QuietStep
    <3>1. KnownKeys' = KnownKeys
      BY <2>2 DEF QuietStep, queueVars, KnownKeys, PendingKeys, HeldKeys, UniqueKey
    <3>2. CrawlsItsPage'
      BY <2>2 DEF QuietStep, queueVars, CrawlsItsPage, UniqueKey
    <3> QED
      BY <2>2, <3>1, <3>2 DEF QuietStep, OnlyPermittedPages, PermittedKey
  <2> QED
    BY <2>1, <2>2, StepIsLoopOrQuiet
<1> QED
  BY <1>1, <1>2, Invariance, PTL DEF Spec

LEMMA NextFresh ==
  ASSUME IInv, FreshInv, [Next]_vars, [AddsAreFresh]_vars
  PROVE  /\ FreshInv'
         /\ [QueueNextFresh]_queueVars
         /\ \A k \in visited : attempts'[k] = attempts[k]
<1>1. QuietStep \/ (AddsAreFresh /\ \E w \in Workers : LoopStep(w, "fetch"))
  BY StepIsLoopOrQuiet DEF vars, QuietStep, loopVars
<1> QED
  BY <1>1, StepIsFresh, FreshInvKept DEF IInv, TypeOK

\* In every run in which no link is enqueued while a worker has its page, the
\* queue keeps its contract, a failing page is crawled maxRetries times at most
\* and no crawl starts for a page that has been marked.
THEOREM FreshKeepsContract ==
  Spec /\ [][AddsAreFresh]_vars =>
    /\ []OnePlacePerKey /\ []DifferentUrlEach /\ []RetryBudget
    /\ NeverCrawledAgain /\ KeepsContract
<1>1. Init => FreshInv /\ Contract!ContractInit
  BY LoopInitFresh DEF Init
<1>2. IInv /\ FreshInv /\ [Next]_vars /\ [AddsAreFresh]_vars => FreshInv'
  BY NextFresh
<1>3. Spec /\ [][AddsAreFresh]_vars => []FreshInv
  BY <1>1, <1>2, Invariance, PTL DEF Spec
<1>4. IInv /\ FreshInv => OnePlacePerKey /\ DifferentUrlEach /\ RetryBudget
  BY BudgetKept DEF FreshInv, OnePlacePerKey, DifferentUrlEach, IInv, TypeOK
<1>5. IInv /\ FreshInv /\ [Next]_vars /\ [AddsAreFresh]_vars
        => [\A k \in visited : attempts'[k] = attempts[k]]_workerVars
  BY NextFresh
<1>6. IInv /\ FreshInv /\ IInv' /\ FreshInv' /\ [Next]_vars /\ [AddsAreFresh]_vars
        => [Contract!ContractNext]_(Contract!contractVars)
  BY NextFresh, StepKeepsContract DEF IInv, TypeOK, FreshInv
<1> QED
  BY <1>1, <1>3, <1>4, <1>5, <1>6, Invariance, PTL
     DEF Spec, NeverCrawledAgain, KeepsContract, Contract!ContractSpec

\* A run that nobody cancels is one of those, if each page of the site is a seed or
\* is linked once, from a page that does not fail.
LEMMA AddsStayFresh ==
  ASSUME FoundOnce, ~Cancellable
  PROVE  Spec => [][AddsAreFresh]_vars
<1> DEFINE Inv == ~ctxDone /\ OnePlacePerKey /\ LookedAtOnce
<1>1. Init => Inv
  <2> SUFFICES ASSUME Init
               PROVE  Inv
    OBVIOUS
  <2>1. PICK start \in [Workers -> {"idle", "head"}] : LoopInit(start)
    BY DEF Init
  <2> QED
    BY <2>1, LoopInitFresh, LoopInitLookedAt DEF LoopInit, FreshInv
<1>2. IInv /\ Inv /\ [Next]_vars => Inv' /\ AddsAreFresh
  <2> SUFFICES ASSUME IInv, Inv, [Next]_vars
               PROVE  Inv' /\ AddsAreFresh
    OBVIOUS
  <2>1. ~ctxDone'
    BY ContextStep DEF Cancel
  <2> QED
    BY <2>1, StepIsLoopOrQuiet, LookedAtKept DEF IInv, TypeOK
<1> QED
  BY <1>1, <1>2, Invariance, PTL DEF Spec

\* On such a site the retry budget and the contract hold of every run.
THEOREM TreeKeepsContract ==
  ASSUME FoundOnce, ~Cancellable
  PROVE  Spec => /\ []OnePlacePerKey /\ []DifferentUrlEach /\ []RetryBudget
                 /\ NeverCrawledAgain /\ KeepsContract
BY AddsStayFresh, FreshKeepsContract, PTL
=============================================================================
