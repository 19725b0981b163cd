-------------------------- MODULE WorkerLoopProofs --------------------------
(* First what holds of a MemoryQueue whoever calls it, and in whatever      *)
(* order; then what a step of a worker preserves, for the proofs about both *)
(* runners: the worker may stand at either label from which it fetches.     *)
EXTENDS WorkerLoop, FiniteSetTheorems, TLAPS

\* The retry budget is at least one attempt, whatever the option.
LEMMA MaxRetriesPositive == maxRetries \in Nat \ {0}
BY MaxRetriesAssumption DEF maxRetries

-----------------------------------------------------------------------------
(* Each operation of the queue preserves the type invariant, with it the    *)
(* bound on the retry count of every request still in circulation.          *)

LEMMA AddType ==
  ASSUME QueueTypeOK, NEW u \in Urls, Add(u)
  PROVE  QueueTypeOK'
<1> DEFINE k == normalizeURL[u]
<1>1. CASE k \in Keys \ visited /\ pending[k] = NoRequest
  <2>1. [url |-> u, retry |-> 0] \in Request
    BY <1>1, MaxRetriesPositive DEF Request, ValidUrls
  <2>2. pending' = [pending EXCEPT ![k] = [url |-> u, retry |-> 0]]
    BY <1>1 DEF Add
  <2>3. UniqueKey([url |-> u, retry |-> 0]) = k
    BY DEF UniqueKey
  <2> QED
    BY <1>1, <2>1, <2>2, <2>3 DEF QueueTypeOK, Add, UniqueKey
<1>2. CASE ~(k \in Keys \ visited /\ pending[k] = NoRequest)
  BY <1>2 DEF QueueTypeOK, Add, UniqueKey
<1> QED
  BY <1>1, <1>2

LEMMA FetchNextType ==
  ASSUME QueueTypeOK, NEW w \in Workers, NEW k \in Keys, FetchNext(w, k)
  PROVE  QueueTypeOK'
BY NoRequestAssumption DEF QueueTypeOK, FetchNext, UniqueKey

LEMMA HeldIsRequest ==
  ASSUME QueueTypeOK, NEW w \in Workers, held[w] # NoRequest
  PROVE  held[w] \in Request /\ UniqueKey(held[w]) \in Keys
BY DEF QueueTypeOK, Request, UniqueKey, ValidUrls

LEMMA MarkHandledType ==
  ASSUME QueueTypeOK, NEW w \in Workers, MarkHandled(w)
  PROVE  QueueTypeOK'
BY HeldIsRequest DEF QueueTypeOK, MarkHandled, UniqueKey

\* A retried request that is not exhausted is a request again, of the same key.
LEMMA RetriedType ==
  ASSUME NEW r \in Request
  PROVE  /\ UniqueKey(Retried(r)) = UniqueKey(r)
         /\ Retried(r).retry = r.retry + 1
         /\ Retried(r).url = r.url
         /\ Retried(r).retry < maxRetries => Retried(r) \in Request
BY MaxRetriesPositive DEF Request, Retried, UniqueKey

LEMMA MarkHandledWithErrorType ==
  ASSUME QueueTypeOK, NEW w \in Workers, MarkHandledWithError(w)
  PROVE  QueueTypeOK'
<1> DEFINE r == Retried(held[w])
           k == UniqueKey(r)
<1>1. held[w] # NoRequest
  BY DEF MarkHandledWithError
<1>2. held[w] \in Request /\ k \in Keys
  BY <1>1, HeldIsRequest, RetriedType
<1>3. held' \in [Workers -> Request \cup {NoRequest}]
  BY DEF QueueTypeOK, MarkHandledWithError
<1>4. CASE r.retry >= maxRetries
  BY <1>2, <1>3, <1>4 DEF QueueTypeOK, MarkHandledWithError, UniqueKey
<1>5. CASE ~(r.retry >= maxRetries)
  <2>1. r \in Request
    BY <1>2, <1>5, RetriedType, MaxRetriesPositive DEF Request
  <2>2. pending' = [pending EXCEPT ![k] = r] /\ UNCHANGED <<visited, failed>>
    BY <1>5 DEF MarkHandledWithError
  <2> HIDE DEF r
  <2> QED
    BY <1>2, <1>3, <2>1, <2>2 DEF QueueTypeOK, UniqueKey
<1> QED
  BY <1>4, <1>5

LEMMA QueueInitType == QueueInit => QueueTypeOK
BY DEF QueueInit, QueueTypeOK

LEMMA QueueNextType == QueueTypeOK /\ [QueueNext]_queueVars => QueueTypeOK'
<1> SUFFICES ASSUME QueueTypeOK, [QueueNext]_queueVars
             PROVE  QueueTypeOK'
  OBVIOUS
<1>1. CASE \E u \in Urls : Add(u)
  BY <1>1, AddType
<1>2. ASSUME NEW w \in Workers, NEW k \in Keys, FetchNext(w, k)
      PROVE  QueueTypeOK'
  BY <1>2, FetchNextType
<1>3. ASSUME NEW w \in Workers, MarkHandled(w)
      PROVE  QueueTypeOK'
  BY <1>3, MarkHandledType
<1>4. ASSUME NEW w \in Workers, MarkHandledWithError(w)
      PROVE  QueueTypeOK'
  BY <1>4, MarkHandledWithErrorType
<1>5. CASE UNCHANGED queueVars
  BY <1>5 DEF queueVars, QueueTypeOK, UniqueKey
<1> QED
  BY <1>1, <1>2, <1>3, <1>4, <1>5 DEF QueueNext, WorkerCalls

\* Whatever the callers do, the queue's maps, its requests and their keys stay
\* consistent, and no request in circulation has used up its attempts.
THEOREM QueueTypeCorrect == QueueSpec => []QueueTypeOK
BY QueueInitType, QueueNextType, PTL DEF QueueSpec

LEMMA TypeAgrees == QueueTypeOK => EmptyIsEOF
BY MaxRetriesPositive
   DEF QueueTypeOK, EmptyIsEOF, IsEmpty, NothingToFetch, PendingKeys, Request

\* IsEmpty and FetchNext never disagree about whether there is work.
THEOREM EmptyAgreesWithEOF == QueueSpec => []EmptyIsEOF
BY TypeAgrees, QueueTypeCorrect, PTL

-----------------------------------------------------------------------------
(* No operation loses a key, and Add loses no URL it accepts.               *)

LEMMA AddKnown ==
  ASSUME QueueTypeOK, NEW u \in Urls, Add(u)
  PROVE  /\ KnownKeys \subseteq KnownKeys'
         /\ normalizeURL[u] \in Keys => normalizeURL[u] \in KnownKeys'
<1> DEFINE k == normalizeURL[u]
<1>1. CASE k \in Keys \ visited /\ pending[k] = NoRequest
  <2>1. [url |-> u, retry |-> 0] # NoRequest
    BY <1>1, MaxRetriesPositive, NoRequestAssumption DEF Request, ValidUrls
  <2>2. PendingKeys' = PendingKeys \cup {k}
    BY <1>1, <2>1 DEF QueueTypeOK, Add, PendingKeys
  <2> QED
    BY <2>2 DEF Add, KnownKeys, HeldKeys
<1>2. CASE ~(k \in Keys \ visited /\ pending[k] = NoRequest)
  BY <1>2 DEF Add, KnownKeys, HeldKeys, PendingKeys
<1> QED
  BY <1>1, <1>2

LEMMA FetchNextKnown ==
  ASSUME QueueTypeOK, NEW w \in Workers, NEW k \in Keys, FetchNext(w, k)
  PROVE  KnownKeys \subseteq KnownKeys'
<1>1. held' = [held EXCEPT ![w] = pending[k]] /\ pending[k] # NoRequest /\ held[w] = NoRequest
  BY DEF FetchNext
<1>2. UniqueKey(pending[k]) = k
  BY <1>1 DEF QueueTypeOK
<1>3. k \in HeldKeys'
  BY <1>1, <1>2 DEF QueueTypeOK, HeldKeys, UniqueKey
<1>4. HeldKeys \subseteq HeldKeys'
  BY <1>1 DEF QueueTypeOK, HeldKeys, UniqueKey
<1>5. PendingKeys' = PendingKeys \ {k} /\ visited' = visited
  BY DEF QueueTypeOK, FetchNext, PendingKeys
<1> QED
  BY <1>3, <1>4, <1>5 DEF KnownKeys

\* A worker that puts its request down takes no other worker's key along.
LEMMA PutDownHeld ==
  ASSUME QueueTypeOK, NEW w \in Workers, held[w] # NoRequest,
         held' = [held EXCEPT ![w] = NoRequest]
  PROVE  /\ HeldKeys \subseteq HeldKeys' \cup {UniqueKey(held[w])}
         /\ HeldKeys' \subseteq HeldKeys
BY DEF QueueTypeOK, HeldKeys, UniqueKey

LEMMA MarkHandledKnown ==
  ASSUME QueueTypeOK, NEW w \in Workers, MarkHandled(w)
  PROVE  /\ KnownKeys \subseteq KnownKeys'
         /\ UniqueKey(held[w]) \in visited'
<1>1. HeldKeys \subseteq HeldKeys' \cup {UniqueKey(held[w])}
  BY PutDownHeld DEF MarkHandled
<1>2. PendingKeys' = PendingKeys /\ visited' = visited \cup {UniqueKey(held[w])}
  BY DEF MarkHandled, PendingKeys
<1> QED
  BY <1>1, <1>2 DEF KnownKeys

LEMMA MarkHandledWithErrorKnown ==
  ASSUME QueueTypeOK, NEW w \in Workers, MarkHandledWithError(w)
  PROVE  KnownKeys \subseteq KnownKeys'
<1> DEFINE r == Retried(held[w])
           k == UniqueKey(r)
<1>1. held[w] # NoRequest /\ held[w] \in Request
  BY HeldIsRequest DEF MarkHandledWithError
<1>2. k = UniqueKey(held[w]) /\ k \in Keys
  BY <1>1, HeldIsRequest, RetriedType
<1>3. HeldKeys \subseteq HeldKeys' \cup {k}
  BY <1>1, <1>2, PutDownHeld DEF MarkHandledWithError
<1>4. CASE r.retry >= maxRetries
  <2>1. PendingKeys' = PendingKeys /\ visited' = visited \cup {k}
    BY <1>4 DEF MarkHandledWithError, PendingKeys
  <2> QED
    BY <1>3, <2>1 DEF KnownKeys
<1>5. CASE ~(r.retry >= maxRetries)
  <2>1. r # NoRequest
    BY <1>1, <1>5, RetriedType, MaxRetriesPositive, NoRequestAssumption DEF Request
  <2>2. pending' = [pending EXCEPT ![k] = r] /\ visited' = visited
    BY <1>5 DEF MarkHandledWithError
  <2> HIDE DEF r
  <2>3. PendingKeys \cup {k} \subseteq PendingKeys'
    BY <1>2, <2>1, <2>2 DEF QueueTypeOK, PendingKeys
  <2> QED
    BY <1>3, <2>2, <2>3 DEF KnownKeys
<1> QED
  BY <1>4, <1>5

\* No order of calls by any number of workers makes the queue forget a URL it
\* accepted.
THEOREM ForgetsNoKey == QueueSpec => NoKeyForgotten
<1>1. QueueTypeOK /\ [QueueNext]_queueVars => [KnownKeys \subseteq KnownKeys']_queueVars
  <2> SUFFICES ASSUME QueueTypeOK, QueueNext
               PROVE  KnownKeys \subseteq KnownKeys'
    OBVIOUS
  <2>1. CASE \E u \in Urls : Add(u)
    BY <2>1, AddKnown
  <2>2. CASE WorkerCalls
    BY <2>2, FetchNextKnown, MarkHandledKnown, MarkHandledWithErrorKnown DEF WorkerCalls
  <2> QED
    BY <2>1, <2>2 DEF QueueNext
<1> QED
  BY <1>1, QueueTypeCorrect, PTL DEF QueueSpec, NoKeyForgotten

-----------------------------------------------------------------------------
(* As long as no key in a worker's hands is added again, the queue keeps    *)
(* the contract of QueueContract.                                           *)

LEMMA FreshIsCall == [QueueNextFresh]_queueVars => [QueueNext]_queueVars
BY DEF QueueNextFresh, QueueNext, AddFresh

LEMMA FreshTypeCorrect == QueueSpecFresh => []QueueTypeOK
<1>1. QueueTypeOK /\ [QueueNextFresh]_queueVars => QueueTypeOK'
  BY FreshIsCall, QueueNextType
<1> QED
  BY <1>1, QueueInitType, PTL DEF QueueSpecFresh

LEMMA OnePlaceStep ==
  QueueTypeOK /\ OnePlacePerKey /\ [QueueNextFresh]_queueVars => OnePlacePerKey'
<1> SUFFICES ASSUME QueueTypeOK, OnePlacePerKey, [QueueNextFresh]_queueVars
             PROVE  OnePlacePerKey'
  OBVIOUS
<1>1. ASSUME NEW u \in Urls, AddFresh(u)
      PROVE  OnePlacePerKey'
  <2>1. /\ UNCHANGED <<visited, held>>
        /\ pending' = pending \/ /\ normalizeURL[u] \in Keys \ visited
                                 /\ pending' = [pending EXCEPT ![normalizeURL[u]] = [url |-> u, retry |-> 0]]
    BY <1>1 DEF AddFresh, Add
  <2>2. \A w \in Workers : held[w] # NoRequest => UniqueKey(held[w]) # normalizeURL[u]
    BY <1>1 DEF AddFresh, HeldKeys
  <2>3. \A w \in Workers : held[w] # NoRequest => UniqueKey(held[w]) \in Keys
    BY HeldIsRequest
  <2> QED
    BY <2>1, <2>2, <2>3 DEF OnePlacePerKey, QueueTypeOK, UniqueKey
<1>2. ASSUME NEW w \in Workers, NEW k \in Keys, FetchNext(w, k)
      PROVE  OnePlacePerKey'
  <2>1. /\ pending[k] # NoRequest /\ UniqueKey(pending[k]) = k
        /\ held' = [held EXCEPT ![w] = pending[k]]
        /\ pending' = [pending EXCEPT ![k] = NoRequest]
        /\ UNCHANGED visited
    BY <1>2 DEF FetchNext, QueueTypeOK
  <2>2. \A v \in Workers : held[v] # NoRequest => UniqueKey(held[v]) \in Keys \ {k}
    BY <2>1, HeldIsRequest DEF OnePlacePerKey
  <2>3. \A v \in Workers \ {w} : held'[v] = held[v]
    BY <2>1 DEF QueueTypeOK
  <2>4. held'[w] = pending[k]
    BY <2>1 DEF QueueTypeOK
  <2> QED
    BY <2>1, <2>2, <2>3, <2>4 DEF OnePlacePerKey, QueueTypeOK, UniqueKey
<1>3. ASSUME NEW w \in Workers, MarkHandled(w)
      PROVE  OnePlacePerKey'
  <2>1. /\ held[w] # NoRequest
        /\ held' = [held EXCEPT ![w] = NoRequest]
        /\ visited' = visited \cup {UniqueKey(held[w])}
        /\ UNCHANGED pending
    BY <1>3 DEF MarkHandled
  <2> QED
    BY <2>1 DEF OnePlacePerKey, QueueTypeOK, UniqueKey
<1>4. ASSUME NEW w \in Workers, MarkHandledWithError(w)
      PROVE  OnePlacePerKey'
  <2> DEFINE r == Retried(held[w])
             k == UniqueKey(held[w])
  <2>1. held[w] # NoRequest /\ held' = [held EXCEPT ![w] = NoRequest] /\ k \in Keys
    BY <1>4, HeldIsRequest DEF MarkHandledWithError
  <2>2. UniqueKey(r) = k
    BY <2>1, HeldIsRequest, RetriedType
  <2>3. \/ visited' = visited \cup {k} /\ pending' = pending
        \/ visited' = visited /\ pending' = [pending EXCEPT ![k] = r]
    BY <1>4, <2>2 DEF MarkHandledWithError
  <2>4. \A v \in Workers \ {w} : held[v] # NoRequest => UniqueKey(held[v]) \in Keys \ {k}
    BY <2>1, HeldIsRequest DEF OnePlacePerKey
  <2>5. k \notin visited /\ pending[k] = NoRequest
    BY <2>1 DEF OnePlacePerKey
  <2> HIDE DEF r, k
  <2> QED
    BY <2>1, <2>3, <2>4, <2>5 DEF OnePlacePerKey, QueueTypeOK, UniqueKey
<1>5. CASE UNCHANGED queueVars
  BY <1>5 DEF queueVars, OnePlacePerKey, UniqueKey
<1> QED
  BY <1>1, <1>2, <1>3, <1>4, <1>5 DEF QueueNextFresh, WorkerCalls

\* A page is in one place only: pending, with one worker, or visited.
THEOREM KeepsOnePlacePerKey == QueueSpecFresh => []OnePlacePerKey
<1>1. QueueInit => OnePlacePerKey
  BY DEF QueueInit, OnePlacePerKey
<1> QED
  BY <1>1, OnePlaceStep, FreshTypeCorrect, PTL DEF QueueSpecFresh

HeldSeen ==
  \A w \in Workers : held[w] # NoRequest =>
    /\ StatusOf(UniqueKey(held[w])) = "processing"
    /\ RetryOf(UniqueKey(held[w])) = held[w].retry

\* What the contract sees of a key in a worker's hands.
LEMMA HeldView == QueueTypeOK /\ OnePlacePerKey => HeldSeen
<1> SUFFICES ASSUME QueueTypeOK, OnePlacePerKey, NEW w \in Workers, held[w] # NoRequest
             PROVE  /\ StatusOf(UniqueKey(held[w])) = "processing"
                    /\ RetryOf(UniqueKey(held[w])) = held[w].retry
  BY DEF HeldSeen
<1> DEFINE k == UniqueKey(held[w])
           Holder(v) == held[v] # NoRequest /\ UniqueKey(held[v]) = k
<1>1. k \in HeldKeys /\ k \notin visited /\ k \notin failed /\ pending[k] = NoRequest
  BY DEF HeldKeys, OnePlacePerKey, QueueTypeOK
<1>2. \A v \in Workers : Holder(v) => v = w
  BY DEF OnePlacePerKey
<1>3. (CHOOSE v \in Workers : Holder(v)) = w
  BY <1>2
<1> QED
  BY <1>1, <1>3 DEF StatusOf, RetryOf

LEMMA HeldViewNext == (QueueTypeOK /\ OnePlacePerKey)' => HeldSeen'
BY HeldView, PTL

\* The contract sees no change of a key the step does not concern.
LEMMA OtherKeys ==
  ASSUME QueueTypeOK, OnePlacePerKey, QueueTypeOK', OnePlacePerKey',
         NEW j \in Keys,
         pending'[j] = pending[j],
         j \in visited' <=> j \in visited,
         j \in failed' <=> j \in failed,
         \A w \in Workers :
           \/ held'[w] = held[w]
           \/ /\ held[w] # NoRequest => UniqueKey(held[w]) # j
              /\ held'[w] # NoRequest => UniqueKey(held'[w]) # j
  PROVE  StatusOf(j)' = StatusOf(j) /\ RetryOf(j)' = RetryOf(j)
<1>1. j \in HeldKeys' <=> j \in HeldKeys
  BY DEF HeldKeys, UniqueKey
<1>2. StatusOf(j)' = StatusOf(j)
  BY <1>1 DEF StatusOf
<1>3. CASE j \in HeldKeys
  <2>1. PICK w \in Workers : held[w] # NoRequest /\ UniqueKey(held[w]) = j
    BY <1>3 DEF HeldKeys
  <2>2. held'[w] = held[w]
    BY <2>1
  <2>3. RetryOf(j) = held[w].retry
    BY <2>1, HeldView DEF HeldSeen
  <2>4. HeldSeen'
    BY HeldViewNext
  <2>5. RetryOf(UniqueKey(held[w]))' = held'[w].retry
    BY <2>1, <2>2, <2>4 DEF HeldSeen
  <2>6. UniqueKey(held[w])' = j
    BY <2>1, <2>2 DEF UniqueKey
  <2> QED
    BY <1>2, <2>2, <2>3, <2>5, <2>6
<1>4. CASE j \notin HeldKeys
  BY <1>1, <1>2, <1>4 DEF RetryOf
<1> QED
  BY <1>3, <1>4

\* A step that changes the view of one key changes the contract's functions at
\* that key.
LEMMA ViewAt ==
  ASSUME NEW k \in Keys,
         \A j \in Keys \ {k} : StatusOf(j)' = StatusOf(j) /\ RetryOf(j)' = RetryOf(j)
  PROVE  /\ [j \in Keys |-> StatusOf(j)]' = [[j \in Keys |-> StatusOf(j)] EXCEPT ![k] = StatusOf(k)']
         /\ [j \in Keys |-> RetryOf(j)]' = [[j \in Keys |-> RetryOf(j)] EXCEPT ![k] = RetryOf(k)']
OBVIOUS

LEMMA AddKeepsContract ==
  ASSUME QueueTypeOK, OnePlacePerKey, QueueTypeOK', OnePlacePerKey',
         NEW u \in Urls, AddFresh(u)
  PROVE  [Contract!ContractNext]_(Contract!contractVars)
<1> DEFINE k == normalizeURL[u]
           r == [url |-> u, retry |-> 0]
<1>1. CASE k \in Keys \ visited /\ pending[k] = NoRequest
  <2>1. r # NoRequest
    BY <1>1, MaxRetriesPositive, NoRequestAssumption DEF Request, ValidUrls
  <2>2. pending' = [pending EXCEPT ![k] = r] /\ UNCHANGED <<visited, held, failed>>
    BY <1>1 DEF AddFresh, Add
  <2>3. k \notin HeldKeys
    BY DEF AddFresh
  <2>4. \A j \in Keys \ {k} : StatusOf(j)' = StatusOf(j) /\ RetryOf(j)' = RetryOf(j)
    BY <2>2, OtherKeys DEF QueueTypeOK
  <2>5. k \notin failed
    BY <1>1 DEF QueueTypeOK
  <2>6. StatusOf(k) = "unknown" /\ RetryOf(k) = 0
    BY <1>1, <2>3, <2>5 DEF StatusOf, RetryOf
  <2>7. pending'[k] = r /\ k \notin visited' /\ k \notin failed'
    BY <1>1, <2>2, <2>5 DEF QueueTypeOK
  <2>8. StatusOf(k)' = "pending" /\ RetryOf(k)' = 0
    BY <2>1, <2>7 DEF StatusOf, RetryOf
  <2>9. Contract!Add(k)
    BY <1>1, <2>4, <2>6, <2>8, ViewAt DEF Contract!Add
  <2> QED
    BY <1>1, <2>9 DEF Contract!ContractNext, Contract!Recording
<1>2. CASE ~(k \in Keys \ visited /\ pending[k] = NoRequest)
  <2>1. UNCHANGED queueVars
    BY <1>2 DEF AddFresh, Add, queueVars
  <2>2. \A j \in Keys : StatusOf(j)' = StatusOf(j) /\ RetryOf(j)' = RetryOf(j)
    BY <2>1, OtherKeys DEF queueVars
  <2> QED
    BY <2>2 DEF Contract!contractVars
<1> QED
  BY <1>1, <1>2

LEMMA FetchNextKeepsContract ==
  ASSUME QueueTypeOK, OnePlacePerKey, QueueTypeOK', OnePlacePerKey',
         NEW w \in Workers, NEW k \in Keys, FetchNext(w, k)
  PROVE  Contract!ContractNext
<1>1. /\ pending[k] # NoRequest /\ UniqueKey(pending[k]) = k
      /\ held[w] = NoRequest
      /\ held' = [held EXCEPT ![w] = pending[k]]
      /\ pending' = [pending EXCEPT ![k] = NoRequest]
      /\ UNCHANGED <<visited, failed>>
  BY DEF FetchNext, QueueTypeOK
<1>2. held'[w] = pending[k] /\ \A v \in Workers \ {w} : held'[v] = held[v]
  BY <1>1 DEF QueueTypeOK
<1>3. \A j \in Keys \ {k} : StatusOf(j)' = StatusOf(j) /\ RetryOf(j)' = RetryOf(j)
  <2> TAKE j \in Keys \ {k}
  <2>1. pending'[j] = pending[j]
    BY <1>1 DEF QueueTypeOK
  <2>2. \A v \in Workers :
           \/ held'[v] = held[v]
           \/ /\ held[v] # NoRequest => UniqueKey(held[v]) # j
              /\ held'[v] # NoRequest => UniqueKey(held'[v]) # j
    BY <1>1, <1>2
  <2> QED
    BY <1>1, <2>1, <2>2, OtherKeys
<1>4. k \notin visited /\ k \notin failed
  BY <1>1 DEF OnePlacePerKey, QueueTypeOK
<1>5. StatusOf(k) = "pending" /\ RetryOf(k) = pending[k].retry
  BY <1>1, <1>4 DEF StatusOf, RetryOf
<1>6. UniqueKey(held[w])' = k
  BY <1>1, <1>2 DEF UniqueKey
<1>7. StatusOf(k)' = "processing" /\ RetryOf(k)' = pending[k].retry
  BY <1>1, <1>2, <1>6, HeldViewNext DEF HeldSeen
<1>8. Contract!FetchNext(k)
  <2>1. [j \in Keys |-> RetryOf(j)]' = [j \in Keys |-> RetryOf(j)]
    BY <1>3, <1>5, <1>7
  <2> QED
    BY <1>3, <1>5, <1>7, <2>1, ViewAt DEF Contract!FetchNext
<1> QED
  BY <1>8 DEF Contract!ContractNext, Contract!Recording

LEMMA MarkHandledKeepsContract ==
  ASSUME QueueTypeOK, OnePlacePerKey, QueueTypeOK', OnePlacePerKey',
         NEW w \in Workers, MarkHandled(w)
  PROVE  Contract!ContractNext
<1>0. PICK k \in Keys : k = UniqueKey(held[w])
  BY HeldIsRequest DEF MarkHandled
<1>1. /\ held[w] # NoRequest
      /\ held' = [held EXCEPT ![w] = NoRequest]
      /\ visited' = visited \cup {k}
      /\ UNCHANGED <<pending, failed>>
  BY <1>0 DEF MarkHandled
<1>2. held'[w] = NoRequest /\ \A v \in Workers \ {w} : held'[v] = held[v]
  BY <1>1 DEF QueueTypeOK
<1>3. \A j \in Keys \ {k} : StatusOf(j)' = StatusOf(j) /\ RetryOf(j)' = RetryOf(j)
  BY <1>0, <1>1, <1>2, OtherKeys
<1>4. StatusOf(k) = "processing"
  BY <1>0, <1>1, HeldView DEF HeldSeen
<1>5. k \notin failed
  BY <1>0, <1>1 DEF OnePlacePerKey, QueueTypeOK
<1>6. StatusOf(k)' = "completed" /\ RetryOf(k)' = 0
  BY <1>1, <1>5 DEF StatusOf, RetryOf
<1>7. Contract!MarkHandled(k)
  BY <1>1, <1>3, <1>4, <1>6, ViewAt DEF Contract!MarkHandled
<1> QED
  BY <1>1, <1>7 DEF Contract!ContractNext, Contract!Recording

LEMMA MarkHandledWithErrorKeepsContract ==
  ASSUME QueueTypeOK, OnePlacePerKey, QueueTypeOK', OnePlacePerKey',
         NEW w \in Workers, MarkHandledWithError(w)
  PROVE  Contract!ContractNext
<1>0. PICK k, r : k = UniqueKey(held[w]) /\ r = Retried(held[w])
  OBVIOUS
<1>1. /\ held[w] # NoRequest /\ held[w] \in Request /\ k \in Keys
      /\ held' = [held EXCEPT ![w] = NoRequest]
  BY <1>0, HeldIsRequest DEF MarkHandledWithError
<1>2. UniqueKey(r) = k /\ r.retry = held[w].retry + 1 /\ held[w].retry \in 0 .. maxRetries - 1
  BY <1>0, <1>1, RetriedType DEF Request
<1>3. held'[w] = NoRequest /\ \A v \in Workers \ {w} : held'[v] = held[v]
  BY <1>1 DEF QueueTypeOK
<1>4. \A j \in Keys \ {k} : StatusOf(j)' = StatusOf(j) /\ RetryOf(j)' = RetryOf(j)
  <2> TAKE j \in Keys \ {k}
  <2>1. /\ pending'[j] = pending[j]
        /\ j \in visited' <=> j \in visited
        /\ j \in failed' <=> j \in failed
    BY <1>0, <1>2 DEF MarkHandledWithError, QueueTypeOK
  <2> QED
    BY <1>0, <1>1, <1>3, <2>1, OtherKeys
<1>5. StatusOf(k) = "processing" /\ RetryOf(k) = held[w].retry
  BY <1>0, <1>1, HeldView DEF HeldSeen
<1>6. k \notin visited /\ k \notin failed
  BY <1>0, <1>1 DEF OnePlacePerKey, QueueTypeOK
<1>7. CASE r.retry >= maxRetries
  <2>1. k \in visited' /\ k \in failed'
    BY <1>0, <1>2, <1>7 DEF MarkHandledWithError
  <2>2. StatusOf(k)' = "failed" /\ RetryOf(k)' = 0
    BY <2>1 DEF StatusOf, RetryOf
  <2>3. held[w].retry + 1 = maxRetries
    BY <1>2, <1>7, MaxRetriesPositive
  <2>4. Contract!GiveUp(k)
    BY <1>1, <1>4, <1>5, <2>2, <2>3, ViewAt DEF Contract!GiveUp
  <2> QED
    BY <1>1, <2>4 DEF Contract!ContractNext, Contract!Recording
<1>8. CASE ~(r.retry >= maxRetries)
  <2>1. r.retry < maxRetries
    BY <1>2, <1>8, MaxRetriesPositive
  <2>2. r # NoRequest
    BY <1>0, <1>1, <2>1, RetriedType, NoRequestAssumption
  <2>3. pending'[k] = r /\ visited' = visited /\ failed' = failed
    BY <1>0, <1>1, <1>2, <1>8 DEF MarkHandledWithError, QueueTypeOK
  <2>4. StatusOf(k)' = "pending" /\ RetryOf(k)' = r.retry
    BY <1>6, <2>2, <2>3 DEF StatusOf, RetryOf
  <2>5. Contract!Retry(k)
    BY <1>1, <1>2, <1>4, <1>5, <2>1, <2>4, ViewAt DEF Contract!Retry
  <2> QED
    BY <1>1, <2>5 DEF Contract!ContractNext, Contract!Recording
<1> QED
  BY <1>7, <1>8

\* Every step of the queue is one step of the contract, or none.
LEMMA StepKeepsContract ==
  ASSUME QueueTypeOK, OnePlacePerKey, QueueTypeOK', OnePlacePerKey',
         [QueueNextFresh]_queueVars
  PROVE  [Contract!ContractNext]_(Contract!contractVars)
<1>1. CASE \E u \in Urls : AddFresh(u)
  BY <1>1, AddKeepsContract
<1>2. CASE WorkerCalls
  BY <1>2, FetchNextKeepsContract, MarkHandledKeepsContract, MarkHandledWithErrorKeepsContract
     DEF WorkerCalls
<1>3. CASE UNCHANGED queueVars
  <2>1. \A j \in Keys : StatusOf(j)' = StatusOf(j) /\ RetryOf(j)' = RetryOf(j)
    BY <1>3, OtherKeys DEF queueVars
  <2> QED
    BY <2>1 DEF Contract!contractVars
<1> QED
  BY <1>1, <1>2, <1>3 DEF QueueNextFresh

\* The queue implements the request lifecycle of the README, for any number of
\* workers and URLs, as long as no key in a worker's hands is added again.
THEOREM ImplementsContract == QueueSpecFresh => KeepsContract
<1>1. QueueInit => Contract!ContractInit
  <2> SUFFICES ASSUME QueueInit
               PROVE  Contract!ContractInit
    OBVIOUS
  <2>1. \A k \in Keys : StatusOf(k) = "unknown" /\ RetryOf(k) = 0
    BY DEF QueueInit, StatusOf, RetryOf, HeldKeys
  <2> QED
    BY <2>1 DEF Contract!ContractInit
<1>2. QueueTypeOK /\ OnePlacePerKey /\ (QueueTypeOK /\ OnePlacePerKey)' /\ [QueueNextFresh]_queueVars
        => [Contract!ContractNext]_(Contract!contractVars)
  BY StepKeepsContract
<1> QED
  BY <1>1, <1>2, FreshTypeCorrect, KeepsOnePlacePerKey, PTL
     DEF QueueSpecFresh, KeepsContract, Contract!ContractSpec

-----------------------------------------------------------------------------
(* The steps of a worker.                                                    *)

\* A step of some worker, spelled out.
LoopStep(w, at) ==
  \/ \E k \in Keys : FetchRequest(w, k, at)
  \/ QueueEmpty(w, at)
  \/ ProcessRequest(w)

\* One worker more, one worker less.
LEMMA CountChange ==
  ASSUME IsFiniteSet(Workers), NEW S \in SUBSET Workers, NEW w \in Workers
  PROVE  /\ Cardinality(S) \in Nat
         /\ w \notin S => Cardinality(S \cup {w}) = Cardinality(S) + 1
         /\ w \in S => Cardinality(S \ {w}) = Cardinality(S) - 1
<1>1. IsFiniteSet(S)
  BY FS_Subset
<1> QED
  BY <1>1, FS_CardinalityType, FS_AddElement, FS_RemoveElement

\* Before the first step the seeds are pending and nobody has a request.
LEMMA LoopInitInv ==
  ASSUME NEW start \in [Workers -> {"idle", "head"}], LoopInit(start)
  PROVE  QueueTypeOK /\ LoopTypeOK /\ BusyWorkersHold /\ DiscoveriesKnown
<1>1. \A s \in Seeds : /\ normalizeURL[s] \in Keys
                       /\ (CHOOSE v \in Seeds : normalizeURL[v] = normalizeURL[s]) = s
                       /\ [url |-> s, retry |-> 0] \in Request
  BY SeedsAssumption, MaxRetriesPositive DEF ValidUrls, Request
<1>2. QueueTypeOK
  BY <1>1 DEF LoopInit, Seeded, QueueTypeOK, UniqueKey
<1>3. LoopTypeOK
  <2>1. Crawling = {}
    BY DEF LoopInit, Crawling
  <2>2. Cardinality({}) = 0
    BY FS_EmptySet
  <2>3. 0 \in 0 .. AttemptCap
    BY AttemptCapAssumption
  <2> QED
    BY <2>1, <2>2, <2>3 DEF LoopInit, LoopTypeOK
<1>4. BusyWorkersHold
  BY DEF LoopInit, BusyWorkersHold
<1>5. DiscoveriesKnown
  <2>1. ASSUME NEW s \in Seeds
        PROVE  normalizeURL[s] \in PendingKeys
    BY <1>1, NoRequestAssumption DEF LoopInit, Seeded, PendingKeys
  <2>2. \A w \in Workers : pc[w] # "crawl"
    BY DEF LoopInit
  <2> QED
    BY <2>1, <2>2 DEF LoopInit, DiscoveriesKnown, AllKnown, KnownKeys
<1> QED
  BY <1>2, <1>3, <1>4, <1>5

-----------------------------------------------------------------------------
(* Type correctness.                                                        *)

\* The queue under a worker's step: one of the queue's operations, or nothing.
LEMMA LoopStepQueueType ==
  ASSUME QueueTypeOK, LoopTypeOK, NEW w \in Workers, NEW at \in {"head", "fetch"}, LoopStep(w, at)
  PROVE  QueueTypeOK'
<1>1. CASE UNCHANGED queueVars
  BY <1>1 DEF queueVars, QueueTypeOK, UniqueKey
<1>2. ASSUME NEW k \in Keys, FetchRequest(w, k, at)
      PROVE  QueueTypeOK'
  BY <1>2, FetchNextType DEF FetchRequest
<1>3. CASE MarkHandled(w)
  BY <1>3, MarkHandledType
<1>4. CASE MarkHandledWithError(w)
  BY <1>4, MarkHandledWithErrorType
<1>5. ASSUME NEW l \in todo[w], EnqueueLink(w, l)
      PROVE  QueueTypeOK'
  <2>1. l \in Urls
    BY DEF LoopTypeOK
  <2>2. Add(l) \/ UNCHANGED queueVars
    BY <1>5 DEF EnqueueLink
  <2> QED
    BY <1>1, <2>1, <2>2, AddType
<1> QED
  BY <1>1, <1>2, <1>3, <1>4, <1>5
     DEF LoopStep, QueueEmpty, ProcessRequest, WaitGranted, WaitCancelled, CrawlSucceeds,
         CrawlFails, Deactivate

LEMMA LoopStepLoopType ==
  ASSUME IsFiniteSet(Workers), QueueTypeOK, LoopTypeOK, BusyWorkersHold, NEW w \in Workers, NEW at \in {"head", "fetch"}, LoopStep(w, at)
  PROVE  LoopTypeOK'
<1>1. Crawling \in SUBSET Workers
  BY DEF Crawling
<1>2. ASSUME NEW k \in Keys, FetchRequest(w, k, at)
      PROVE  LoopTypeOK'
  <2>1. Crawling' = Crawling
    BY <1>2 DEF FetchRequest, Goto, Crawling, LoopTypeOK
  <2> QED
    BY <1>2, <2>1 DEF FetchRequest, Goto, LoopTypeOK
<1>3. CASE QueueEmpty(w, at)
  <2>1. Crawling' = Crawling
    BY <1>3 DEF QueueEmpty, Goto, Crawling, LoopTypeOK
  <2> QED
    BY <1>3, <2>1 DEF QueueEmpty, Goto, LoopTypeOK
<1>4. CASE WaitGranted(w)
  <2>1. Crawling' = Crawling \cup {w} /\ w \notin Crawling
    BY <1>4 DEF WaitGranted, Goto, Crawling, LoopTypeOK
  <2>2. held[w] \in Request /\ Links[held[w].url] \in SUBSET Urls
    BY <1>4, HeldIsRequest, LinksAssumption
       DEF WaitGranted, BusyWorkersHold, Request, ValidUrls
  <2>3. attempts' \in [Keys -> 0 .. AttemptCap]
    <3>1. PICK k \in Keys : k = UniqueKey(held[w])
      BY <1>4, HeldIsRequest DEF WaitGranted, BusyWorkersHold
    <3>2. attempts[k] \in 0 .. AttemptCap
      BY DEF LoopTypeOK
    <3>3. attempts[k] < AttemptCap => attempts[k] + 1 \in 0 .. AttemptCap
      BY <3>2, AttemptCapAssumption
    <3>4. attempts' = IF attempts[k] < AttemptCap
                      THEN [attempts EXCEPT ![k] = attempts[k] + 1]
                      ELSE attempts
      BY <1>4, <3>1 DEF WaitGranted
    <3> QED
      BY <3>3, <3>4 DEF LoopTypeOK
  <2>4. activeWorkers' = Cardinality(Crawling')
    BY <1>1, <1>4, <2>1, CountChange DEF WaitGranted, LoopTypeOK
  <2> QED
    BY <1>4, <2>2, <2>3, <2>4 DEF WaitGranted, Goto, LoopTypeOK
<1>5. CASE WaitCancelled(w)
  <2>1. Crawling' = Crawling
    BY <1>5 DEF WaitCancelled, Goto, Crawling, LoopTypeOK
  <2> QED
    BY <1>5, <2>1 DEF WaitCancelled, Goto, LoopTypeOK
<1>6. ASSUME NEW l \in todo[w], EnqueueLink(w, l)
      PROVE  LoopTypeOK'
  <2>1. Crawling' = Crawling
    BY <1>6 DEF EnqueueLink, Crawling
  <2> QED
    BY <1>6, <2>1 DEF EnqueueLink, LoopTypeOK
<1>7. CASE CrawlSucceeds(w)
  <2>1. Crawling' = Crawling
    BY <1>7 DEF CrawlSucceeds, Goto, Crawling, LoopTypeOK
  <2>2. held[w].url \in ValidUrls
    BY <1>7, HeldIsRequest DEF CrawlSucceeds, BusyWorkersHold, Request
  <2> QED
    BY <1>7, <2>1, <2>2 DEF CrawlSucceeds, Goto, LoopTypeOK
<1>8. CASE CrawlFails(w)
  <2>1. Crawling' = Crawling
    BY <1>8 DEF CrawlFails, Goto, Crawling, LoopTypeOK
  <2> QED
    BY <1>8, <2>1 DEF CrawlFails, Goto, LoopTypeOK
<1>9. CASE Deactivate(w)
  <2>1. Crawling' = Crawling \ {w} /\ w \in Crawling
    BY <1>9 DEF Deactivate, Goto, Crawling, LoopTypeOK
  <2>2. activeWorkers' = Cardinality(Crawling')
    BY <1>1, <1>9, <2>1, CountChange DEF Deactivate, LoopTypeOK
  <2> QED
    BY <1>9, <2>2 DEF Deactivate, Goto, LoopTypeOK
<1> QED
  BY <1>2, <1>3, <1>4, <1>5, <1>6, <1>7, <1>8, <1>9 DEF LoopStep, ProcessRequest

-----------------------------------------------------------------------------
(* Who holds a request, and what is known of the site.                      *)

LEMMA LoopStepBusy ==
  ASSUME QueueTypeOK, LoopTypeOK, BusyWorkersHold, NEW w \in Workers, NEW at \in {"head", "fetch"}, LoopStep(w, at)
  PROVE  BusyWorkersHold'
<1>1. ASSUME NEW k \in Keys, FetchRequest(w, k, at)
      PROVE  BusyWorkersHold'
  BY <1>1 DEF FetchRequest, FetchNext, Goto, BusyWorkersHold, QueueTypeOK, LoopTypeOK
<1>2. CASE QueueEmpty(w, at)
  BY <1>2 DEF QueueEmpty, Goto, queueVars, BusyWorkersHold, QueueTypeOK, LoopTypeOK
<1>3. CASE WaitGranted(w)
  BY <1>3 DEF WaitGranted, Goto, queueVars, BusyWorkersHold, QueueTypeOK, LoopTypeOK
<1>4. CASE WaitCancelled(w)
  BY <1>4 DEF WaitCancelled, MarkHandled, Goto, BusyWorkersHold, QueueTypeOK, LoopTypeOK
<1>5. ASSUME NEW l \in todo[w], EnqueueLink(w, l)
      PROVE  BusyWorkersHold'
  BY <1>5 DEF EnqueueLink, Add, queueVars, BusyWorkersHold
<1>6. CASE CrawlSucceeds(w)
  BY <1>6 DEF CrawlSucceeds, MarkHandled, Goto, BusyWorkersHold, QueueTypeOK, LoopTypeOK
<1>7. CASE CrawlFails(w)
  BY <1>7 DEF CrawlFails, MarkHandledWithError, Goto, BusyWorkersHold, QueueTypeOK, LoopTypeOK
<1>8. CASE Deactivate(w)
  BY <1>8 DEF Deactivate, Goto, queueVars, BusyWorkersHold, QueueTypeOK, LoopTypeOK
<1> QED
  BY <1>1, <1>2, <1>3, <1>4, <1>5, <1>6, <1>7, <1>8 DEF LoopStep, ProcessRequest

LEMMA LoopStepKnown ==
  ASSUME QueueTypeOK, LoopTypeOK, NEW w \in Workers, NEW at \in {"head", "fetch"}, LoopStep(w, at)
  PROVE  KnownKeys \subseteq KnownKeys'
<1>1. CASE UNCHANGED queueVars
  BY <1>1 DEF queueVars, KnownKeys, PendingKeys, HeldKeys, UniqueKey
<1>2. ASSUME NEW k \in Keys, FetchRequest(w, k, at)
      PROVE  KnownKeys \subseteq KnownKeys'
  BY <1>2, FetchNextKnown DEF FetchRequest
<1>3. CASE MarkHandled(w)
  BY <1>3, MarkHandledKnown
<1>4. CASE MarkHandledWithError(w)
  BY <1>4, MarkHandledWithErrorKnown
<1>5. ASSUME NEW l \in todo[w], EnqueueLink(w, l)
      PROVE  KnownKeys \subseteq KnownKeys'
  BY <1>1, <1>5, AddKnown DEF EnqueueLink, LoopTypeOK
<1> QED
  BY <1>1, <1>2, <1>3, <1>4, <1>5
     DEF LoopStep, QueueEmpty, ProcessRequest, WaitGranted, WaitCancelled, CrawlSucceeds,
         CrawlFails, Deactivate

\* What a worker has found so far in the page it crawls.
FoundKnown(v) == pc[v] = "crawl" => AllKnown(PermittedLinks(held[v].url) \ todo[v])

\* The other workers' pages: their links stay known.
LEMMA OthersFoundKnown ==
  ASSUME LoopTypeOK, DiscoveriesKnown, KnownKeys \subseteq KnownKeys', NEW v \in Workers,
         pc'[v] = pc[v], held'[v] = held[v], todo'[v] = todo[v]
  PROVE  FoundKnown(v)'
BY DEF DiscoveriesKnown, AllKnown, FoundKnown, PermittedLinks

LEMMA LoopStepLeavesOthers ==
  ASSUME QueueTypeOK, LoopTypeOK, NEW w \in Workers, NEW at \in {"head", "fetch"}, LoopStep(w, at), NEW v \in Workers \ {w}
  PROVE  pc'[v] = pc[v] /\ held'[v] = held[v] /\ todo'[v] = todo[v]
BY DEF LoopStep, ProcessRequest, FetchRequest, FetchNext, QueueEmpty, WaitGranted,
       WaitCancelled, EnqueueLink, Add, CrawlSucceeds, MarkHandled, CrawlFails,
       MarkHandledWithError, Deactivate, Goto, queueVars, QueueTypeOK, LoopTypeOK

LEMMA LoopStepDiscoveries ==
  ASSUME QueueTypeOK, LoopTypeOK, DiscoveriesKnown, NEW w \in Workers, NEW at \in {"head", "fetch"}, LoopStep(w, at)
  PROVE  DiscoveriesKnown'
<1>1. KnownKeys \subseteq KnownKeys'
  BY LoopStepKnown
<1>2. AllKnown(Seeds)'
  BY <1>1 DEF DiscoveriesKnown, AllKnown
<1>3. \A u \in succeeded : AllKnown(PermittedLinks(u))'
  BY <1>1 DEF DiscoveriesKnown, AllKnown, PermittedLinks
<1>4. \A v \in Workers \ {w} : FoundKnown(v)'
  BY <1>1, LoopStepLeavesOthers, OthersFoundKnown
<1>5. SUFFICES /\ \A u \in succeeded' : AllKnown(PermittedLinks(u))'
               /\ FoundKnown(w)'
  BY <1>2, <1>4 DEF DiscoveriesKnown, FoundKnown
<1>6. CASE succeeded' = succeeded /\ pc'[w] # "crawl"
  BY <1>3, <1>6 DEF FoundKnown
<1>7. CASE WaitGranted(w)
  <2>1. held' = held /\ succeeded' = succeeded /\ todo'[w] = Links[held[w].url]
    BY <1>7 DEF WaitGranted, queueVars, LoopTypeOK
  <2> QED
    BY <1>3, <2>1 DEF FoundKnown, AllKnown, PermittedLinks
<1>8. ASSUME NEW l \in todo[w], EnqueueLink(w, l)
      PROVE  succeeded' = succeeded /\ FoundKnown(w)'
  <2>1. /\ pc[w] = "crawl" /\ l \in Urls
        /\ held' = held /\ succeeded' = succeeded
        /\ todo'[w] = todo[w] \ {l}
    BY <1>8 DEF EnqueueLink, Add, queueVars, LoopTypeOK
  <2>2. <<held[w].url, l>> \in Permitted /\ normalizeURL[l] \in Keys => normalizeURL[l] \in KnownKeys'
    BY <1>8, <2>1, AddKnown DEF EnqueueLink
  <2>3. AllKnown(PermittedLinks(held[w].url) \ todo[w])
    BY <2>1 DEF DiscoveriesKnown
  <2>4. \A m \in PermittedLinks(held[w].url) \ (todo[w] \ {l}) : normalizeURL[m] \in KnownKeys'
    BY <1>1, <2>2, <2>3 DEF AllKnown, PermittedLinks
  <2>5. PermittedLinks(held[w].url)' = PermittedLinks(held[w].url)
    BY <2>1 DEF PermittedLinks
  <2> QED
    BY <2>1, <2>4, <2>5 DEF FoundKnown, AllKnown
<1>9. CASE CrawlSucceeds(w)
  <2>1. /\ pc[w] = "crawl" /\ todo[w] = {}
        /\ succeeded' = succeeded \cup {held[w].url}
        /\ pc'[w] # "crawl"
    BY <1>9 DEF CrawlSucceeds, Goto, LoopTypeOK
  <2>2. AllKnown(PermittedLinks(held[w].url))
    BY <2>1 DEF DiscoveriesKnown, AllKnown
  <2>3. ASSUME NEW u \in succeeded'
        PROVE  AllKnown(PermittedLinks(u))'
    BY <1>1, <1>3, <2>1, <2>2 DEF AllKnown, PermittedLinks
  <2> QED
    BY <2>1, <2>3 DEF FoundKnown
<1>10. \/ succeeded' = succeeded /\ pc'[w] # "crawl"
       \/ WaitGranted(w)
       \/ \E l \in todo[w] : EnqueueLink(w, l)
       \/ CrawlSucceeds(w)
  BY DEF LoopStep, ProcessRequest, FetchRequest, QueueEmpty, WaitCancelled, CrawlFails, Deactivate,
         Goto, LoopTypeOK
<1> QED
  BY <1>3, <1>6, <1>7, <1>8, <1>9, <1>10

\* The steps of everybody else leave the queue and the workers alone.
LEMMA QueueAndLoopUnchanged ==
  ASSUME QueueTypeOK, LoopTypeOK, BusyWorkersHold, DiscoveriesKnown,
         UNCHANGED <<queueVars, pc, todo, activeWorkers, attempts, succeeded>>,
         ctxDone' \in BOOLEAN, ctxDone => ctxDone'
  PROVE  /\ QueueTypeOK' /\ LoopTypeOK' /\ BusyWorkersHold'
         /\ DiscoveriesKnown'
<1> USE DEF queueVars
<1>1. QueueTypeOK'
  BY DEF QueueTypeOK, UniqueKey
<1>2. Crawling' = Crawling
  BY DEF Crawling
<1>3. LoopTypeOK'
  BY <1>2 DEF LoopTypeOK
<1>4. BusyWorkersHold'
  BY DEF BusyWorkersHold
<1>5. KnownKeys' = KnownKeys /\ IsEmpty' = IsEmpty
  BY DEF KnownKeys, PendingKeys, HeldKeys, UniqueKey, IsEmpty
<1>6. DiscoveriesKnown'
  BY <1>5 DEF DiscoveriesKnown, AllKnown, PermittedLinks
<1> QED
  BY <1>1, <1>3, <1>4, <1>6

-----------------------------------------------------------------------------
(* What the marks say about the crawls.                                     *)

\* Only a crawl without an error gets its page marked handled, unless a cancelled
\* limiter does.
LEMMA LoopStepCompleted ==
  ASSUME QueueTypeOK, LoopTypeOK, BusyWorkersHold, CompletedMeansCrawled,
         ~(RateLimited /\ ctxDone), NEW w \in Workers, NEW at \in {"head", "fetch"},
         LoopStep(w, at)
  PROVE  CompletedMeansCrawled'
<1>1. CASE UNCHANGED <<visited, failed>> /\ succeeded \subseteq succeeded'
  BY <1>1 DEF CompletedMeansCrawled
<1>2. CASE CrawlSucceeds(w)
  <2>1. /\ visited' = visited \cup {UniqueKey(held[w])}
        /\ failed' = failed
        /\ succeeded' = succeeded \cup {held[w].url}
    BY <1>2 DEF CrawlSucceeds, MarkHandled
  <2> QED
    BY <2>1 DEF CompletedMeansCrawled, UniqueKey
<1>3. CASE CrawlFails(w)
  <2>1. /\ \/ UNCHANGED <<visited, failed>>
           \/ \E k \in {UniqueKey(Retried(held[w]))} :
                visited' = visited \cup {k} /\ failed' = failed \cup {k}
        /\ succeeded' = succeeded
    BY <1>3 DEF CrawlFails, MarkHandledWithError
  <2> QED
    BY <2>1 DEF CompletedMeansCrawled
<1>4. CASE WaitCancelled(w)
  BY <1>4 DEF WaitCancelled
<1> QED
  BY <1>1, <1>2, <1>3, <1>4
     DEF LoopStep, FetchRequest, FetchNext, QueueEmpty, ProcessRequest, WaitGranted, EnqueueLink,
         Add, Deactivate, queueVars

\* The links a crawl has still to look at are those of its page, and the crawl is
\* counted.
CrawlsItsPage ==
  \A w \in Workers : pc[w] = "crawl" =>
    todo[w] \subseteq Links[held[w].url] /\ attempts[UniqueKey(held[w])] > 0

LEMMA LoopStepPage ==
  ASSUME AttemptCap > 0, QueueTypeOK, LoopTypeOK, BusyWorkersHold, CrawlsItsPage,
         NEW w \in Workers, NEW at \in {"head", "fetch"}, LoopStep(w, at)
  PROVE  CrawlsItsPage' /\ \A k \in Keys : attempts[k] > 0 => attempts'[k] > 0
<1>1. \A k \in Keys : attempts[k] \in 0 .. AttemptCap
  BY DEF LoopTypeOK
<1>2. \A k \in Keys : attempts[k] > 0 => attempts'[k] > 0
  <2>1. CASE attempts' = attempts
    BY <2>1
  <2>2. CASE WaitGranted(w)
    <3>1. PICK k \in Keys : k = UniqueKey(held[w])
      BY <2>2, HeldIsRequest DEF WaitGranted, BusyWorkersHold
    <3>2. attempts' = IF attempts[k] < AttemptCap
                      THEN [attempts EXCEPT ![k] = attempts[k] + 1] ELSE attempts
      BY <2>2, <3>1 DEF WaitGranted
    <3> QED
      BY <1>1, <3>2, AttemptCapAssumption DEF LoopTypeOK
  <2> QED
    BY <2>1, <2>2 DEF LoopStep, ProcessRequest, FetchRequest, QueueEmpty, WaitCancelled, EnqueueLink,
       CrawlSucceeds, CrawlFails, Deactivate
<1>3. ASSUME NEW v \in Workers \ {w}, pc'[v] = "crawl"
      PROVE  todo'[v] \subseteq Links[held'[v].url] /\ attempts'[UniqueKey(held[v])'] > 0
  <2>1. pc'[v] = pc[v] /\ held'[v] = held[v] /\ todo'[v] = todo[v]
    BY LoopStepLeavesOthers
  <2>2. UniqueKey(held[v])' = UniqueKey(held[v]) /\ UniqueKey(held[v]) \in Keys
    BY <1>3, <2>1, HeldIsRequest DEF BusyWorkersHold, UniqueKey
  <2> QED
    BY <1>2, <1>3, <2>1, <2>2 DEF CrawlsItsPage
<1>4. ASSUME pc'[w] = "crawl"
      PROVE  todo'[w] \subseteq Links[held'[w].url] /\ attempts'[UniqueKey(held[w])'] > 0
  <2>1. CASE WaitGranted(w)
    <3>1. PICK k \in Keys : k = UniqueKey(held[w])
      BY <2>1, HeldIsRequest DEF WaitGranted, BusyWorkersHold
    <3>2. /\ held' = held /\ todo'[w] = Links[held[w].url]
          /\ attempts' = IF attempts[k] < AttemptCap
                         THEN [attempts EXCEPT ![k] = attempts[k] + 1] ELSE attempts
      BY <2>1, <3>1 DEF WaitGranted, queueVars, LoopTypeOK
    <3>3. attempts'[k] > 0
      BY <1>1, <3>2, AttemptCapAssumption DEF LoopTypeOK
    <3> QED
      BY <3>1, <3>2, <3>3 DEF UniqueKey
  <2>2. ASSUME NEW l \in todo[w], EnqueueLink(w, l)
        PROVE  /\ pc[w] = "crawl" /\ held' = held /\ attempts' = attempts
               /\ todo'[w] \subseteq todo[w]
    BY <2>2 DEF EnqueueLink, Add, queueVars, LoopTypeOK
  <2>3. WaitGranted(w) \/ \E l \in todo[w] : EnqueueLink(w, l)
    BY <1>4 DEF LoopStep, ProcessRequest, FetchRequest, QueueEmpty, WaitCancelled, CrawlSucceeds,
       CrawlFails, Deactivate, Goto, LoopTypeOK
  <2> QED
    BY <2>1, <2>2, <2>3 DEF CrawlsItsPage, UniqueKey
<1> QED
  BY <1>2, <1>3, <1>4 DEF CrawlsItsPage

\* A step adds to the known keys at most that of a permitted link.
NewsOf(w, k) ==
  \E l \in todo[w] :
    /\ EnqueueLink(w, l) /\ <<held[w].url, l>> \in Permitted
    /\ k = normalizeURL[l] /\ k \in Keys

LEMMA LoopStepNews ==
  ASSUME QueueTypeOK, LoopTypeOK,
         NEW w \in Workers, NEW at \in {"head", "fetch"}, LoopStep(w, at)
  PROVE  \A k \in KnownKeys' : k \in KnownKeys \/ NewsOf(w, k)
<1>1. CASE UNCHANGED queueVars
  BY <1>1 DEF queueVars, KnownKeys, PendingKeys, HeldKeys, UniqueKey
<1>2. ASSUME NEW k \in Keys, FetchRequest(w, k, at)
      PROVE  KnownKeys' \subseteq KnownKeys
  <2>1. /\ pending[k] # NoRequest /\ UniqueKey(pending[k]) = k
        /\ held' = [held EXCEPT ![w] = pending[k]]
        /\ pending' = [pending EXCEPT ![k] = NoRequest]
        /\ visited' = visited
    BY <1>2 DEF FetchRequest, FetchNext, QueueTypeOK
  <2>2. HeldKeys' \subseteq HeldKeys \cup {k}
    BY <2>1 DEF HeldKeys, QueueTypeOK, UniqueKey
  <2>3. PendingKeys' \subseteq PendingKeys /\ k \in PendingKeys
    BY <2>1 DEF PendingKeys, QueueTypeOK
  <2> QED
    BY <2>1, <2>2, <2>3 DEF KnownKeys
<1>3. CASE MarkHandled(w)
  <2>1. UniqueKey(held[w]) \in HeldKeys
    BY <1>3 DEF MarkHandled, HeldKeys
  <2>2. HeldKeys' \subseteq HeldKeys
    BY <1>3, PutDownHeld DEF MarkHandled
  <2>3. pending' = pending /\ visited' = visited \cup {UniqueKey(held[w])}
    BY <1>3 DEF MarkHandled
  <2> QED
    BY <2>1, <2>2, <2>3 DEF KnownKeys, PendingKeys
<1>4. CASE MarkHandledWithError(w)
  <2>1. PICK k \in Keys : k = UniqueKey(held[w]) /\ k = UniqueKey(Retried(held[w]))
    BY <1>4, HeldIsRequest, RetriedType DEF MarkHandledWithError
  <2>2. k \in HeldKeys
    BY <1>4, <2>1 DEF MarkHandledWithError, HeldKeys
  <2>3. HeldKeys' \subseteq HeldKeys
    BY <1>4, PutDownHeld DEF MarkHandledWithError
  <2>4. /\ visited' \subseteq visited \cup {k}
        /\ \A j \in Keys \ {k} : pending'[j] = pending[j]
    BY <1>4, <2>1 DEF MarkHandledWithError, QueueTypeOK
  <2>5. PendingKeys' \subseteq PendingKeys \cup {k}
    BY <2>4 DEF PendingKeys
  <2> QED
    BY <2>2, <2>3, <2>4, <2>5 DEF KnownKeys
<1>5. ASSUME NEW l \in todo[w], EnqueueLink(w, l)
      PROVE  \A k \in KnownKeys' : k \in KnownKeys \/ NewsOf(w, k)
  <2>1. CASE UNCHANGED queueVars
    BY <1>1, <2>1 DEF queueVars, KnownKeys, PendingKeys, HeldKeys, UniqueKey
  <2>2. CASE <<held[w].url, l>> \in Permitted /\ Add(l)
    <3>1. /\ held' = held /\ visited' = visited
          /\ \A k \in Keys : pending'[k] = pending[k] \/ k = normalizeURL[l]
      BY <2>2 DEF Add, QueueTypeOK
    <3>2. HeldKeys' = HeldKeys /\ PendingKeys' \subseteq PendingKeys \cup ({normalizeURL[l]} \cap Keys)
      BY <3>1 DEF HeldKeys, PendingKeys, UniqueKey
    <3> QED
      BY <1>5, <2>2, <3>1, <3>2 DEF KnownKeys, NewsOf
  <2> QED
    BY <1>5, <2>1, <2>2 DEF EnqueueLink
<1> QED
  BY <1>1, <1>2, <1>3, <1>4, <1>5
     DEF LoopStep, QueueEmpty, ProcessRequest, WaitGranted, WaitCancelled, CrawlSucceeds,
         CrawlFails, Deactivate

LEMMA LoopStepPermitted ==
  ASSUME AttemptCap > 0, QueueTypeOK, LoopTypeOK, BusyWorkersHold, CrawlsItsPage,
         OnlyPermittedPages,
         NEW w \in Workers, NEW at \in {"head", "fetch"}, LoopStep(w, at)
  PROVE  OnlyPermittedPages'
<1>1. \A k \in KnownKeys' : PermittedKey(k)
  <2>1. ASSUME NEW k, NewsOf(w, k)
        PROVE  PermittedKey(k)
    <3>1. pc[w] = "crawl" /\ held[w] \in Request /\ UniqueKey(held[w]) \in Keys
      BY <2>1, HeldIsRequest DEF NewsOf, EnqueueLink, BusyWorkersHold
    <3> QED
      BY <2>1, <3>1 DEF NewsOf, CrawlsItsPage, PermittedKey, UniqueKey
  <2> QED
    BY <2>1, LoopStepNews DEF OnlyPermittedPages
<1>2. \A k \in Keys : attempts[k] > 0 => attempts'[k] > 0
  BY LoopStepPage
<1>3. ASSUME NEW k, PermittedKey(k)
      PROVE  PermittedKey(k)'
  BY <1>2, <1>3 DEF PermittedKey
<1> QED
  BY <1>1, <1>3 DEF OnlyPermittedPages

-----------------------------------------------------------------------------
(* Workers that enqueue no link while one of them has its page keep the     *)
(* queue's contract, and with it the retry budget.                          *)

LEMMA LoopStepFresh ==
  ASSUME LoopTypeOK, AddsAreFresh, NEW w \in Workers, NEW at, LoopStep(w, at)
  PROVE  [QueueNextFresh]_queueVars
<1>1. ASSUME NEW l \in todo[w], EnqueueLink(w, l)
      PROVE  [QueueNextFresh]_queueVars
  <2>1. l \in Urls
    BY DEF LoopTypeOK
  <2>2. CASE <<held[w].url, l>> \in Permitted
    BY <1>1, <2>1, <2>2 DEF EnqueueLink, AddsAreFresh, AddFresh, QueueNextFresh
  <2>3. CASE <<held[w].url, l>> \notin Permitted
    BY <1>1, <2>3 DEF EnqueueLink
  <2> QED
    BY <2>2, <2>3
<1>2. \/ UNCHANGED queueVars
      \/ \E k \in Keys : FetchNext(w, k)
      \/ MarkHandled(w)
      \/ MarkHandledWithError(w)
      \/ \E l \in todo[w] : EnqueueLink(w, l)
  BY DEF LoopStep, ProcessRequest, FetchRequest, QueueEmpty, WaitGranted, WaitCancelled,
         CrawlSucceeds, CrawlFails, Deactivate
<1> QED
  BY <1>1, <1>2 DEF QueueNextFresh, WorkerCalls

\* No crawl starts for a visited page.
LEMMA LoopStepNotAgain ==
  ASSUME QueueTypeOK, LoopTypeOK, BusyWorkersHold, OnePlacePerKey,
         NEW w \in Workers, NEW at, LoopStep(w, at)
  PROVE  \A k \in visited : attempts'[k] = attempts[k]
<1>1. CASE attempts' = attempts
  BY <1>1
<1>2. CASE WaitGranted(w)
  <2>1. PICK j \in Keys : j = UniqueKey(held[w]) /\ j \notin visited
    BY <1>2, HeldIsRequest DEF WaitGranted, BusyWorkersHold, OnePlacePerKey
  <2>2. attempts' = IF attempts[j] < AttemptCap
                    THEN [attempts EXCEPT ![j] = attempts[j] + 1] ELSE attempts
    BY <1>2, <2>1 DEF WaitGranted
  <2>3. visited \subseteq Keys
    BY DEF QueueTypeOK
  <2> QED
    BY <2>1, <2>2, <2>3 DEF LoopTypeOK
<1> QED
  BY <1>1, <1>2 DEF LoopStep, ProcessRequest, FetchRequest, QueueEmpty, WaitCancelled, EnqueueLink,
     CrawlSucceeds, CrawlFails, Deactivate

\* A page was crawled at most as often as its request has been retried, but for
\* the crawl that is under way.
KeyBudget(k) ==
  /\ k \notin KnownKeys => attempts[k] = 0
  /\ pending[k] # NoRequest => attempts[k] <= pending[k].retry
  /\ k \in visited => attempts[k] <= maxRetries

HeldBudget(w) ==
  held[w] # NoRequest =>
    attempts[UniqueKey(held[w])] <= held[w].retry + (IF pc[w] = "crawl" THEN 1 ELSE 0)

WithinBudget == (\A k \in Keys : KeyBudget(k)) /\ \A w \in Workers : HeldBudget(w)

\* What a step leaves as it was.
LEMMA SameKeyBudget ==
  ASSUME QueueTypeOK, WithinBudget, KnownKeys \subseteq KnownKeys', NEW k \in Keys,
         attempts'[k] = attempts[k], pending'[k] \in {pending[k], NoRequest},
         k \in visited' => k \in visited
  PROVE  KeyBudget(k)'
BY DEF WithinBudget, KeyBudget

LEMMA SameHeldBudget ==
  ASSUME QueueTypeOK, WithinBudget, NEW w \in Workers,
         held'[w] = held[w], pc'[w] = pc[w], attempts' = attempts
  PROVE  HeldBudget(w)'
BY DEF WithinBudget, HeldBudget, UniqueKey

LEMMA FetchBudget ==
  ASSUME QueueTypeOK, LoopTypeOK, WithinBudget, NEW w \in Workers, NEW k \in Keys,
         NEW at \in {"head", "fetch"}, FetchRequest(w, k, at)
  PROVE  WithinBudget'
<1>1. /\ pending[k] # NoRequest /\ UniqueKey(pending[k]) = k
      /\ held'[w] = pending[k] /\ pc'[w] = "wait"
      /\ pending' = [pending EXCEPT ![k] = NoRequest]
      /\ attempts' = attempts /\ visited' = visited
  BY DEF FetchRequest, FetchNext, Goto, QueueTypeOK, LoopTypeOK
<1>2. KnownKeys \subseteq KnownKeys'
  BY FetchNextKnown DEF FetchRequest
<1>3. ASSUME NEW j \in Keys
      PROVE  KeyBudget(j)'
  <2>1. pending'[j] \in {pending[j], NoRequest}
    BY <1>1 DEF QueueTypeOK
  <2> QED
    BY <1>1, <1>2, <2>1, SameKeyBudget
<1>4. ASSUME NEW v \in Workers \ {w}
      PROVE  HeldBudget(v)'
  <2>1. held'[v] = held[v] /\ pc'[v] = pc[v]
    BY DEF FetchRequest, FetchNext, Goto, QueueTypeOK, LoopTypeOK
  <2> QED
    BY <1>1, <2>1, SameHeldBudget
<1>5. HeldBudget(w)'
  <2>1. attempts[k] <= pending[k].retry
    BY <1>1 DEF WithinBudget, KeyBudget
  <2>2. pending[k].retry \in Nat
    BY <1>1, MaxRetriesPositive DEF QueueTypeOK, Request
  <2>3. UniqueKey(held[w])' = k
    BY <1>1 DEF UniqueKey
  <2> QED
    BY <1>1, <2>1, <2>2, <2>3 DEF HeldBudget
<1> QED
  BY <1>3, <1>4, <1>5 DEF WithinBudget

LEMMA GrantBudget ==
  ASSUME QueueTypeOK, LoopTypeOK, BusyWorkersHold, OnePlacePerKey, WithinBudget,
         NEW w \in Workers, WaitGranted(w)
  PROVE  WithinBudget'
<1>1. PICK k \in Keys :
        /\ k = UniqueKey(held[w]) /\ k \notin visited /\ pending[k] = NoRequest
        /\ \A v \in Workers \ {w} : held[v] # NoRequest => UniqueKey(held[v]) # k
  BY HeldIsRequest DEF WaitGranted, BusyWorkersHold, OnePlacePerKey
<1>2. held[w] # NoRequest /\ held[w].retry \in Nat /\ pc[w] = "wait"
  BY HeldIsRequest, MaxRetriesPositive DEF WaitGranted, BusyWorkersHold, Request
<1>3. /\ pc' = [pc EXCEPT ![w] = "crawl"]
      /\ attempts' = IF attempts[k] < AttemptCap
                     THEN [attempts EXCEPT ![k] = attempts[k] + 1] ELSE attempts
      /\ UNCHANGED <<pending, visited, held>>
  BY <1>1 DEF WaitGranted, Goto, queueVars
<1>4. KnownKeys' = KnownKeys /\ k \in KnownKeys
  BY <1>1, <1>2, <1>3 DEF KnownKeys, PendingKeys, HeldKeys, UniqueKey
<1>5. \A j \in Keys \ {k} : attempts'[j] = attempts[j]
  BY <1>3 DEF LoopTypeOK
<1>6. ASSUME NEW j \in Keys
      PROVE  KeyBudget(j)'
  <2>1. CASE j = k
    BY <1>1, <1>3, <1>4, <2>1 DEF KeyBudget
  <2>2. CASE j # k
    BY <1>3, <1>4, <1>5, <2>2, SameKeyBudget
  <2> QED
    BY <2>1, <2>2
<1>7. ASSUME NEW v \in Workers \ {w}
      PROVE  HeldBudget(v)'
  <2>1. pc'[v] = pc[v] /\ UniqueKey(held[v])' = UniqueKey(held[v])
    BY <1>3 DEF LoopTypeOK, UniqueKey
  <2>2. held[v] # NoRequest => UniqueKey(held[v]) \in Keys \ {k}
    BY <1>1, HeldIsRequest
  <2> QED
    BY <1>3, <1>5, <2>1, <2>2 DEF WithinBudget, HeldBudget
<1>8. HeldBudget(w)'
  <2>1. attempts[k] <= held[w].retry /\ attempts[k] \in Nat
    BY <1>1, <1>2, AttemptCapAssumption DEF WithinBudget, HeldBudget, LoopTypeOK
  <2>2. attempts'[k] <= held[w].retry + 1
    BY <1>2, <1>3, <2>1 DEF LoopTypeOK
  <2>3. UniqueKey(held[w])' = k /\ pc'[w] = "crawl"
    BY <1>1, <1>3 DEF UniqueKey, LoopTypeOK
  <2> QED
    BY <1>3, <2>2, <2>3 DEF HeldBudget
<1> QED
  BY <1>6, <1>7, <1>8 DEF WithinBudget

LEMMA AddBudget ==
  ASSUME QueueTypeOK, LoopTypeOK, WithinBudget, NEW u \in Urls, AddFresh(u),
         UNCHANGED <<pc, attempts>>
  PROVE  WithinBudget'
<1> DEFINE k == normalizeURL[u]
<1>1. UNCHANGED <<visited, held>> /\ KnownKeys \subseteq KnownKeys'
  BY AddKnown DEF AddFresh, Add
<1>2. \A w \in Workers : HeldBudget(w)'
  BY <1>1, SameHeldBudget
<1>3. \A j \in Keys : pending'[j] = pending[j] => KeyBudget(j)'
  BY <1>1, SameKeyBudget
<1>4. CASE k \in Keys \ visited /\ pending[k] = NoRequest
  <2>1. pending' = [pending EXCEPT ![k] = [url |-> u, retry |-> 0]]
    BY <1>4 DEF AddFresh, Add
  <2>2. k \notin KnownKeys
    BY <1>4 DEF AddFresh, KnownKeys, PendingKeys
  <2>3. attempts'[k] = 0 /\ pending'[k].retry = 0
    BY <1>4, <2>1, <2>2 DEF WithinBudget, KeyBudget, QueueTypeOK
  <2>4. k \in KnownKeys'
    BY <1>4, AddKnown DEF AddFresh
  <2>5. KeyBudget(k)'
    BY <1>1, <1>4, <2>3, <2>4 DEF KeyBudget
  <2>6. \A j \in Keys \ {k} : pending'[j] = pending[j]
    BY <2>1 DEF QueueTypeOK
  <2> HIDE DEF k
  <2> QED
    BY <1>2, <1>3, <2>5, <2>6 DEF WithinBudget
<1>5. CASE ~(k \in Keys \ visited /\ pending[k] = NoRequest)
  BY <1>2, <1>3, <1>5 DEF AddFresh, Add, WithinBudget
<1> QED
  BY <1>4, <1>5

\* A mark: the request's crawls so far are at most one more than its retries.
LEMMA MarkBudget ==
  ASSUME QueueTypeOK, LoopTypeOK, WithinBudget, NEW w \in Workers,
         MarkHandled(w) \/ (pc[w] = "crawl" /\ MarkHandledWithError(w)), attempts' = attempts,
         \A v \in Workers \ {w} : pc'[v] = pc[v]
  PROVE  WithinBudget'
<1>1. PICK k \in Keys : k = UniqueKey(held[w]) /\ k = UniqueKey(Retried(held[w]))
  BY HeldIsRequest, RetriedType DEF MarkHandled, MarkHandledWithError
<1>2. /\ held[w] # NoRequest /\ held[w] \in Request
      /\ held[w].retry \in Nat /\ held[w].retry + 1 <= maxRetries
      /\ Retried(held[w]).retry = held[w].retry + 1
  <2>1. held[w] # NoRequest
    BY DEF MarkHandled, MarkHandledWithError
  <2>2. held[w] \in Request
    BY <2>1, HeldIsRequest
  <2>3. held[w].retry \in 0 .. maxRetries - 1
    BY <2>2 DEF Request
  <2> QED
    BY <2>1, <2>2, <2>3, MaxRetriesPositive DEF Retried
<1>3. attempts[k] <= held[w].retry + 1 /\ attempts[k] \in Nat
  <2>1. attempts[k] \in Nat
    BY AttemptCapAssumption DEF LoopTypeOK
  <2>2. attempts[k] <= held[w].retry + (IF pc[w] = "crawl" THEN 1 ELSE 0)
    BY <1>1, <1>2 DEF WithinBudget, HeldBudget
  <2> QED
    BY <1>2, <2>1, <2>2
<1>4. KnownKeys \subseteq KnownKeys' /\ k \in KnownKeys
  BY <1>1, <1>2, MarkHandledKnown, MarkHandledWithErrorKnown DEF KnownKeys, HeldKeys
<1>5. /\ held' = [held EXCEPT ![w] = NoRequest]
      /\ visited' \subseteq visited \cup {k}
      /\ pending' \in {pending, [pending EXCEPT ![k] = Retried(held[w])]}
  BY <1>1 DEF MarkHandled, MarkHandledWithError
<1>6. KeyBudget(k)'
  <2>1. pending'[k] # NoRequest => attempts'[k] <= pending'[k].retry
    BY <1>1, <1>2, <1>3, <1>5 DEF WithinBudget, KeyBudget, QueueTypeOK
  <2>2. attempts'[k] <= maxRetries
    BY <1>2, <1>3, MaxRetriesPositive
  <2> QED
    BY <1>4, <2>1, <2>2 DEF KeyBudget
<1>7. ASSUME NEW j \in Keys \ {k}
      PROVE  KeyBudget(j)'
  <2>1. pending'[j] = pending[j] /\ (j \in visited' => j \in visited)
    BY <1>5 DEF QueueTypeOK
  <2> QED
    BY <1>4, <2>1, SameKeyBudget
<1>8. ASSUME NEW v \in Workers
      PROVE  HeldBudget(v)'
  <2>1. CASE v = w
    BY <1>5, <2>1 DEF HeldBudget, QueueTypeOK
  <2>2. CASE v # w
    BY <1>5, <2>2, SameHeldBudget DEF QueueTypeOK
  <2> QED
    BY <2>1, <2>2
<1> QED
  BY <1>6, <1>7, <1>8 DEF WithinBudget

LEMMA LoopStepBudget ==
  ASSUME QueueTypeOK, LoopTypeOK, BusyWorkersHold, OnePlacePerKey, WithinBudget, AddsAreFresh,
         NEW w \in Workers, NEW at \in {"head", "fetch"}, LoopStep(w, at)
  PROVE  WithinBudget'
<1>1. \A v \in Workers \ {w} : pc'[v] = pc[v]
  BY LoopStepLeavesOthers
<1>2. ASSUME UNCHANGED queueVars, attempts' = attempts, pc'[w] = pc[w] \/ held[w] = NoRequest
      PROVE  WithinBudget'
  <2>1. KnownKeys' = KnownKeys
    BY <1>2 DEF queueVars, KnownKeys, PendingKeys, HeldKeys, UniqueKey
  <2>2. \A k \in Keys : KeyBudget(k)'
    BY <1>2, <2>1, SameKeyBudget DEF queueVars
  <2>3. \A v \in Workers : HeldBudget(v)'
    BY <1>1, <1>2, SameHeldBudget DEF queueVars, HeldBudget
  <2> QED
    BY <2>2, <2>3 DEF WithinBudget
<1>3. ASSUME QueueEmpty(w, at) \/ Deactivate(w)
      PROVE  WithinBudget'
  BY <1>2, <1>3 DEF QueueEmpty, Deactivate, BusyWorkersHold
<1>4. ASSUME NEW l \in todo[w], EnqueueLink(w, l)
      PROVE  WithinBudget'
  <2>1. l \in Urls
    BY DEF LoopTypeOK
  <2>2. UNCHANGED <<pc, attempts>>
    BY <1>4 DEF EnqueueLink
  <2>3. CASE <<held[w].url, l>> \in Permitted
    <3>1. AddFresh(l)
      BY <1>4, <2>1, <2>3 DEF EnqueueLink, AddsAreFresh, AddFresh
    <3> QED
      BY <2>1, <2>2, <3>1, AddBudget
  <2>4. CASE <<held[w].url, l>> \notin Permitted
    BY <1>2, <1>4, <2>2, <2>4 DEF EnqueueLink
  <2> QED
    BY <2>3, <2>4
<1>5. ASSUME WaitCancelled(w) \/ CrawlSucceeds(w) \/ CrawlFails(w)
      PROVE  WithinBudget'
  BY <1>1, <1>5, MarkBudget DEF WaitCancelled, CrawlSucceeds, CrawlFails
<1> QED
  BY <1>3, <1>4, <1>5, FetchBudget, GrantBudget DEF LoopStep, ProcessRequest

\* Everybody else leaves the requests, the pages and the marks alone.
QuietStep ==
  /\ UNCHANGED <<queueVars, todo, attempts, succeeded>>
  /\ \A w \in Workers : pc'[w] = pc[w] \/ (held[w] = NoRequest /\ pc'[w] # "crawl")

LEMMA QuietBudget ==
  ASSUME WithinBudget, QuietStep
  PROVE  WithinBudget'
<1>1. KnownKeys' = KnownKeys
  BY DEF QuietStep, queueVars, KnownKeys, PendingKeys, HeldKeys, UniqueKey
<1> QED
  BY <1>1 DEF QuietStep, queueVars, WithinBudget, KeyBudget, HeldBudget, UniqueKey

LEMMA BudgetKept == QueueTypeOK /\ LoopTypeOK /\ WithinBudget => RetryBudget
<1> SUFFICES ASSUME QueueTypeOK, LoopTypeOK, WithinBudget, NEW k \in Keys
             PROVE  attempts[k] <= maxRetries
  BY DEF RetryBudget
<1>1. attempts[k] \in Nat /\ maxRetries \in Nat
  BY MaxRetriesPositive, AttemptCapAssumption DEF LoopTypeOK
<1>2. CASE k \in PendingKeys
  <2>1. attempts[k] <= pending[k].retry /\ pending[k].retry \in 0 .. maxRetries - 1
    BY <1>2 DEF PendingKeys, QueueTypeOK, Request, WithinBudget, KeyBudget
  <2> QED
    BY <1>1, <2>1
<1>3. ASSUME NEW w \in Workers, held[w] # NoRequest, UniqueKey(held[w]) = k
      PROVE  attempts[k] <= maxRetries
  <2>1. attempts[k] <= held[w].retry + (IF pc[w] = "crawl" THEN 1 ELSE 0)
    BY <1>3 DEF WithinBudget, HeldBudget
  <2>2. held[w].retry \in 0 .. maxRetries - 1
    BY <1>3, HeldIsRequest DEF Request
  <2> QED
    BY <1>1, <2>1, <2>2
<1>4. CASE k \notin PendingKeys /\ k \notin HeldKeys
  BY <1>1, <1>4 DEF WithinBudget, KeyBudget, KnownKeys
<1> QED
  BY <1>2, <1>3, <1>4 DEF HeldKeys

-----------------------------------------------------------------------------
(* A site on which each page is found once keeps the additions fresh.       *)

\* A page is known by a seed, or by a link that a crawl has looked at and that no
\* crawl will look at again.
FoundByLooking(k) ==
  \/ \E s \in Seeds : normalizeURL[s] = k
  \/ \E u \in ValidUrls : \E l \in PermittedLinks(u) :
       /\ normalizeURL[l] = k
       /\ \/ u \in succeeded
          \/ \E w \in Workers : pc[w] = "crawl" /\ held[w].url = u /\ l \notin todo[w]

LookedAtOnce ==
  /\ \A w \in Workers : pc[w] = "crawl" => todo[w] \subseteq Links[held[w].url]
  /\ \A u \in succeeded : normalizeURL[u] \in visited
  /\ \A k \in KnownKeys : FoundByLooking(k)

LEMMA LookedAtFresh ==
  ASSUME FoundOnce, QueueTypeOK, LoopTypeOK, BusyWorkersHold, OnePlacePerKey, LookedAtOnce
  PROVE  AddsAreFresh
<1> SUFFICES ASSUME NEW w \in Workers, NEW l \in Urls, EnqueueLink(w, l),
                    <<held[w].url, l>> \in Permitted, normalizeURL[l] \in HeldKeys
             PROVE  FALSE
  BY DEF AddsAreFresh
<1>1. /\ pc[w] = "crawl" /\ l \in todo[w] /\ held[w] # NoRequest
      /\ held[w] \in Request /\ held[w].url \in ValidUrls
  BY HeldIsRequest DEF EnqueueLink, BusyWorkersHold, Request
<1>2. normalizeURL[l] \in Keys
  BY HeldIsRequest DEF HeldKeys
<1>3. l \in PermittedLinks(held[w].url)
  BY <1>1, <1>2 DEF LookedAtOnce, PermittedLinks
<1>4. FoundByLooking(normalizeURL[l])
  BY DEF LookedAtOnce, KnownKeys
<1>5. PICK u \in ValidUrls, m \in Urls :
        /\ m \in PermittedLinks(u)
        /\ normalizeURL[m] = normalizeURL[l]
        /\ \/ u \in succeeded
           \/ \E v \in Workers : pc[v] = "crawl" /\ held[v].url = u /\ m \notin todo[v]
  <2>1. \A s \in Seeds : normalizeURL[s] # normalizeURL[l]
    BY <1>1, <1>3 DEF FoundOnce
  <2>2. PICK u \in ValidUrls : \E m \in PermittedLinks(u) :
          /\ normalizeURL[m] = normalizeURL[l]
          /\ \/ u \in succeeded
             \/ \E v \in Workers : pc[v] = "crawl" /\ held[v].url = u /\ m \notin todo[v]
    BY <1>4, <2>1 DEF FoundByLooking
  <2>3. PermittedLinks(u) \subseteq Urls
    BY LinksAssumption DEF PermittedLinks, ValidUrls
  <2> QED
    BY <2>2, <2>3
<1>6. u = held[w].url /\ m = l
  BY <1>1, <1>3, <1>5 DEF FoundOnce
<1>7. u \notin succeeded
  BY <1>1, <1>6 DEF LookedAtOnce, OnePlacePerKey, UniqueKey
<1>8. PICK v \in Workers : pc[v] = "crawl" /\ held[v].url = u /\ m \notin todo[v]
  BY <1>5, <1>7
<1>9. v = w
  BY <1>1, <1>6, <1>8 DEF BusyWorkersHold, OnePlacePerKey, UniqueKey
<1> QED
  BY <1>1, <1>6, <1>8, <1>9

\* A link that was looked at stays so, in the hands of its worker or among the
\* pages crawled without an error.
LEMMA LookedAtStays ==
  ASSUME FoundOnce, ~ctxDone, QueueTypeOK, LoopTypeOK, BusyWorkersHold,
         NEW w \in Workers, NEW at \in {"head", "fetch"}, LoopStep(w, at),
         NEW k, FoundByLooking(k)
  PROVE  FoundByLooking(k)'
<1>1. succeeded \subseteq succeeded'
  BY DEF LoopStep, ProcessRequest, FetchRequest, QueueEmpty, WaitGranted, WaitCancelled,
         EnqueueLink, CrawlSucceeds, CrawlFails, Deactivate
<1>2. CASE \E s \in Seeds : normalizeURL[s] = k
  BY <1>2 DEF FoundByLooking
<1>3. ASSUME NEW u \in ValidUrls, NEW l \in PermittedLinks(u), normalizeURL[l] = k
      PROVE  u \in succeeded \/ (\E v \in Workers : pc[v] = "crawl" /\ held[v].url = u /\ l \notin todo[v])
               => FoundByLooking(k)'
  <2>1. CASE u \in succeeded
    BY <1>1, <1>3, <2>1 DEF FoundByLooking, PermittedLinks
  <2>2. ASSUME NEW v \in Workers, pc[v] = "crawl", held[v].url = u, l \notin todo[v]
        PROVE  FoundByLooking(k)'
    <3>1. CASE pc'[v] = "crawl" /\ held'[v] = held[v] /\ todo'[v] \subseteq todo[v]
      BY <1>3, <2>2, <3>1 DEF FoundByLooking, PermittedLinks
    <3>2. CASE v # w
      BY <2>2, <3>1, <3>2, LoopStepLeavesOthers
    <3>3. CASE v = w
      <4>1. ASSUME NEW m \in todo[w], EnqueueLink(w, m)
            PROVE  pc'[w] = "crawl" /\ held' = held /\ todo'[w] \subseteq todo[w]
        BY <4>1 DEF EnqueueLink, Add, queueVars, LoopTypeOK
      <4>2. CASE CrawlSucceeds(w)
        <5>1. u \in succeeded'
          BY <2>2, <3>3, <4>2 DEF CrawlSucceeds
        <5> QED
          BY <1>3, <5>1 DEF FoundByLooking, PermittedLinks
      <4>3. CASE CrawlFails(w)
        BY <2>2, <3>3, <4>3 DEF CrawlFails, FoundOnce
      <4>4. (\E m \in todo[w] : EnqueueLink(w, m)) \/ CrawlSucceeds(w) \/ CrawlFails(w)
        BY <2>2, <3>3 DEF LoopStep, ProcessRequest, FetchRequest, QueueEmpty, WaitGranted,
                          WaitCancelled, Deactivate
      <4> QED
        BY <3>1, <3>3, <4>1, <4>2, <4>3, <4>4
    <3> QED
      BY <3>2, <3>3
  <2> QED
    BY <2>1, <2>2
<1> QED
  BY <1>2, <1>3 DEF FoundByLooking

LEMMA LoopStepLookedAt ==
  ASSUME FoundOnce, ~ctxDone, QueueTypeOK, LoopTypeOK, BusyWorkersHold, LookedAtOnce,
         NEW w \in Workers, NEW at \in {"head", "fetch"}, LoopStep(w, at)
  PROVE  LookedAtOnce'
<1>1. ASSUME NEW v \in Workers, pc'[v] = "crawl"
      PROVE  todo'[v] \subseteq Links[held'[v].url]
  <2>1. CASE v # w
    BY <1>1, <2>1, LoopStepLeavesOthers DEF LookedAtOnce
  <2>2. CASE WaitGranted(w)
    BY <2>1, <2>2 DEF WaitGranted, queueVars, LoopTypeOK
  <2>3. ASSUME NEW l \in todo[w], EnqueueLink(w, l)
        PROVE  pc[w] = "crawl" /\ held' = held /\ todo'[w] \subseteq todo[w]
    BY <2>3 DEF EnqueueLink, Add, queueVars, LoopTypeOK
  <2>4. v # w \/ WaitGranted(w) \/ \E l \in todo[w] : EnqueueLink(w, l)
    BY <1>1 DEF LoopStep, ProcessRequest, FetchRequest, QueueEmpty, WaitCancelled, CrawlSucceeds,
       CrawlFails, Deactivate, Goto, LoopTypeOK
  <2> QED
    BY <2>1, <2>2, <2>3, <2>4 DEF LookedAtOnce
<1>2. \A u \in succeeded' : normalizeURL[u] \in visited'
  <2>1. visited \subseteq visited'
    BY DEF LoopStep, ProcessRequest, FetchRequest, FetchNext, QueueEmpty, WaitGranted, WaitCancelled,
       EnqueueLink, Add, CrawlSucceeds, MarkHandled, CrawlFails, MarkHandledWithError, Deactivate,
       queueVars
  <2>2. \/ succeeded' = succeeded
        \/ succeeded' = succeeded \cup {held[w].url} /\ normalizeURL[held[w].url] \in visited'
    BY DEF LoopStep, ProcessRequest, FetchRequest, QueueEmpty, WaitGranted, WaitCancelled,
       EnqueueLink, CrawlSucceeds, MarkHandled, UniqueKey, CrawlFails, Deactivate
  <2> QED
    BY <2>1, <2>2 DEF LookedAtOnce
<1>3. ASSUME NEW k, NewsOf(w, k)
      PROVE  FoundByLooking(k)'
  <2>1. PICK l \in todo[w] :
          /\ EnqueueLink(w, l) /\ <<held[w].url, l>> \in Permitted
          /\ k = normalizeURL[l] /\ k \in Keys
    BY <1>3 DEF NewsOf
  <2>2. /\ pc[w] = "crawl" /\ pc' = pc /\ held' = held /\ l \notin todo'[w]
        /\ held[w].url \in ValidUrls
    BY <2>1, HeldIsRequest DEF EnqueueLink, Add, queueVars, LoopTypeOK, BusyWorkersHold, Request
  <2>3. l \in PermittedLinks(held[w].url)
    BY <2>1, <2>2 DEF LookedAtOnce, PermittedLinks
  <2> QED
    BY <2>1, <2>2, <2>3 DEF FoundByLooking, PermittedLinks
<1>4. \A k \in KnownKeys' : FoundByLooking(k)'
  BY <1>3, LoopStepNews, LookedAtStays DEF LookedAtOnce
<1> QED
  BY <1>1, <1>2, <1>4 DEF LookedAtOnce

LEMMA QuietLookedAt ==
  ASSUME LookedAtOnce, BusyWorkersHold, QuietStep
  PROVE  LookedAtOnce'
<1>1. UNCHANGED <<pending, visited, held, todo, succeeded>> /\ KnownKeys' = KnownKeys
  BY DEF QuietStep, queueVars, KnownKeys, PendingKeys, HeldKeys, UniqueKey
<1>2. \A w \in Workers : pc'[w] = "crawl" <=> pc[w] = "crawl"
  BY DEF QuietStep, BusyWorkersHold
<1>3. \A k \in KnownKeys : FoundByLooking(k)'
  BY <1>1, <1>2 DEF LookedAtOnce, FoundByLooking, PermittedLinks
<1> QED
  BY <1>1, <1>2, <1>3 DEF LookedAtOnce

-----------------------------------------------------------------------------
(* The same for any step of a runner.                                       *)

FreshInv == OnePlacePerKey /\ WithinBudget

LEMMA LoopInitFresh ==
  ASSUME NEW start, LoopInit(start)
  PROVE  FreshInv /\ Contract!ContractInit
<1>1. OnePlacePerKey
  BY DEF LoopInit, OnePlacePerKey
<1>2. WithinBudget
  <2>1. \A k \in Keys : pending[k] # NoRequest => pending[k].retry = 0
    BY DEF LoopInit, Seeded
  <2> QED
    BY <2>1 DEF LoopInit, WithinBudget, KeyBudget, HeldBudget
<1>3. \A k \in Keys : StatusOf(k) \in {"unknown", "pending"} /\ RetryOf(k) = 0
  BY DEF LoopInit, Seeded, StatusOf, RetryOf, HeldKeys
<1> QED
  BY <1>1, <1>2, <1>3 DEF FreshInv, Contract!ContractInit

LEMMA LoopInitLookedAt ==
  ASSUME NEW start \in [Workers -> {"idle", "head"}], LoopInit(start)
  PROVE  LookedAtOnce
<1>1. \A k \in KnownKeys : \E s \in Seeds : normalizeURL[s] = k
  BY DEF LoopInit, Seeded, KnownKeys, PendingKeys, HeldKeys
<1> QED
  BY <1>1 DEF LoopInit, LookedAtOnce, FoundByLooking

\* A step of a worker is one of the queue's, or none, ...
LEMMA StepIsFresh ==
  ASSUME LoopTypeOK, NEW at, QuietStep \/ (AddsAreFresh /\ \E w \in Workers : LoopStep(w, at))
  PROVE  [QueueNextFresh]_queueVars
BY LoopStepFresh DEF QuietStep

\* ... and keeps what the contract rests on.
LEMMA FreshInvKept ==
  ASSUME QueueTypeOK, LoopTypeOK, BusyWorkersHold, FreshInv, NEW at \in {"head", "fetch"},
         QuietStep \/ (AddsAreFresh /\ \E w \in Workers : LoopStep(w, at))
  PROVE  /\ FreshInv'
         /\ \A k \in visited : attempts'[k] = attempts[k]
<1>1. OnePlacePerKey'
  BY StepIsFresh, OnePlaceStep DEF FreshInv
<1>2. WithinBudget'
  BY LoopStepBudget, QuietBudget DEF FreshInv
<1>3. \A k \in visited : attempts'[k] = attempts[k]
  BY LoopStepNotAgain DEF FreshInv, QuietStep
<1> QED
  BY <1>1, <1>2, <1>3 DEF FreshInv

\* Where each page is found once every addition is fresh, as long as nobody
\* cancels.
LEMMA LookedAtKept ==
  ASSUME FoundOnce, ~ctxDone, QueueTypeOK, LoopTypeOK, BusyWorkersHold, OnePlacePerKey,
         LookedAtOnce, NEW at \in {"head", "fetch"},
         QuietStep \/ \E w \in Workers : LoopStep(w, at)
  PROVE  AddsAreFresh /\ LookedAtOnce' /\ OnePlacePerKey'
<1>1. AddsAreFresh
  BY LookedAtFresh
<1>2. OnePlacePerKey'
  BY <1>1, StepIsFresh, OnePlaceStep
<1>3. LookedAtOnce'
  BY LoopStepLookedAt, QuietLookedAt
<1> QED
  BY <1>1, <1>2, <1>3

\* Nobody forgets a key.
LEMMA StepKnown ==
  ASSUME QueueTypeOK, LoopTypeOK, NEW at \in {"head", "fetch"},
         QuietStep \/ \E w \in Workers : LoopStep(w, at)
  PROVE  KnownKeys \subseteq KnownKeys'
BY LoopStepKnown DEF QuietStep, queueVars, KnownKeys, PendingKeys, HeldKeys, UniqueKey
=============================================================================
