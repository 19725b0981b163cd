---------------------------- MODULE MemoryQueue ----------------------------
(***************************************************************************)
(* storage.MemoryQueue: the two maps `pending` and `visited` behind one    *)
(* mutex, so that every method is one atomic step, and the requests the    *)
(* queue has handed out to its callers.  A request is kept by pointer: the *)
(* queue drops it when it hands it out and gets it back, with its          *)
(* RetryCount, from MarkHandledWithError.                                  *)
(*                                                                         *)
(* The map `pending` is keyed by the first 8 bytes of the SHA-256 of the   *)
(* unique key; the model keys it by the unique key itself (no collisions). *)
(***************************************************************************)
EXTENDS Integers, FiniteSets

CONSTANTS Urls,              \* URL strings a caller may pass to Add
          Keys,              \* unique keys: what normalizeURL returns
          Invalid,           \* what it returns for a string url.Parse rejects
          normalizeURL,      \* the normalization, as a function on Urls
          MaxRetriesOption,  \* MemoryQueueOptions.MaxRetries
          Workers,           \* the goroutines that fetch and mark requests
          NoRequest          \* the nil *Request

ASSUME InvalidAssumption == Invalid \notin Keys
ASSUME NormalizeAssumption == normalizeURL \in [Urls -> Keys \cup {Invalid}]
\* A negative option would make every request unfetchable from the start.
ASSUME MaxRetriesAssumption == MaxRetriesOption \in Nat

maxRetries == IF MaxRetriesOption = 0 THEN 3 ELSE MaxRetriesOption

ValidUrls == {u \in Urls : normalizeURL[u] \in Keys}

\* A request that is pending or in a caller's hands has attempts left.
Request == [url : ValidUrls, retry : 0 .. maxRetries - 1]

ASSUME NoRequestAssumption == NoRequest \notin Request

UniqueKey(r) == normalizeURL[r.url]

VARIABLES pending,  \* the map of waiting requests, NoRequest where absent
          visited,  \* the keys of the map visited
          held,     \* the request each worker fetched and has not yet marked
          failed    \* history: keys a request of which ended StatusFailed

queueVars == <<pending, visited, held, failed>>

HeldKeys == {UniqueKey(held[w]) : w \in {x \in Workers : held[x] # NoRequest}}
PendingKeys == {k \in Keys : pending[k] # NoRequest}

QueueTypeOK ==
  /\ pending \in [Keys -> Request \cup {NoRequest}]
  /\ \A k \in Keys : pending[k] # NoRequest => UniqueKey(pending[k]) = k
  /\ visited \in SUBSET Keys
  /\ held \in [Workers -> Request \cup {NoRequest}]
  /\ failed \in SUBSET visited

QueueInit ==
  /\ pending = [k \in Keys |-> NoRequest]
  /\ visited = {}
  /\ held = [w \in Workers |-> NoRequest]
  /\ failed = {}
-----------------------------------------------------------------------------
\* The seeding of a queue: Add calls with distinct valid keys, by one caller.
Seeded(seeds) ==
  [k \in Keys |-> IF \E u \in seeds : normalizeURL[u] = k
                  THEN [url |-> CHOOSE u \in seeds : normalizeURL[u] = k, retry |-> 0]
                  ELSE NoRequest]

\* A URL that does not parse, is visited or is pending already is a no-op.
Add(u) ==
  LET k == normalizeURL[u] IN
  /\ pending' = IF k \in Keys \ visited /\ pending[k] = NoRequest
                THEN [pending EXCEPT ![k] = [url |-> u, retry |-> 0]]
                ELSE pending
  /\ UNCHANGED <<visited, held, failed>>

\* A mutant of FetchNext: the request stays in the map.
FetchNext_Kept(w, k) ==
  /\ held[w] = NoRequest
  /\ pending[k] # NoRequest
  /\ pending[k].retry < maxRetries
  /\ held' = [held EXCEPT ![w] = pending[k]]
  /\ UNCHANGED <<pending, visited, failed>>

\* FetchNext hands out some pending request that has attempts left, chosen by
\* the iteration order of a Go map, and forgets it.
FetchNext(w, k) ==
  /\ held[w] = NoRequest
  /\ pending[k] # NoRequest
  /\ pending[k].retry < maxRetries
  /\ held' = [held EXCEPT ![w] = pending[k]]
  /\ pending' = [pending EXCEPT ![k] = NoRequest]
  /\ UNCHANGED <<visited, failed>>

\* FetchNext returns io.EOF.
NothingToFetch == \A k \in PendingKeys : pending[k].retry >= maxRetries

IsEmpty == PendingKeys = {}

\* A mutant of MarkHandled: it drops the request and records nothing.
MarkHandled_Unrecorded(w) ==
  /\ held[w] # NoRequest
  /\ held' = [held EXCEPT ![w] = NoRequest]
  /\ UNCHANGED <<pending, visited, failed>>

MarkHandled(w) ==
  /\ held[w] # NoRequest
  /\ visited' = visited \cup {UniqueKey(held[w])}
  /\ held' = [held EXCEPT ![w] = NoRequest]
  /\ UNCHANGED <<pending, failed>>

\* A mutant of Retried: the attempt is not counted.
Retried_Uncounted(r) == r

Retried(r) == [r EXCEPT !.retry = @ + 1]

\* A mutant of MarkHandledWithError: off by one at the last attempt.
MarkHandledWithError_OneMore(w) ==
  LET r == Retried(held[w])
      k == UniqueKey(r)
      exhausted == r.retry > maxRetries IN
  /\ held[w] # NoRequest
  /\ held' = [held EXCEPT ![w] = NoRequest]
  /\ visited' = IF exhausted THEN visited \cup {k} ELSE visited
  /\ failed' = IF exhausted THEN failed \cup {k} ELSE failed
  /\ pending' = IF exhausted THEN pending ELSE [pending EXCEPT ![k] = r]

\* The request comes back to pending, over any request its key has there and
\* whether or not the key is visited, or its key is visited and it is dropped.
MarkHandledWithError(w) ==
  LET r == Retried(held[w])
      k == UniqueKey(r)
      exhausted == r.retry >= maxRetries IN
  /\ held[w] # NoRequest
  /\ held' = [held EXCEPT ![w] = NoRequest]
  /\ visited' = IF exhausted THEN visited \cup {k} ELSE visited
  /\ failed' = IF exhausted THEN failed \cup {k} ELSE failed
  /\ pending' = IF exhausted THEN pending ELSE [pending EXCEPT ![k] = r]

-----------------------------------------------------------------------------
\* Any callers at all: they add any URL at any time.
WorkerCalls ==
  \E w \in Workers :
     \/ \E k \in Keys : FetchNext(w, k)
     \/ MarkHandled(w)
     \/ MarkHandledWithError(w)

QueueNext == (\E u \in Urls : Add(u)) \/ WorkerCalls

QueueSpec == QueueInit /\ [][QueueNext]_queueVars

\* Callers that add no URL while a worker holds a request of the same key: each
\* page is discovered once, or not again before it is marked.
AddFresh(u) == normalizeURL[u] \notin HeldKeys /\ Add(u)

QueueNextFresh == (\E u \in Urls : AddFresh(u)) \/ WorkerCalls

QueueSpecFresh == QueueInit /\ [][QueueNextFresh]_queueVars
-----------------------------------------------------------------------------
\* IsEmpty answers exactly what FetchNext would: the runner's monitor looks at
\* the length of the map, a worker at the requests in it with attempts left.
EmptyIsEOF == IsEmpty <=> NothingToFetch

\* Every key the queue ever accepted is pending, held by a worker or visited:
\* no order of calls by any number of workers makes it forget a URL.
KnownKeys == PendingKeys \cup HeldKeys \cup visited
NoKeyForgotten == [][KnownKeys \subseteq KnownKeys']_queueVars

\* A key is in one place at a time: pending, with one worker, or visited.  This
\* holds only as long as no key in a worker's hands is added again.
OnePlacePerKey ==
  /\ \A k \in visited : pending[k] = NoRequest
  /\ \A w \in Workers : held[w] # NoRequest =>
       /\ UniqueKey(held[w]) \notin visited
       /\ pending[UniqueKey(held[w])] = NoRequest
       /\ \A v \in Workers \ {w} :
            held[v] # NoRequest => UniqueKey(held[v]) # UniqueKey(held[w])

\* What the queue shows of a key, as the contract sees it.
StatusOf(k) ==
  IF k \in failed THEN "failed"
  ELSE IF k \in visited THEN "completed"
  ELSE IF pending[k] # NoRequest THEN "pending"
  ELSE IF k \in HeldKeys THEN "processing"
  ELSE "unknown"

RetryOf(k) ==
  IF k \in visited THEN 0
  ELSE IF pending[k] # NoRequest THEN pending[k].retry
  ELSE IF k \in HeldKeys
  THEN held[CHOOSE w \in Workers : held[w] # NoRequest /\ UniqueKey(held[w]) = k].retry
  ELSE 0

Contract == INSTANCE QueueContract
              WITH MaxAttempts <- maxRetries,
                   Requeues <- FALSE, Forgets <- FALSE,
                   status <- [k \in Keys |-> StatusOf(k)],
                   retry <- [k \in Keys |-> RetryOf(k)],
                   unrecorded <- {}

\* The queue keeps the README's request lifecycle: one pending entry per key,
\* one worker at a time, the retry count carried from attempt to attempt, and
\* a completed or failed key never handed out again.
KeepsContract == Contract!ContractSpec
=============================================================================
