-------------------------- MODULE FileCrawlProofs --------------------------
(* What survives the crashes and the failing writes of a crawl that keeps   *)
(* its queue and its data in files, and what a key that no caller adds      *)
(* while a worker has it can rely on: for any URLs, workers, retries and    *)
(* number of faults.                                                        *)
EXTENDS FileCrawl, SequenceTheorems, IterationLemmas, TLAPS

LEMMA MaxRetriesPositive == maxRetries \in Nat \ {0}
BY FileMaxRetriesAssumption DEF maxRetries

LEMMA HeldIsRequest ==
  ASSUME FileTypeOK, NEW w \in Workers, held[w] # None
  PROVE  /\ held[w] \in Request /\ UniqueKey(held[w]) \in Keys
         /\ UniqueKey(held[w]) = normalizeURL[held[w].url]
         /\ UniqueKey(held[w]) \in HeldKeys
         /\ open
BY DEF FileTypeOK, Request, UniqueKey, ValidUrls, HeldKeys

LEMMA RetriedType ==
  ASSUME NEW r \in Request
  PROVE  /\ [r EXCEPT !.retry = @ + 1] \in Request
         /\ [r EXCEPT !.retry = @ + 1].retry = r.retry + 1
         /\ [r EXCEPT !.retry = @ + 1].url = r.url
         /\ UniqueKey([r EXCEPT !.retry = @ + 1]) = UniqueKey(r)
BY DEF Request, UniqueKey

LEMMA FaultyType ==
  ASSUME faults \in 0 .. MaxFaults, NEW io, Faulty(io)
  PROVE  faults' \in 0 .. MaxFaults
BY FileBoundsAssumption DEF Faulty

LEMMA RequestIsNoMark == None \notin Request /\ Torn \notin Request /\ None # Torn
BY FileContentAssumption

\* What a write leaves is the old content, the new one or the cut one.
LEMMA AfterWriteCases ==
  ASSUME NEW io \in Outcomes, NEW old, NEW new, NEW cut
  PROVE  \/ io = "whole" /\ IsNil(io) /\ AfterWrite(io, old, new, cut) = new
         \/ io = "torn" /\ ~IsNil(io) /\ AfterWrite(io, old, new, cut) = cut
         \/ io = "failed" /\ ~IsNil(io) /\ AfterWrite(io, old, new, cut) = old
BY DEF Outcomes, AfterWrite, IsNil

\* What holds whatever the callers add: types, the map and its file, attempts left.
DurableInv == FileTypeOK /\ VisitedSurvives /\ HeldHaveAttempts

LEMMA FileInvParts ==
  /\ FileInv <=> DurableInv /\ OnePlacePerKey
  /\ FileInv' <=> DurableInv' /\ OnePlacePerKey'
BY DEF FileInv, DurableInv

LEMMA InitDurable == FileInit => DurableInv
BY FileBoundsAssumption, RequestIsNoMark
   DEF FileInit, DurableInv, FileTypeOK, VisitedSurvives, HeldHaveAttempts, PendingKeys, HeldKeys

LEMMA InitFileInv == FileInit => FileInv
BY InitDurable, FileInvParts DEF FileInit, OnePlacePerKey

-----------------------------------------------------------------------------
(* The operations of the queue keep its invariant.                          *)

\* A request goes into the file of its key, or the write of it goes wrong.
LEMMA WriteRequestCases ==
  ASSUME FileTypeOK, NEW k \in Keys, NEW r, NEW io \in Outcomes, WriteRequest(k, r, io)
  PROVE  /\ files'[k] = r \/ files'[k] = Torn \/ files'[k] = files[k]
         /\ \A j \in Keys \ {k} : files'[j] = files[j]
         /\ files' = [files EXCEPT ![k] = files'[k]]
         /\ io = "whole" => files'[k] = r
<1>1. files' = [files EXCEPT ![k] = AfterWrite(io, files[k], r, Torn)]
  BY DEF WriteRequest
<1>2. files'[k] = AfterWrite(io, files[k], r, Torn)
  BY <1>1 DEF FileTypeOK
<1> QED
  BY <1>1, <1>2, AfterWriteCases DEF FileTypeOK

\* Types and attempts, when a request is written and perhaps leaves its worker.
LEMMA WriteRequestTypes ==
  ASSUME FileTypeOK, HeldHaveAttempts, NEW k \in Keys, NEW r \in Request, NEW io \in Outcomes,
         UniqueKey(r) = k, r.retry < maxRetries, WriteRequest(k, r, io)
  PROVE  /\ files' \in [Keys -> Request \cup {None, Torn}]
         /\ \A j \in PendingKeys' : normalizeURL[files'[j].url] = j /\ files'[j].retry < maxRetries
<1>1. /\ files'[k] = r \/ files'[k] = Torn \/ files'[k] = files[k]
      /\ \A j \in Keys \ {k} : files'[j] = files[j]
      /\ files' = [files EXCEPT ![k] = files'[k]]
  BY WriteRequestCases
<1>2. files' \in [Keys -> Request \cup {None, Torn}]
  BY <1>1 DEF FileTypeOK
<1>3. ASSUME NEW j \in PendingKeys'
      PROVE  normalizeURL[files'[j].url] = j /\ files'[j].retry < maxRetries
  <2>1. j \in Keys /\ files'[j] \in Request
    BY <1>3 DEF PendingKeys
  <2>2. files'[j] = files[j] \/ (j = k /\ files'[j] = r)
    BY <1>1, <2>1, RequestIsNoMark
  <2>3. CASE files'[j] = files[j]
    BY <2>1, <2>3 DEF FileTypeOK, HeldHaveAttempts, PendingKeys, UniqueKey
  <2> QED
    BY <2>2, <2>3 DEF UniqueKey
<1> QED
  BY <1>2, <1>3

LEMMA AddDurable ==
  ASSUME DurableInv, NEW u \in Urls, NEW io \in Outcomes, Add(u, io)
  PROVE  DurableInv'
<1> DEFINE k == normalizeURL[u]
           r == [url |-> u, retry |-> 0]
<1>1. /\ faults' \in 0 .. MaxFaults
      /\ UNCHANGED <<visitedFile, saved, open, visited, held, completed, acked>>
      /\ HeldKeys' = HeldKeys
  BY FaultyType DEF Add, DurableInv, FileTypeOK, historyVars, HeldKeys, UniqueKey
<1>2. readded' \in SUBSET Keys
  <2>1. \A w \in Workers : held[w] # None => UniqueKey(held[w]) \in Keys
    BY HeldIsRequest DEF DurableInv
  <2>2. HeldKeys \subseteq Keys
    BY <2>1 DEF HeldKeys
  <2> QED
    BY <2>2 DEF Add, DurableInv, FileTypeOK
<1>3. /\ files' \in [Keys -> Request \cup {None, Torn}]
      /\ \A j \in PendingKeys' : normalizeURL[files'[j].url] = j /\ files'[j].retry < maxRetries
  <2>1. CASE k \in Keys \ visited /\ files[k] = None
    <3>1. r \in Request /\ UniqueKey(r) = k /\ r.retry < maxRetries
      BY <2>1, MaxRetriesPositive DEF Request, ValidUrls, UniqueKey
    <3>2. WriteRequest(k, r, io)
      BY <2>1 DEF Add
    <3> QED
      BY <2>1, <3>1, <3>2, WriteRequestTypes DEF DurableInv
  <2>2. CASE ~(k \in Keys \ visited /\ files[k] = None)
    <3>1. files' = files
      BY <2>2 DEF Add
    <3> QED
      BY <3>1 DEF DurableInv, FileTypeOK, HeldHaveAttempts, PendingKeys, UniqueKey
  <2> QED
    BY <2>1, <2>2
<1>4. FileTypeOK'
  BY <1>1, <1>2, <1>3 DEF DurableInv, FileTypeOK, UniqueKey
<1>5. VisitedSurvives' /\ HeldHaveAttempts'
  BY <1>1, <1>3 DEF DurableInv, VisitedSurvives, HeldHaveAttempts
<1> QED
  BY <1>4, <1>5 DEF DurableInv

\* A key in a worker's hands is readded from now on; any other may get a file.
LEMMA AddInv ==
  ASSUME FileInv, NEW u \in Urls, NEW io \in Outcomes, Add(u, io)
  PROVE  FileInv'
<1> DEFINE k == normalizeURL[u]
<1>1. /\ UNCHANGED <<visited, held>>
      /\ readded' = readded \cup (HeldKeys \cap {k})
  BY DEF Add
<1>2. \/ files' = files
      \/ k \in Keys \ visited /\ \A j \in Keys \ {k} : files'[j] = files[j]
  BY WriteRequestCases DEF Add, FileInv
<1> HIDE DEF k
<1>3. ASSUME NEW j \in visited' \ readded'
      PROVE  files'[j] \in {None, Torn}
  BY <1>1, <1>2, <1>3 DEF FileInv, FileTypeOK, OnePlacePerKey
<1>4. ASSUME NEW w \in Workers, held'[w] # None, UniqueKey(held[w])' \notin readded'
      PROVE  /\ UniqueKey(held[w])' \notin visited'
             /\ files'[UniqueKey(held[w])'] = None
             /\ \A v \in Workers \ {w} : held'[v] # None => UniqueKey(held[v])' # UniqueKey(held[w])'
  <2>1. \A v \in Workers : held'[v] = held[v] /\ UniqueKey(held[v])' = UniqueKey(held[v])
    BY <1>1 DEF UniqueKey
  <2>2. UniqueKey(held[w]) \in HeldKeys /\ UniqueKey(held[w]) \in Keys
    BY <1>4, <2>1, HeldIsRequest DEF FileInv
  <2>3. UniqueKey(held[w]) # k /\ UniqueKey(held[w]) \notin readded
    BY <1>1, <1>4, <2>1, <2>2
  <2> QED
    BY <1>1, <1>2, <1>4, <2>1, <2>2, <2>3 DEF FileInv, OnePlacePerKey
<1>5. OnePlacePerKey'
  BY <1>3, <1>4 DEF OnePlacePerKey
<1> QED
  BY <1>5, AddDurable, FileInvParts

LEMMA FetchDurable ==
  ASSUME DurableInv, NEW w \in Workers, NEW k \in Keys, FetchNext(w, k)
  PROVE  DurableInv'
<1>1. /\ open /\ held[w] = None
      /\ files[k] \in Request /\ files[k].retry < maxRetries
      /\ held' = [held EXCEPT ![w] = files[k]]
      /\ files' = [files EXCEPT ![k] = None]
      /\ UNCHANGED <<visitedFile, saved, open, visited, completed, acked, readded, faults>>
  BY DEF FetchNext, Fetchable, historyVars
<1>2. FileTypeOK'
  BY <1>1, RequestIsNoMark DEF DurableInv, FileTypeOK, PendingKeys, HeldKeys, UniqueKey
<1>3. VisitedSurvives'
  BY <1>1 DEF DurableInv, VisitedSurvives
<1>4. HeldHaveAttempts'
  BY <1>1, RequestIsNoMark DEF DurableInv, FileTypeOK, HeldHaveAttempts, PendingKeys
<1> QED
  BY <1>2, <1>3, <1>4 DEF DurableInv

LEMMA FetchInv ==
  ASSUME FileInv, NEW w \in Workers, NEW k \in Keys, FetchNext(w, k)
  PROVE  FileInv'
<1>1. /\ open /\ held[w] = None
      /\ files[k] \in Request
      /\ held' = [held EXCEPT ![w] = files[k]]
      /\ files' = [files EXCEPT ![k] = None]
      /\ UNCHANGED <<visited, readded>>
  BY DEF FetchNext, Fetchable
<1>2. UniqueKey(files[k]) = k
  BY <1>1 DEF FileInv, FileTypeOK, PendingKeys
<1>3. files[k] \notin {None, Torn}
  BY <1>1, RequestIsNoMark
<1>4. k \notin readded =>
        k \notin visited /\ \A v \in Workers \ {w} : held[v] # None => UniqueKey(held[v]) # k
  BY <1>3 DEF FileInv, OnePlacePerKey
<1>5. OnePlacePerKey'
  BY <1>1, <1>2, <1>3, <1>4 DEF FileInv, FileTypeOK, OnePlacePerKey
<1> QED
  BY <1>1, <1>5, FetchDurable, FileInvParts

\* A request that leaves its worker for good: its key goes into the map and, if
\* the write succeeds, into visited.json.
Settles(w, io) ==
  /\ held[w] # None
  /\ held' = [held EXCEPT ![w] = None]
  /\ visited' = visited \cup {UniqueKey(held[w])}
  /\ saveVisited(visited', io)
  /\ \/ completed' = completed \cup {UniqueKey(held[w])}
     \/ completed' = completed \ {UniqueKey(held[w])}
  /\ acked' = IF IsNil(io) THEN acked \cup {UniqueKey(held[w])} ELSE acked
  /\ UNCHANGED <<files, open, readded>>

\* What saveVisited leaves in visited.json.
LEMMA SaveCases ==
  ASSUME NEW keys, NEW io \in Outcomes, saveVisited(keys, io)
  PROVE  \/ IsNil(io) /\ visitedFile' = "whole" /\ saved' = keys
         \/ ~IsNil(io) /\ visitedFile' = "torn" /\ saved' = {}
         \/ ~IsNil(io) /\ visitedFile' = visitedFile /\ saved' = saved
BY DEF saveVisited, Outcomes, AfterWrite, IsNil

LEMMA SettleDurable ==
  ASSUME DurableInv, NEW w \in Workers, NEW io \in Outcomes, Settles(w, io),
         faults' \in 0 .. MaxFaults
  PROVE  DurableInv'
<1>1. PICK k \in Keys : k = UniqueKey(held[w])
  BY HeldIsRequest DEF DurableInv, Settles
<1>2. open
  BY HeldIsRequest DEF DurableInv, Settles
<1>3. \/ IsNil(io) /\ visitedFile' = "whole" /\ saved' = visited'
      \/ ~IsNil(io) /\ visitedFile' = "torn" /\ saved' = {}
      \/ ~IsNil(io) /\ visitedFile' = visitedFile /\ saved' = saved
  BY SaveCases DEF Settles
<1>4. /\ visited' = visited \cup {k}
      /\ acked' = IF IsNil(io) THEN acked \cup {k} ELSE acked
      /\ completed' = completed \cup {k} \/ completed' = completed \ {k}
  BY <1>1 DEF Settles
<1>5. /\ visitedFile' \in {"absent", "whole", "torn"}
      /\ saved' \in SUBSET Keys
      /\ visitedFile' # "whole" => saved' = {}
  BY <1>3, <1>4 DEF DurableInv, FileTypeOK
<1>6. completed' \in SUBSET visited' /\ acked' \in SUBSET Keys
  BY <1>4 DEF DurableInv, FileTypeOK
<1>7. FileTypeOK'
  BY <1>1, <1>2, <1>5, <1>6
     DEF Settles, DurableInv, FileTypeOK, PendingKeys, HeldKeys, UniqueKey
<1>8. VisitedSurvives'
  BY <1>3, <1>4 DEF DurableInv, VisitedSurvives
<1>9. HeldHaveAttempts'
  BY DEF Settles, DurableInv, FileTypeOK, HeldHaveAttempts, PendingKeys
<1> QED
  BY <1>7, <1>8, <1>9 DEF DurableInv

LEMMA SettleInv ==
  ASSUME FileInv, NEW w \in Workers, NEW io \in Outcomes, Settles(w, io),
         faults' \in 0 .. MaxFaults
  PROVE  FileInv'
<1>1. PICK k \in Keys : k = UniqueKey(held[w])
  BY HeldIsRequest DEF FileInv, Settles
<1>2. /\ held[w] # None /\ held' = [held EXCEPT ![w] = None]
      /\ visited' = visited \cup {k}
      /\ UNCHANGED <<files, readded>>
  BY <1>1 DEF Settles
<1>3. k \notin readded =>
        files[k] = None /\ \A v \in Workers \ {w} : held[v] # None => UniqueKey(held[v]) # k
  BY <1>1, <1>2 DEF FileInv, OnePlacePerKey
<1>4. OnePlacePerKey'
  <2>1. \A j \in visited' \ readded' : files'[j] \in {None, Torn}
    BY <1>2, <1>3 DEF FileInv, OnePlacePerKey
  <2>2. \A v \in Workers : held'[v] # None =>
          v # w /\ held'[v] = held[v] /\ UniqueKey(held[v])' = UniqueKey(held[v])
    BY <1>2 DEF FileInv, FileTypeOK, UniqueKey
  <2>3. ASSUME NEW v \in Workers, held'[v] # None, UniqueKey(held[v])' \notin readded'
        PROVE  /\ UniqueKey(held[v])' \notin visited'
               /\ files'[UniqueKey(held[v])'] = None
               /\ \A x \in Workers \ {v} :
                    held'[x] # None => UniqueKey(held[x])' # UniqueKey(held[v])'
    <3>1. /\ v # w /\ held[v] # None /\ UniqueKey(held[v])' = UniqueKey(held[v])
          /\ UniqueKey(held[v]) \notin readded
      BY <1>2, <2>2, <2>3
    <3>2. UniqueKey(held[v]) # k
      BY <1>3, <3>1
    <3> QED
      BY <1>2, <2>2, <3>1, <3>2 DEF FileInv, OnePlacePerKey
  <2> QED
    BY <2>1, <2>3 DEF OnePlacePerKey
<1> QED
  BY <1>4, SettleDurable, FileInvParts

\* A request that goes back to its file, with one attempt less, unless the write
\* goes wrong.
Returns(w, k, r, io) ==
  /\ held[w] # None
  /\ held' = [held EXCEPT ![w] = None]
  /\ k = UniqueKey(held[w])
  /\ r \in Request /\ UniqueKey(r) = k /\ r.retry < maxRetries
  /\ WriteRequest(k, r, io)
  /\ UNCHANGED <<visited, visitedFile, saved, open, completed, acked, readded>>

LEMMA ErrorSettlesOrReturns ==
  ASSUME DurableInv, NEW w \in Workers, NEW io \in Outcomes, MarkHandledWithError(w, io)
  PROVE  Settles(w, io) \/ \E k \in Keys, r \in Request : Returns(w, k, r, io)
<1> DEFINE r == [held[w] EXCEPT !.retry = @ + 1]
<1>1. /\ held[w] # None /\ held' = [held EXCEPT ![w] = None] /\ UNCHANGED <<open, readded>>
      /\ IF r.retry >= maxRetries THEN GiveUp(UniqueKey(r), io) ELSE PutBack(UniqueKey(r), r, io)
  BY DEF MarkHandledWithError
<1>2. PICK k \in Keys : k = UniqueKey(held[w])
  BY <1>1, HeldIsRequest DEF DurableInv
<1>3. /\ r \in Request /\ UniqueKey(r) = k
      /\ r.retry = held[w].retry + 1 /\ held[w].retry \in Nat
  BY <1>1, <1>2, HeldIsRequest, RetriedType DEF DurableInv, Request
<1> HIDE DEF r
<1>4. CASE r.retry >= maxRetries
  <2>1. GiveUp(k, io)
    BY <1>1, <1>3, <1>4
  <2> QED
    BY <1>1, <1>2, <2>1 DEF GiveUp, Settles
<1>5. CASE ~(r.retry >= maxRetries)
  <2>1. PutBack(k, r, io) /\ r.retry < maxRetries
    BY <1>1, <1>3, <1>5, MaxRetriesPositive
  <2>2. Returns(w, k, r, io)
    BY <1>1, <1>2, <1>3, <2>1 DEF PutBack, Returns, historyVars
  <2> QED
    BY <1>3, <2>2
<1> QED
  BY <1>4, <1>5

LEMMA ReturnDurable ==
  ASSUME DurableInv, NEW w \in Workers, NEW k \in Keys, NEW r \in Request, NEW io \in Outcomes,
         Returns(w, k, r, io), faults' \in 0 .. MaxFaults
  PROVE  DurableInv'
<1>1. open
  BY HeldIsRequest DEF DurableInv, Returns
<1>2. /\ files' \in [Keys -> Request \cup {None, Torn}]
      /\ \A j \in PendingKeys' : normalizeURL[files'[j].url] = j /\ files'[j].retry < maxRetries
  BY WriteRequestTypes DEF DurableInv, Returns
<1>3. FileTypeOK'
  BY <1>1, <1>2 DEF Returns, DurableInv, FileTypeOK, HeldKeys, UniqueKey
<1>4. VisitedSurvives'
  BY DEF Returns, DurableInv, VisitedSurvives
<1>5. HeldHaveAttempts'
  BY <1>2 DEF Returns, DurableInv, FileTypeOK, HeldHaveAttempts
<1> QED
  BY <1>3, <1>4, <1>5 DEF DurableInv

LEMMA ReturnInv ==
  ASSUME FileInv, NEW w \in Workers, NEW k \in Keys, NEW r \in Request, NEW io \in Outcomes,
         Returns(w, k, r, io), faults' \in 0 .. MaxFaults
  PROVE  FileInv'
<1>1. /\ held[w] # None /\ held' = [held EXCEPT ![w] = None] /\ k = UniqueKey(held[w])
      /\ UNCHANGED <<visited, readded>>
      /\ \A j \in Keys \ {k} : files'[j] = files[j]
  BY WriteRequestCases DEF Returns, FileInv
<1>2. k \notin readded =>
        k \notin visited /\ \A v \in Workers \ {w} : held[v] # None => UniqueKey(held[v]) # k
  BY <1>1 DEF FileInv, OnePlacePerKey
<1>3. \A j \in visited' \ readded' : files'[j] \in {None, Torn}
  BY <1>1, <1>2 DEF FileInv, FileTypeOK, OnePlacePerKey
<1>4. \A v \in Workers : held'[v] # None =>
        v # w /\ held'[v] = held[v] /\ UniqueKey(held[v])' = UniqueKey(held[v])
  BY <1>1 DEF FileInv, FileTypeOK, UniqueKey
<1>5. ASSUME NEW v \in Workers, held'[v] # None, UniqueKey(held[v])' \notin readded'
      PROVE  /\ UniqueKey(held[v])' \notin visited'
             /\ files'[UniqueKey(held[v])'] = None
             /\ \A x \in Workers \ {v} :
                  held'[x] # None => UniqueKey(held[x])' # UniqueKey(held[v])'
  <2>1. /\ v # w /\ held[v] # None /\ UniqueKey(held[v])' = UniqueKey(held[v])
        /\ UniqueKey(held[v]) \notin readded /\ UniqueKey(held[v]) \in Keys
    BY <1>1, <1>4, <1>5, HeldIsRequest DEF FileInv
  <2>2. UniqueKey(held[v]) # k
    BY <1>1, <1>2, <2>1
  <2> QED
    BY <1>1, <1>4, <2>1, <2>2 DEF FileInv, OnePlacePerKey
<1>6. OnePlacePerKey'
  BY <1>3, <1>5 DEF OnePlacePerKey
<1> QED
  BY <1>6, ReturnDurable, FileInvParts

LEMMA MarkDurable ==
  ASSUME DurableInv, NEW w \in Workers, NEW io \in Outcomes,
         MarkHandled(w, io) \/ MarkHandledWithError(w, io)
  PROVE  DurableInv'
<1>1. faults' \in 0 .. MaxFaults
  BY FaultyType DEF MarkHandled, MarkHandledWithError, DurableInv, FileTypeOK
<1>2. MarkHandled(w, io) => Settles(w, io)
  BY DEF MarkHandled, Settles
<1> QED
  BY <1>1, <1>2, ErrorSettlesOrReturns, SettleDurable, ReturnDurable

LEMMA MarkInv ==
  ASSUME FileInv, NEW w \in Workers, NEW io \in Outcomes,
         MarkHandled(w, io) \/ MarkHandledWithError(w, io)
  PROVE  FileInv'
<1>1. faults' \in 0 .. MaxFaults
  BY FaultyType DEF MarkHandled, MarkHandledWithError, FileInv, FileTypeOK
<1>2. MarkHandled(w, io) => Settles(w, io)
  BY DEF MarkHandled, Settles
<1> QED
  BY <1>1, <1>2, ErrorSettlesOrReturns, SettleInv, ReturnInv, FileInvParts

LEMMA CloseDurable ==
  ASSUME DurableInv, NEW io \in Outcomes, Close(io)
  PROVE  DurableInv'
<1>1. faults' \in 0 .. MaxFaults
  BY FaultyType DEF Close, DurableInv, FileTypeOK
<1>2. HeldKeys' = {}
  BY DEF Close, HeldKeys, UniqueKey
<1>3. \/ visitedFile' = "whole" /\ saved' = visited
      \/ visitedFile' = "torn" /\ saved' = {}
      \/ visitedFile' = visitedFile /\ saved' = saved
  BY SaveCases DEF Close
<1>4. open' = FALSE /\ UNCHANGED <<files, visited, held, completed, acked, readded>>
  BY DEF Close, historyVars
<1>5. FileTypeOK'
  BY <1>1, <1>2, <1>3, <1>4 DEF DurableInv, FileTypeOK, PendingKeys, UniqueKey
<1>6. VisitedSurvives'
  BY <1>3, <1>4 DEF DurableInv, VisitedSurvives
<1>7. HeldHaveAttempts'
  BY <1>4 DEF DurableInv, HeldHaveAttempts, PendingKeys
<1> QED
  BY <1>5, <1>6, <1>7 DEF DurableInv

LEMMA CrashDurable ==
  ASSUME DurableInv, Crash
  PROVE  DurableInv'
<1>1. faults' \in 0 .. MaxFaults
  BY FileBoundsAssumption DEF Crash, DurableInv, FileTypeOK
<1>2. HeldKeys' = {}
  BY DEF Crash, HeldKeys
<1>3. FileTypeOK'
  BY <1>1, <1>2 DEF Crash, DurableInv, FileTypeOK, PendingKeys, UniqueKey, historyVars
<1> QED
  BY <1>3 DEF Crash, DurableInv, VisitedSurvives, HeldHaveAttempts, PendingKeys, historyVars

LEMMA OpenDurable ==
  ASSUME DurableInv, Open
  PROVE  DurableInv'
<1>1. HeldKeys' = HeldKeys
  BY DEF Open, HeldKeys, UniqueKey
<1>2. FileTypeOK'
  BY <1>1 DEF Open, DurableInv, FileTypeOK, PendingKeys, UniqueKey
<1> QED
  BY <1>2 DEF Open, DurableInv, VisitedSurvives, HeldHaveAttempts, PendingKeys

\* A step of the handler or of nobody: the queue is as it was.
LEMMA QuietDurable ==
  ASSUME DurableInv, faults' \in 0 .. MaxFaults,
         UNCHANGED <<files, visitedFile, saved, open, visited, held, historyVars, readded>>
  PROVE  DurableInv'
<1>1. HeldKeys' = HeldKeys
  BY DEF HeldKeys, UniqueKey
<1> QED
  BY <1>1 DEF DurableInv, FileTypeOK, VisitedSurvives, HeldHaveAttempts, PendingKeys, UniqueKey,
              historyVars

LEMMA NextDurable ==
  ASSUME DurableInv, [FileNext]_fileVars
  PROVE  DurableInv'
<1>1. CASE OpenFails \/ UNCHANGED fileVars
  BY <1>1, QuietDurable DEF OpenFails, fileVars, historyVars, DurableInv, FileTypeOK
<1> QED
  BY <1>1, AddDurable, FetchDurable, MarkDurable, CloseDurable, CrashDurable, OpenDurable
     DEF FileNext

\* What moves no key keeps every key in its one place.
LEMMA StillInv ==
  ASSUME FileInv, DurableInv', UNCHANGED <<files, readded>>, visited' \subseteq visited,
         held' = held \/ held' = [w \in Workers |-> None]
  PROVE  FileInv'
<1>1. OnePlacePerKey'
  BY DEF FileInv, OnePlacePerKey, UniqueKey
<1> QED
  BY <1>1, FileInvParts

LEMMA QuietInv ==
  ASSUME FileInv, UNCHANGED fileVars
  PROVE  FileInv'
BY NextDurable, StillInv, FileInvParts DEF fileVars

LEMMA CrashInv ==
  ASSUME FileInv, Crash
  PROVE  FileInv'
BY CrashDurable, StillInv, FileInvParts DEF Crash

\* A restart forgets marks: fewer keys are visited.
LEMMA OpenInv ==
  ASSUME FileInv, Open
  PROVE  FileInv'
<1>1. visited' \subseteq visited
  BY DEF Open, FileInv, VisitedSurvives
<1> QED
  BY <1>1, OpenDurable, StillInv, FileInvParts DEF Open

LEMMA NextFileInv ==
  ASSUME FileInv, [FileNext]_fileVars
  PROVE  FileInv'
<1>1. DurableInv'
  BY NextDurable, FileInvParts
<1>2. CASE (\E io \in Outcomes : Close(io)) \/ OpenFails \/ UNCHANGED fileVars
  BY <1>1, <1>2, StillInv DEF Close, OpenFails, fileVars
<1> QED
  BY <1>2, AddInv, FetchInv, MarkInv, CrashInv, OpenInv DEF FileNext

\* Types, the map and its file, one place per key that is not added while a worker
\* has it, and attempts left, through any number of crashes and failing writes of
\* a queue used by itself.
THEOREM FileInvariance == FileSpec => []FileInv
<1>1. FileInit => FileInv
  BY InitFileInv
<1>2. FileInv /\ [FileNext]_fileVars => FileInv'
  BY NextFileInv
<1> QED
  BY <1>1, <1>2, PTL DEF FileSpec

-----------------------------------------------------------------------------
(* What the queue forgets is in a worker's hands, or being written, or an   *)
(* end that was never recorded: nothing else that happens to it is more     *)
(* than QueueContract allows.                                               *)

HeldSeen ==
  \A w \in Workers : held[w] # None /\ UniqueKey(held[w]) \notin readded =>
    /\ StatusOf(UniqueKey(held[w])) = "processing"
    /\ RetryOf(UniqueKey(held[w])) = held[w].retry

\* What the contract sees of a key in a worker's hands.
LEMMA HeldView == FileInv => HeldSeen
<1> SUFFICES ASSUME FileInv, NEW w \in Workers, held[w] # None, UniqueKey(held[w]) \notin readded
             PROVE  /\ StatusOf(UniqueKey(held[w])) = "processing"
                    /\ RetryOf(UniqueKey(held[w])) = held[w].retry
  BY DEF HeldSeen
<1> DEFINE k == UniqueKey(held[w])
           Holder(v) == held[v] # None /\ UniqueKey(held[v]) = k
<1>1. k \in HeldKeys /\ k \notin PendingKeys
  BY RequestIsNoMark DEF HeldKeys, PendingKeys, FileInv, OnePlacePerKey
<1>2. \A v \in Workers : Holder(v) => v = w
  BY DEF FileInv, OnePlacePerKey
<1>3. (CHOOSE v \in Workers : Holder(v)) = w
  BY <1>2
<1> QED
  BY <1>1, <1>3 DEF StatusOf, RetryOf

LEMMA HeldViewNext == FileInv' => HeldSeen'
BY HeldView, PTL

\* What the contract sees of a key that no worker has.
LEMMA FreeView ==
  ASSUME NEW k \in Keys, k \notin HeldKeys
  PROVE  /\ StatusOf(k) = IF k \in readded THEN "unknown"
                          ELSE IF files[k] \in Request THEN "pending"
                          ELSE IF k \notin visited THEN "unknown"
                          ELSE IF k \in completed THEN "completed" ELSE "failed"
         /\ RetryOf(k) = IF k \notin readded /\ files[k] \in Request THEN files[k].retry ELSE 0
BY DEF StatusOf, RetryOf, PendingKeys

LEMMA FreeViewNext ==
  ASSUME NEW k \in Keys, k \notin HeldKeys'
  PROVE  /\ StatusOf(k)' = IF k \in readded' THEN "unknown"
                           ELSE IF files'[k] \in Request THEN "pending"
                           ELSE IF k \notin visited' THEN "unknown"
                           ELSE IF k \in completed' THEN "completed" ELSE "failed"
         /\ RetryOf(k)' = IF k \notin readded' /\ files'[k] \in Request
                          THEN files'[k].retry ELSE 0
BY DEF StatusOf, RetryOf, PendingKeys

\* Of a key that was added while a worker had it it sees nothing.
LEMMA ReaddedView ==
  ASSUME NEW k \in readded, readded \subseteq readded'
  PROVE  /\ StatusOf(k) = "unknown" /\ RetryOf(k) = 0
         /\ StatusOf(k)' = "unknown" /\ RetryOf(k)' = 0
BY DEF StatusOf, RetryOf

\* The contract sees no change of a key the step does not concern.
LEMMA OtherKeys ==
  ASSUME FileInv, FileInv', NEW j \in Keys,
         files'[j] = files[j],
         j \in visited' <=> j \in visited,
         j \in completed' <=> j \in completed,
         readded \subseteq readded', j \in readded' => j \in readded,
         \A w \in Workers :
           \/ held'[w] = held[w]
           \/ /\ held[w] # None => UniqueKey(held[w]) # j
              /\ held'[w] # None => UniqueKey(held'[w]) # j
  PROVE  StatusOf(j)' = StatusOf(j) /\ RetryOf(j)' = RetryOf(j)
<1>1. j \in HeldKeys' <=> j \in HeldKeys
  BY DEF HeldKeys, UniqueKey
<1>2. CASE j \in HeldKeys \ readded
  <2>1. PICK w \in Workers : held[w] # None /\ UniqueKey(held[w]) = j
    BY <1>2 DEF HeldKeys
  <2>2. held'[w] = held[w] /\ UniqueKey(held[w])' = j
    BY <2>1 DEF UniqueKey
  <2>3. StatusOf(j) = "processing" /\ RetryOf(j) = held[w].retry
    BY <1>2, <2>1, HeldView DEF HeldSeen
  <2>4. HeldSeen'
    BY HeldViewNext
  <2>5. /\ StatusOf(UniqueKey(held[w]))' = "processing"
        /\ RetryOf(UniqueKey(held[w]))' = held'[w].retry
    BY <1>2, <2>1, <2>2, <2>4 DEF HeldSeen
  <2> QED
    BY <2>2, <2>3, <2>5
<1>3. CASE j \notin HeldKeys
  BY <1>1, <1>3, FreeView, FreeViewNext
<1>4. CASE j \in readded
  BY <1>4, ReaddedView
<1> QED
  BY <1>2, <1>3, <1>4

\* It sees a visited key as ended.
LEMMA VisitedView ==
  ASSUME FileInv, NEW k \in visited \ readded
  PROVE  StatusOf(k) = (IF k \in completed THEN "completed" ELSE "failed") /\ RetryOf(k) = 0
<1>1. k \in Keys /\ files[k] \notin Request
  BY RequestIsNoMark DEF FileInv, FileTypeOK, OnePlacePerKey
<1>2. k \notin HeldKeys
  BY DEF FileInv, OnePlacePerKey, HeldKeys
<1> QED
  BY <1>1, <1>2, FreeView

VisitedSeen == \A k \in visited \ readded : StatusOf(k) \in {"completed", "failed"}

LEMMA VisitedAreSeen == FileInv => VisitedSeen
<1> SUFFICES ASSUME FileInv, NEW k \in visited \ readded
             PROVE  StatusOf(k) \in {"completed", "failed"}
  BY DEF VisitedSeen
<1> QED
  BY VisitedView

LEMMA VisitedViewNext == FileInv' => VisitedSeen'
BY VisitedAreSeen, PTL

\* A step whose marks are the only ends that may not be recorded.
LEMMA RecordingKept ==
  ASSUME FileInv, FileInv', NEW S \in SUBSET Keys,
         \A k \in S : StatusOf(k) = "processing",
         Unrecorded' \subseteq Unrecorded \cup S
  PROVE  Contract!Recording
<1>1. Unrecorded' \subseteq Keys /\ Unrecorded' \subseteq visited' \ readded'
  BY DEF FileInv, FileTypeOK, Unrecorded
<1>2. \A k \in Unrecorded' : StatusOf(k)' \in {"completed", "failed"}
  BY <1>1, VisitedViewNext DEF VisitedSeen
<1> QED
  BY <1>1, <1>2 DEF Contract!Recording, Contract!Ended

LEMMA NothingUnrecorded ==
  ASSUME FileInv, FileInv', Unrecorded' \subseteq Unrecorded
  PROVE  Contract!Recording
<1> DEFINE S == {}
<1>1. S \in SUBSET Keys /\ Unrecorded' \subseteq Unrecorded \cup S
  OBVIOUS
<1>2. \A k \in S : StatusOf(k) = "processing"
  OBVIOUS
<1> HIDE DEF S
<1> QED
  BY <1>1, <1>2, RecordingKept

\* A step that changes the view of one key changes the contract's functions at
\* that key.
LEMMA ViewAt ==
  ASSUME NEW k \in Keys,
         \A j \in Keys \ {k} : StatusOf(j)' = StatusOf(j) /\ RetryOf(j)' = RetryOf(j)
  PROVE  /\ [j \in Keys |-> StatusOf(j)]' = [[j \in Keys |-> StatusOf(j)] EXCEPT ![k] = StatusOf(k)']
         /\ [j \in Keys |-> RetryOf(j)]' = [[j \in Keys |-> RetryOf(j)] EXCEPT ![k] = RetryOf(k)']
OBVIOUS

LEMMA SameView ==
  ASSUME \A j \in Keys : StatusOf(j)' = StatusOf(j) /\ RetryOf(j)' = RetryOf(j),
         Contract!Recording
  PROVE  Contract!ContractNext
BY DEF Contract!ContractNext

\* A step in which every key of S, in a worker's hands until now or visited and
\* not recorded, becomes unknown.
LEMMA ForgetView ==
  ASSUME NEW S \in SUBSET Keys,
         \A k \in S : /\ StatusOf(k) = "processing" \/ k \in Unrecorded
                      /\ StatusOf(k)' = "unknown" /\ RetryOf(k)' = 0,
         \A j \in Keys \ S : StatusOf(j)' = StatusOf(j) /\ RetryOf(j)' = RetryOf(j),
         Contract!Recording
  PROVE  Contract!ContractNext
<1>1. Contract!Forget(S)
  BY DEF Contract!Forget
<1> QED
  BY <1>1 DEF Contract!ContractNext

LEMMA AddKeepsContract ==
  ASSUME FileInv, FileInv', NEW u \in Urls, NEW io \in Outcomes, Add(u, io)
  PROVE  Contract!ContractNext
<1>1. PICK k : k = normalizeURL[u]
  OBVIOUS
<1>2. /\ UNCHANGED <<visitedFile, saved, visited, held, completed>>
      /\ HeldKeys' = HeldKeys
      /\ readded' = readded \cup (HeldKeys \cap {k})
  BY <1>1 DEF Add, HeldKeys, UniqueKey, historyVars
<1>3. Contract!Recording
  BY <1>2, NothingUnrecorded DEF Unrecorded
<1>4. \A j \in Keys \ {k} : files'[j] = files[j]
  BY <1>1, WriteRequestCases DEF Add, FileInv
<1>5. \A j \in Keys \ {k} : StatusOf(j)' = StatusOf(j) /\ RetryOf(j)' = RetryOf(j)
  BY <1>2, <1>4, OtherKeys
<1>6. CASE k \in HeldKeys \ readded
  <2>1. PICK w \in Workers : held[w] # None /\ UniqueKey(held[w]) = k
    BY <1>6 DEF HeldKeys
  <2>2. k \in Keys /\ StatusOf(k) = "processing"
    BY <1>6, <2>1, HeldView, HeldIsRequest DEF HeldSeen, FileInv
  <2>3. StatusOf(k)' = "unknown" /\ RetryOf(k)' = 0
    BY <1>2, <1>6 DEF StatusOf, RetryOf
  <2> QED
    BY <1>3, <1>5, <2>2, <2>3, ForgetView
<1>7. CASE k \in readded
  BY <1>2, <1>3, <1>5, <1>7, ReaddedView, SameView
<1>8. CASE k \notin readded /\ k \notin HeldKeys
  <2>0. readded' = readded
    BY <1>2, <1>8
  <2>1. CASE ~(k \in Keys \ visited /\ files[k] = None)
    <3>1. files' = files
      BY <1>1, <2>1 DEF Add
    <3> QED
      BY <1>2, <1>3, <2>0, <3>1, OtherKeys, SameView
  <2>2. CASE k \in Keys \ visited /\ files[k] = None
    <3> DEFINE r == [url |-> u, retry |-> 0]
    <3>1. WriteRequest(k, r, io)
      BY <1>1, <2>2 DEF Add
    <3>2. r \in Request /\ r.retry = 0
      BY <1>1, <2>2 DEF Request, ValidUrls
    <3> HIDE DEF r
    <3>3. files'[k] = r \/ files'[k] = Torn \/ files'[k] = None
      BY <2>2, <3>1, WriteRequestCases DEF FileInv
    <3>4. StatusOf(k) = "unknown" /\ RetryOf(k) = 0
      BY <1>8, <2>2, FreeView, RequestIsNoMark
    <3>5. CASE files'[k] = r
      <4>1. StatusOf(k)' = "pending" /\ RetryOf(k)' = 0
        BY <1>2, <1>8, <2>0, <2>2, <3>2, <3>5, FreeViewNext
      <4>2. Contract!Add(k)
        BY <1>5, <2>2, <3>4, <4>1, ViewAt DEF Contract!Add
      <4> QED
        BY <1>3, <2>2, <4>2 DEF Contract!ContractNext
    <3>6. CASE files'[k] = Torn \/ files'[k] = None
      <4>1. StatusOf(k)' = "unknown" /\ RetryOf(k)' = 0
        BY <1>2, <1>8, <2>0, <2>2, <3>6, FreeViewNext, RequestIsNoMark
      <4> QED
        BY <1>3, <1>5, <3>4, <4>1, SameView
    <3> QED
      BY <3>3, <3>5, <3>6
  <2> QED
    BY <2>1, <2>2
<1> QED
  BY <1>6, <1>7, <1>8

LEMMA FetchKeepsContract ==
  ASSUME FileInv, FileInv', NEW w \in Workers, NEW k \in Keys, FetchNext(w, k)
  PROVE  Contract!ContractNext
<1>1. /\ held[w] = None /\ files[k] \in Request
      /\ held' = [held EXCEPT ![w] = files[k]]
      /\ files' = [files EXCEPT ![k] = None]
      /\ UNCHANGED <<visitedFile, saved, visited, completed, readded>>
  BY DEF FetchNext, Fetchable, historyVars
<1>2. UniqueKey(files[k]) = k /\ files[k] # None
  BY <1>1, RequestIsNoMark DEF FileInv, FileTypeOK, PendingKeys
<1>3. /\ held'[w] = files[k] /\ \A v \in Workers \ {w} : held'[v] = held[v]
      /\ \A j \in Keys \ {k} : files'[j] = files[j]
  BY <1>1 DEF FileInv, FileTypeOK
<1>4. \A j \in Keys \ {k} : StatusOf(j)' = StatusOf(j) /\ RetryOf(j)' = RetryOf(j)
  BY <1>1, <1>2, <1>3, OtherKeys
<1>5. Contract!Recording
  BY <1>1, NothingUnrecorded DEF Unrecorded
<1>6. CASE k \in readded
  BY <1>1, <1>4, <1>5, <1>6, ReaddedView, SameView
<1>7. CASE k \notin readded
  <2>1. k \notin HeldKeys
    BY <1>2, <1>7 DEF FileInv, OnePlacePerKey, HeldKeys
  <2>2. StatusOf(k) = "pending" /\ RetryOf(k) = files[k].retry
    BY <1>1, <1>7, <2>1, FreeView
  <2>3. HeldSeen' /\ UniqueKey(held[w])' = k
    BY <1>2, <1>3, HeldViewNext DEF UniqueKey
  <2>4. StatusOf(UniqueKey(held[w]))' = "processing" /\ RetryOf(UniqueKey(held[w]))' = held'[w].retry
    BY <1>1, <1>2, <1>3, <1>7, <2>3 DEF HeldSeen
  <2>5. StatusOf(k)' = "processing" /\ RetryOf(k)' = files[k].retry
    BY <1>3, <2>3, <2>4
  <2>6. Contract!FetchNext(k)
    BY <1>4, <2>2, <2>5, ViewAt DEF Contract!FetchNext
  <2> QED
    BY <1>5, <2>6 DEF Contract!ContractNext
<1> QED
  BY <1>6, <1>7

\* A request that leaves its worker is in nobody's hands; nothing else moves.
LEMMA ReleasedView ==
  ASSUME FileInv, FileInv', NEW w \in Workers, held[w] # None,
         held' = [held EXCEPT ![w] = None],
         NEW k \in Keys, k = UniqueKey(held[w]), readded' = readded,
         \A j \in Keys \ {k} : files'[j] = files[j] /\ (j \in visited' <=> j \in visited)
                                 /\ (j \in completed' <=> j \in completed)
  PROVE  /\ \A j \in Keys \ {k} : StatusOf(j)' = StatusOf(j) /\ RetryOf(j)' = RetryOf(j)
         /\ k \notin readded =>
              /\ StatusOf(k) = "processing" /\ RetryOf(k) = held[w].retry
              /\ k \notin HeldKeys'
              /\ k \notin visited /\ files[k] = None
<1>1. held'[w] = None /\ \A v \in Workers \ {w} : held'[v] = held[v]
  BY DEF FileInv, FileTypeOK
<1>2. \A j \in Keys \ {k} : StatusOf(j)' = StatusOf(j) /\ RetryOf(j)' = RetryOf(j)
  BY <1>1, OtherKeys
<1>3. ASSUME k \notin readded
      PROVE  /\ StatusOf(k) = "processing" /\ RetryOf(k) = held[w].retry
             /\ k \notin HeldKeys'
             /\ k \notin visited /\ files[k] = None
  <2>1. StatusOf(k) = "processing" /\ RetryOf(k) = held[w].retry
    BY <1>3, HeldView DEF HeldSeen
  <2>2. /\ k \notin visited /\ files[k] = None
        /\ \A v \in Workers \ {w} : held[v] # None => UniqueKey(held[v]) # k
    BY <1>3 DEF FileInv, OnePlacePerKey
  <2>3. k \notin HeldKeys'
    BY <1>1, <2>2 DEF HeldKeys, UniqueKey
  <2> QED
    BY <2>1, <2>2, <2>3
<1> QED
  BY <1>2, <1>3

\* A mark records the map; only its own key may be missing from what it leaves.
LEMMA SettleRecording ==
  ASSUME FileInv, FileInv', NEW w \in Workers, NEW io \in Outcomes, Settles(w, io),
         NEW k \in Keys, k = UniqueKey(held[w])
  PROVE  Contract!Recording
<1>1. /\ visited' = visited \cup {k} /\ readded' = readded /\ saveVisited(visited', io)
      /\ held[w] # None
  BY DEF Settles
<1>2. \/ visitedFile' = "whole" /\ saved' = visited'
      \/ visitedFile' = "torn"
      \/ visitedFile' = visitedFile /\ saved' = saved
  BY <1>1, SaveCases
<1>3. Unrecorded' \subseteq Unrecorded \cup ({k} \ readded)
  BY <1>1, <1>2 DEF Unrecorded
<1> DEFINE S == {k} \ readded
<1>4. S \in SUBSET Keys /\ \A j \in S : StatusOf(j) = "processing"
  BY <1>1, HeldView DEF HeldSeen
<1> HIDE DEF S
<1> QED
  BY <1>3, <1>4, RecordingKept DEF S

LEMMA MarkHandledKeepsContract ==
  ASSUME FileInv, FileInv', NEW w \in Workers, NEW io \in Outcomes, MarkHandled(w, io)
  PROVE  Contract!ContractNext
<1>1. PICK k \in Keys : k = UniqueKey(held[w])
  BY HeldIsRequest DEF MarkHandled, FileInv
<1>2. /\ held[w] # None /\ held' = [held EXCEPT ![w] = None]
      /\ visited' = visited \cup {k} /\ completed' = completed \cup {k}
      /\ UNCHANGED <<files, readded>>
  BY <1>1 DEF MarkHandled
<1>3. Contract!Recording
  <2>1. Settles(w, io)
    BY DEF MarkHandled, Settles
  <2> QED
    BY <1>1, <2>1, SettleRecording
<1>4. /\ \A j \in Keys \ {k} : StatusOf(j)' = StatusOf(j) /\ RetryOf(j)' = RetryOf(j)
      /\ k \notin readded =>
           StatusOf(k) = "processing" /\ k \notin HeldKeys' /\ files[k] = None
  BY <1>1, <1>2, ReleasedView
<1>5. CASE k \in readded
  BY <1>2, <1>3, <1>4, <1>5, ReaddedView, SameView
<1>6. CASE k \notin readded
  <2>1. StatusOf(k)' = "completed" /\ RetryOf(k)' = 0
    BY <1>2, <1>4, <1>6, FreeViewNext, RequestIsNoMark
  <2>2. Contract!MarkHandled(k)
    BY <1>4, <1>6, <2>1, ViewAt DEF Contract!MarkHandled
  <2> QED
    BY <1>3, <2>2 DEF Contract!ContractNext
<1> QED
  BY <1>5, <1>6

LEMMA MarkHandledWithErrorKeepsContract ==
  ASSUME FileInv, FileInv', NEW w \in Workers, NEW io \in Outcomes,
         MarkHandledWithError(w, io)
  PROVE  Contract!ContractNext
<1> DEFINE r == [held[w] EXCEPT !.retry = @ + 1]
<1>1. PICK k \in Keys : k = UniqueKey(held[w])
  BY HeldIsRequest DEF MarkHandledWithError, FileInv
<1>2. /\ held[w] # None /\ held' = [held EXCEPT ![w] = None] /\ UNCHANGED <<open, readded>>
      /\ IF r.retry >= maxRetries THEN GiveUp(UniqueKey(r), io) ELSE PutBack(UniqueKey(r), r, io)
  BY DEF MarkHandledWithError
<1>3. PICK n \in Nat : n = held[w].retry /\ n < maxRetries
  BY <1>2, HeldIsRequest DEF FileInv, HeldHaveAttempts, Request
<1>4. r \in Request /\ r.retry = n + 1 /\ UniqueKey(r) = k
  BY <1>1, <1>2, <1>3, HeldIsRequest, RetriedType DEF FileInv
<1> HIDE DEF r
<1>5. CASE r.retry >= maxRetries
  <2>1. GiveUp(k, io)
    BY <1>2, <1>4, <1>5
  <2>2. visited' = visited \cup {k} /\ completed' = completed \ {k} /\ files' = files
    BY <2>1 DEF GiveUp
  <2>3. Contract!Recording
    <3>1. Settles(w, io)
      BY <1>1, <1>2, <2>1 DEF GiveUp, Settles
    <3> QED
      BY <1>1, <3>1, SettleRecording
  <2>4. /\ \A j \in Keys \ {k} : StatusOf(j)' = StatusOf(j) /\ RetryOf(j)' = RetryOf(j)
        /\ k \notin readded =>
             StatusOf(k) = "processing" /\ RetryOf(k) = n /\ k \notin HeldKeys' /\ files[k] = None
    BY <1>1, <1>2, <1>3, <2>2, ReleasedView
  <2>5. CASE k \in readded
    BY <1>2, <2>3, <2>4, <2>5, ReaddedView, SameView
  <2>6. CASE k \notin readded
    <3>1. StatusOf(k)' = "failed" /\ RetryOf(k)' = 0
      BY <1>2, <2>2, <2>4, <2>6, FreeViewNext, RequestIsNoMark
    <3>2. n + 1 = maxRetries
      BY <1>3, <1>4, <1>5, MaxRetriesPositive
    <3>3. Contract!GiveUp(k)
      BY <2>4, <2>6, <3>1, <3>2, ViewAt DEF Contract!GiveUp
    <3> QED
      BY <2>3, <3>3 DEF Contract!ContractNext
  <2> QED
    BY <2>5, <2>6
<1>6. CASE ~(r.retry >= maxRetries)
  <2>1. PutBack(k, r, io)
    BY <1>2, <1>4, <1>6
  <2>2. WriteRequest(k, r, io) /\ UNCHANGED <<visited, completed, visitedFile, saved>>
    BY <2>1 DEF PutBack, historyVars
  <2>3. /\ files'[k] = r \/ files'[k] = Torn \/ files'[k] = files[k]
        /\ \A j \in Keys \ {k} : files'[j] = files[j]
    BY <2>2, WriteRequestCases DEF FileInv
  <2>4. Contract!Recording
    BY <1>2, <2>2, NothingUnrecorded DEF Unrecorded
  <2>5. /\ \A j \in Keys \ {k} : StatusOf(j)' = StatusOf(j) /\ RetryOf(j)' = RetryOf(j)
        /\ k \notin readded =>
             /\ StatusOf(k) = "processing" /\ RetryOf(k) = n
             /\ k \notin HeldKeys' /\ k \notin visited /\ files[k] = None
    BY <1>1, <1>2, <1>3, <2>2, <2>3, ReleasedView
  <2>6. CASE k \in readded
    BY <1>2, <2>4, <2>5, <2>6, ReaddedView, SameView
  <2>7. CASE k \notin readded /\ files'[k] # r
    <3>1. StatusOf(k)' = "unknown" /\ RetryOf(k)' = 0
      BY <1>2, <2>2, <2>3, <2>5, <2>7, FreeViewNext, RequestIsNoMark
    <3> DEFINE S == {k}
    <3>2. /\ S \in SUBSET Keys
          /\ \A j \in S : StatusOf(j) = "processing" /\ StatusOf(j)' = "unknown" /\ RetryOf(j)' = 0
          /\ \A j \in Keys \ S : StatusOf(j)' = StatusOf(j) /\ RetryOf(j)' = RetryOf(j)
      BY <2>5, <2>7, <3>1
    <3> HIDE DEF S
    <3> QED
      BY <2>4, <3>2, ForgetView
  <2>8. CASE k \notin readded /\ files'[k] = r
    <3>1. StatusOf(k)' = "pending" /\ RetryOf(k)' = n + 1
      BY <1>2, <1>4, <2>5, <2>8, FreeViewNext
    <3>2. n + 1 < maxRetries
      BY <1>3, <1>4, <1>6, MaxRetriesPositive
    <3>3. Contract!Retry(k)
      BY <2>5, <2>8, <3>1, <3>2, ViewAt DEF Contract!Retry
    <3> QED
      BY <2>4, <3>3 DEF Contract!ContractNext
  <2> QED
    BY <2>6, <2>7, <2>8
<1> QED
  BY <1>5, <1>6

\* Of a process that dies the contract sees that what its workers had is forgotten.
LEMMA CrashKeepsContract ==
  ASSUME FileInv, FileInv', Crash
  PROVE  Contract!ContractNext
<1>1. HeldKeys' = {} /\ UNCHANGED <<files, visitedFile, saved, visited, completed, readded>>
  BY DEF Crash, HeldKeys, historyVars
<1>2. Contract!Recording
  BY <1>1, NothingUnrecorded DEF Unrecorded
<1>3. HeldKeys \in SUBSET Keys
  BY HeldIsRequest DEF FileInv, HeldKeys
<1> DEFINE S == HeldKeys \ readded
<1>4. ASSUME NEW k \in S
      PROVE  StatusOf(k) = "processing" /\ StatusOf(k)' = "unknown" /\ RetryOf(k)' = 0
  <2>1. PICK w \in Workers : held[w] # None /\ UniqueKey(held[w]) = k
    BY DEF HeldKeys
  <2>2. files[k] = None /\ k \notin visited /\ k \in Keys /\ k \notin readded
    BY <1>3, <2>1 DEF FileInv, OnePlacePerKey
  <2>3. StatusOf(k) = "processing"
    BY <2>1, <2>2, HeldView DEF HeldSeen
  <2> QED
    BY <1>1, <2>2, <2>3, FreeViewNext, RequestIsNoMark
<1>5. ASSUME NEW j \in Keys \ S
      PROVE  StatusOf(j)' = StatusOf(j) /\ RetryOf(j)' = RetryOf(j)
  BY <1>1, FreeView, FreeViewNext, ReaddedView
<1>6. S \in SUBSET Keys
  BY <1>3
<1> HIDE DEF S
<1> QED
  BY <1>2, <1>4, <1>5, <1>6, ForgetView

\* A queue that is closed records what its marks could not, or fails to.
LEMMA CloseKeepsContract ==
  ASSUME FileInv, FileInv', NEW io \in Outcomes, Close(io)
  PROVE  Contract!ContractNext
<1>1. /\ saveVisited(visited, io)
      /\ UNCHANGED <<files, visited, held, completed, readded>>
  BY DEF Close, historyVars
<1>2. \/ visitedFile' = "whole" /\ saved' = visited
      \/ visitedFile' = "torn"
      \/ visitedFile' = visitedFile /\ saved' = saved
  BY <1>1, SaveCases
<1>3. Unrecorded' \subseteq Unrecorded
  BY <1>1, <1>2 DEF Unrecorded
<1>4. Contract!Recording
  BY <1>3, NothingUnrecorded
<1> QED
  BY <1>1, <1>4, OtherKeys, SameView

\* A restart forgets the ends that were not recorded, and no others.
LEMMA OpenKeepsContract ==
  ASSUME FileInv, FileInv', Open
  PROVE  Contract!ContractNext
<1>1. /\ visitedFile # "torn" /\ visited' = saved /\ completed' = completed \cap saved
      /\ UNCHANGED <<files, visitedFile, saved, held, readded>>
  BY DEF Open
<1>2. Unrecorded' \subseteq Unrecorded
  BY <1>1 DEF Unrecorded
<1>3. Contract!Recording
  BY <1>2, NothingUnrecorded
<1>4. HeldKeys = {} /\ HeldKeys' = {}
  <2>1. HeldKeys' = HeldKeys
    BY <1>1 DEF HeldKeys, UniqueKey
  <2> QED
    BY <2>1 DEF Open, FileInv, FileTypeOK
<1> DEFINE S == Unrecorded
<1>5. ASSUME NEW k \in S
      PROVE  StatusOf(k)' = "unknown" /\ RetryOf(k)' = 0
  <2>1. k \in Keys /\ k \in visited \ saved /\ k \notin readded
    BY <1>1 DEF Unrecorded, FileInv, FileTypeOK
  <2>2. files[k] \notin Request
    BY <2>1, RequestIsNoMark DEF FileInv, OnePlacePerKey
  <2> QED
    BY <1>1, <1>4, <2>1, <2>2, FreeViewNext
<1>6. ASSUME NEW j \in Keys \ S
      PROVE  StatusOf(j)' = StatusOf(j) /\ RetryOf(j)' = RetryOf(j)
  <2>1. j \in readded \/ (j \in visited <=> j \in saved)
    BY <1>1 DEF Unrecorded, FileInv, VisitedSurvives
  <2>2. CASE j \in readded
    BY <1>1, <2>2, ReaddedView
  <2>3. CASE j \in visited <=> j \in saved
    <3>1. (j \in visited' <=> j \in visited) /\ (j \in completed' <=> j \in completed)
      BY <1>1, <2>3 DEF FileInv, FileTypeOK
    <3> QED
      BY <1>1, <3>1, OtherKeys
  <2> QED
    BY <2>1, <2>2, <2>3
<1>7. S \in SUBSET Keys
  BY DEF Unrecorded, FileInv, FileTypeOK
<1> QED
  BY <1>3, <1>5, <1>6, <1>7, ForgetView

LEMMA StepKeepsContract ==
  ASSUME FileInv, FileInv', [FileNext]_fileVars
  PROVE  Contract!ContractNext
<1>1. CASE OpenFails \/ UNCHANGED fileVars
  <2>1. UNCHANGED <<files, visitedFile, saved, visited, held, completed, readded>>
    BY <1>1 DEF OpenFails, fileVars, historyVars
  <2>2. Contract!Recording
    BY <2>1, NothingUnrecorded DEF Unrecorded
  <2> QED
    BY <2>1, <2>2, OtherKeys, SameView
<1> QED
  BY <1>1, AddKeepsContract, FetchKeepsContract, MarkHandledKeepsContract,
     MarkHandledWithErrorKeepsContract, CloseKeepsContract, CrashKeepsContract,
     OpenKeepsContract DEF FileNext

-----------------------------------------------------------------------------
(* The queue and the storage together.                                      *)

\* A step of the crawl is one of the queue, or one of a handler.
LEMMA CrawlStepCases ==
  ASSUME [FileCrawlNext]_fileCrawlVars
  PROVE  \/ [FileNext]_fileVars
         \/ /\ \E io \in Outcomes : Faulty(io)
            /\ UNCHANGED <<files, visitedFile, saved, open, visited, held, historyVars, readded>>
BY DEF FileCrawlNext, StorePage, QueueOnly, PageHandled, PageFailed, DeletePage, DiesWhileStoring,
       ProcessDies, FileNext, fileCrawlVars

LEMMA CrawlStepDurable ==
  ASSUME DurableInv, [FileCrawlNext]_fileCrawlVars
  PROVE  DurableInv'
<1>1. ASSUME NEW io \in Outcomes, Faulty(io)
      PROVE  faults' \in 0 .. MaxFaults
  BY <1>1, FaultyType DEF DurableInv, FileTypeOK
<1> QED
  BY <1>1, CrawlStepCases, NextDurable, QuietDurable

LEMMA CrawlStepFileInv ==
  ASSUME FileInv, [FileCrawlNext]_fileCrawlVars
  PROVE  FileInv'
<1>1. DurableInv'
  BY CrawlStepDurable, FileInvParts
<1>2. CASE UNCHANGED <<files, visitedFile, saved, open, visited, held, historyVars, readded>>
  BY <1>1, <1>2, StillInv
<1> QED
  BY <1>2, CrawlStepCases, NextFileInv

\* The queue keeps its invariant in the hands of a crawl, too, whose callers may
\* add a page while a worker has it.
THEOREM CrawlFileInvariance == FileCrawlSpec => []FileInv
<1>1. FileCrawlInit => FileInv
  BY InitFileInv DEF FileCrawlInit
<1>2. FileInv /\ [FileCrawlNext]_fileCrawlVars => FileInv'
  BY CrawlStepFileInv
<1> QED
  BY <1>1, <1>2, PTL DEF FileCrawlSpec

LEMMA DurableInvariance == FileCrawlSpec => []DurableInv
<1>1. FileCrawlInit => DurableInv
  BY InitDurable DEF FileCrawlInit
<1>2. DurableInv /\ [FileCrawlNext]_fileCrawlVars => DurableInv'
  BY CrawlStepDurable
<1> QED
  BY <1>1, <1>2, PTL DEF FileCrawlSpec

\* FileQueue.MarkHandled, Close, saveVisited and loadVisited: no page a mark of
\* which returned nil is crawled again after a restart, whatever the callers add
\* and when, and whichever later writes go wrong, before or after truncating.
THEOREM SurvivesRestarts == FileCrawlSpec => []VisitedSurvives
<1>1. DurableInv => VisitedSurvives
  BY DEF DurableInv
<1> QED
  BY <1>1, DurableInvariance, PTL

\* FetchNext's io.EOF overlooks a file only if it is torn, or if reading or
\* removing it failed: a request that is written back always has an attempt left.
THEOREM EOFMeansEmpty == FileCrawlSpec => []EOFOverlooksOnlyBadFiles
<1>1. ASSUME DurableInv
      PROVE  EOFOverlooksOnlyBadFiles
  <2> SUFFICES ASSUME NEW k \in Keys, files[k] # None, files[k] # Torn
               PROVE  Fetchable(k)
    BY DEF EOFOverlooksOnlyBadFiles, NothingToFetch
  <2>1. files[k] \in Request
    BY <1>1 DEF DurableInv, FileTypeOK
  <2>2. k \in PendingKeys
    BY <2>1 DEF PendingKeys
  <2> QED
    BY <1>1, <2>1, <2>2 DEF DurableInv, HeldHaveAttempts, Fetchable
<1> QED
  BY <1>1, DurableInvariance, PTL

\* FileQueue keeps the request lifecycle of the README through crashes and writes
\* that go wrong, in the hands of a crawl: it forgets the requests that a worker
\* has, or that are being written, at that time, and the ends whose own mark could
\* not write visited.json.  Of a key added while a worker has it, it says nothing.
THEOREM FileImplementsContract == FileCrawlSpec => KeepsContract
<1>1. FileCrawlInit => Contract!ContractInit
  <2> SUFFICES ASSUME FileCrawlInit
               PROVE  Contract!ContractInit
    OBVIOUS
  <2>1. \A k \in Keys : StatusOf(k) = "unknown" /\ RetryOf(k) = 0
    BY RequestIsNoMark
       DEF FileCrawlInit, FileInit, StatusOf, RetryOf, PendingKeys, HeldKeys
  <2>2. Unrecorded = {}
    BY DEF FileCrawlInit, FileInit, Unrecorded
  <2> QED
    BY <2>1, <2>2 DEF Contract!ContractInit
<1>2. FileInv /\ FileInv' /\ [FileCrawlNext]_fileCrawlVars
        => [Contract!ContractNext]_(Contract!contractVars)
  <2> SUFFICES ASSUME FileInv, FileInv', [FileCrawlNext]_fileCrawlVars
               PROVE  Contract!ContractNext
    OBVIOUS
  <2>1. CASE UNCHANGED <<files, visitedFile, saved, open, visited, held, historyVars, readded>>
    <3>1. Contract!Recording
      BY <2>1, NothingUnrecorded DEF Unrecorded
    <3> QED
      BY <2>1, <3>1, OtherKeys, SameView DEF historyVars
  <2> QED
    BY <2>1, CrawlStepCases, StepKeepsContract
<1> QED
  BY <1>1, <1>2, CrawlFileInvariance, PTL DEF FileCrawlSpec, KeepsContract, Contract!ContractSpec

-----------------------------------------------------------------------------
(* What a handler stored before its page was marked stays stored, for every *)
(* page whose file name is its own.                                         *)

\* A worker whose Set returned nil has its page in the storage.
StoredIsThere ==
  \A w \in stored :
    /\ held[w] # None
    /\ UniqueKey(held[w]) \notin readded /\ OwnName(UniqueKey(held[w])) =>
         Has(held[w].url) /\ Get(held[w].url) = UniqueKey(held[w])

StoreInv ==
  /\ FileInv
  /\ FileCrawlTypeOK
  /\ StoredIsThere
  /\ CompletedPagesAreStored

LEMMA InitStoreInv == FileCrawlInit => StoreInv
<1> SUFFICES ASSUME FileCrawlInit
             PROVE  StoreInv
  OBVIOUS
<1>1. FileInv
  BY InitFileInv DEF FileCrawlInit
<1>2. FileCrawlTypeOK
  BY DEF FileCrawlInit, FileStorageInit, FileCrawlTypeOK, StorageTypeOK
<1> QED
  BY <1>1, <1>2 DEF FileCrawlInit, FileInit, StoreInv, StoredIsThere, CompletedPagesAreStored

\* A write for one page leaves the files of a page with names of its own alone.
LEMMA OtherFilesStay ==
  ASSUME StorageTypeOK, NEW u \in StorageKeys, NEW x,
         dataFiles' = [dataFiles EXCEPT ![fileName[u]] = x],
         NEW v \in StorageKeys, OwnName(normalizeURL[v]), normalizeURL[u] # normalizeURL[v]
  PROVE  Has(v)' = Has(v) /\ Get(v)' = Get(v)
<1>1. fileName[u] # fileName[v] /\ fileName[v] \in Names
  BY DEF OwnName, Names
<1> QED
  BY <1>1 DEF StorageTypeOK, Has, Get

\* A write to the file of a page that a worker has disturbs no page that is done,
\* and no other worker's.
LEMMA WriteDisturbsNobody ==
  ASSUME StoreInv, NEW w \in Workers, held[w] # None, NEW x,
         dataFiles' = [dataFiles EXCEPT ![fileName[held[w].url]] = x],
         completed' = completed, readded' = readded
  PROVE  /\ CompletedPagesAreStored'
         /\ \A v \in Workers \ {w}, t \in StorageKeys :
              /\ held[v] # None /\ t = held[v].url
              /\ UniqueKey(held[v]) \notin readded /\ OwnName(UniqueKey(held[v]))
              => Has(t)' = Has(t) /\ Get(t)' = Get(t)
<1> DEFINE u == held[w].url
<1>1. u \in StorageKeys /\ normalizeURL[u] = UniqueKey(held[w])
  BY HeldIsRequest, StoredUnderUrl DEF StoreInv, FileInv, Request
<1>2. StorageTypeOK
  BY DEF StoreInv, FileCrawlTypeOK
<1>3. ASSUME NEW k \in completed \ readded, OwnName(k)
      PROVE  \E v \in ValidUrls : normalizeURL[v] = k /\ Has(v)' /\ Get(v)' = k
  <2>1. PICK v \in ValidUrls : normalizeURL[v] = k /\ Has(v) /\ Get(v) = k
    BY <1>3 DEF StoreInv, CompletedPagesAreStored
  <2>2. normalizeURL[u] # k
    BY <1>1, <1>3 DEF StoreInv, FileInv, FileTypeOK, OnePlacePerKey
  <2>3. Has(v)' = Has(v) /\ Get(v)' = Get(v)
    BY <1>1, <1>2, <1>3, <2>1, <2>2, OtherFilesStay, StoredUnderUrl
  <2> QED
    BY <2>1, <2>3
<1>4. ASSUME NEW v \in Workers \ {w}, NEW t \in StorageKeys, held[v] # None, t = held[v].url,
             UniqueKey(held[v]) \notin readded, OwnName(UniqueKey(held[v]))
      PROVE  Has(t)' = Has(t) /\ Get(t)' = Get(t)
  <2>1. UniqueKey(held[v]) = normalizeURL[t]
    BY <1>4, HeldIsRequest DEF StoreInv, FileInv
  <2>2. UniqueKey(held[v]) # UniqueKey(held[w])
    BY <1>4 DEF StoreInv, FileInv, OnePlacePerKey
  <2> QED
    BY <1>1, <1>2, <1>4, <2>1, <2>2, OtherFilesStay
<1> QED
  BY <1>3, <1>4 DEF CompletedPagesAreStored, OwnName

\* No step of the queue alone, and no mark, writes a data file.
LEMMA StoreStands ==
  ASSUME StoreInv, FileInv', FileCrawlTypeOK', dataFiles' = dataFiles, readded \subseteq readded',
         \A k \in completed' \ completed : k \notin readded' /\ OwnName(k) =>
           \E u \in ValidUrls : normalizeURL[u] = k /\ Has(u) /\ Get(u) = k,
         \A w \in stored' : w \in stored /\ held'[w] = held[w]
  PROVE  StoreInv'
<1>1. \A u : Has(u)' = Has(u) /\ Get(u)' = Get(u)
  BY DEF Has, Get
<1>2. CompletedPagesAreStored'
  BY <1>1 DEF StoreInv, CompletedPagesAreStored, OwnName
<1>3. StoredIsThere'
  BY DEF StoreInv, StoredIsThere, UniqueKey, Has, Get, OwnName
<1> QED
  BY <1>2, <1>3 DEF StoreInv

LEMMA QueueOnlyStoreInv ==
  ASSUME StoreInv, [FileNext]_fileVars, dataFiles' = dataFiles, stored' = stored,
         completed' \subseteq completed, readded \subseteq readded',
         \A w \in stored : held'[w] = held[w]
  PROVE  StoreInv'
<1>1. FileInv'
  BY NextFileInv DEF StoreInv
<1>2. FileCrawlTypeOK'
  BY DEF StoreInv, FileCrawlTypeOK, StorageTypeOK
<1> QED
  BY <1>1, <1>2, StoreStands

LEMMA StorePageInv ==
  ASSUME StoreInv, FileInv', NEW w \in Workers, NEW io \in Outcomes, StorePage(w, io)
  PROVE  StoreInv'
<1> DEFINE u == held[w].url
           k == UniqueKey(held[w])
<1>1. /\ held[w] # None /\ w \notin stored
      /\ UNCHANGED <<held, completed, readded>>
  BY DEF StorePage, historyVars
<1>2. u \in StorageKeys /\ k = normalizeURL[u] /\ k \in Values
  BY <1>1, HeldIsRequest, StoredUnderUrl DEF StoreInv, FileInv, Request
<1>3. fileName[u] \in Names
  BY <1>2 DEF Names
<1>4. CASE Set(u, normalizeURL[u], io) /\ stored' = IF IsNil(io) THEN stored \cup {w} ELSE stored
  <2>1. PICK x \in Values \cup {NoData, TornData} :
          /\ dataFiles' = [dataFiles EXCEPT ![fileName[u]] = x]
          /\ IsNil(io) => x = k
    <3>1. dataFiles[fileName[u]] \in Values \cup {NoData, TornData}
      BY <1>3 DEF StoreInv, FileCrawlTypeOK, StorageTypeOK
    <3>2. AfterWrite(io, dataFiles[fileName[u]], k, TornData) \in Values \cup {NoData, TornData}
      BY <1>2, <3>1, AfterWriteCases
    <3>3. IsNil(io) => AfterWrite(io, dataFiles[fileName[u]], k, TornData) = k
      BY DEF IsNil, AfterWrite
    <3> QED
      BY <1>2, <1>4, <3>2, <3>3 DEF Set
  <2>2. stored' = stored \/ (IsNil(io) /\ stored' = stored \cup {w})
    BY <1>4
  <2>3. FileCrawlTypeOK'
    BY <1>2, <2>1, <2>2 DEF StoreInv, FileCrawlTypeOK, StorageTypeOK
  <2>4. /\ CompletedPagesAreStored'
        /\ \A v \in Workers \ {w}, t \in StorageKeys :
             /\ held[v] # None /\ t = held[v].url
             /\ UniqueKey(held[v]) \notin readded /\ OwnName(UniqueKey(held[v]))
             => Has(t)' = Has(t) /\ Get(t)' = Get(t)
    BY <1>1, <2>1, WriteDisturbsNobody
  <2>5. ASSUME NEW v \in stored, UniqueKey(held[v]) \notin readded, OwnName(UniqueKey(held[v]))
        PROVE  Has(held[v].url)' /\ Get(held[v].url)' = UniqueKey(held[v])
    <3>1. /\ v \in Workers \ {w} /\ held[v] # None
          /\ Has(held[v].url) /\ Get(held[v].url) = UniqueKey(held[v])
      BY <1>1, <2>5 DEF StoreInv, StoredIsThere, FileCrawlTypeOK
    <3>2. PICK t \in StorageKeys : t = held[v].url
      BY <3>1, HeldIsRequest, StoredUnderUrl DEF StoreInv, FileInv, Request
    <3>3. Has(t)' /\ Get(t)' = UniqueKey(held[v])
      BY <2>4, <2>5, <3>1, <3>2
    <3> QED
      BY <1>1, <3>2, <3>3
  <2>6. ASSUME IsNil(io)
        PROVE  Has(held[w].url)' /\ Get(held[w].url)' = UniqueKey(held[w])
    <3>1. dataFiles'[fileName[u]] = k
      BY <1>3, <2>1, <2>6 DEF StoreInv, FileCrawlTypeOK, StorageTypeOK
    <3>2. k # NoData /\ k # TornData
      BY <1>2, StorageContentAssumption
    <3> QED
      BY <1>1, <3>1, <3>2 DEF Has, Get
  <2>7. \A v : held'[v] = held[v] /\ UniqueKey(held[v])' = UniqueKey(held[v])
                                  /\ Has(held[v].url)' = (dataFiles'[fileName[held[v].url]] # NoData)
    BY <1>1 DEF UniqueKey, Has
  <2>8. StoredIsThere'
    <3> SUFFICES ASSUME NEW v \in stored'
                 PROVE  /\ held[v] # None
                        /\ UniqueKey(held[v]) \notin readded /\ OwnName(UniqueKey(held[v])) =>
                             Has(held[v].url)' /\ Get(held[v].url)' = UniqueKey(held[v])
      BY <1>1, <2>7 DEF StoredIsThere, OwnName
    <3>1. v \in stored \/ (v = w /\ IsNil(io))
      BY <2>2
    <3> QED
      BY <1>1, <2>5, <2>6, <3>1 DEF StoreInv, StoredIsThere
  <2> QED
    BY <2>3, <2>4, <2>8 DEF StoreInv
<1>5. CASE SetFails(u) /\ stored' = stored
  <2>1. dataFiles' = dataFiles
    BY <1>5 DEF SetFails
  <2>2. FileCrawlTypeOK'
    BY <1>5, <2>1 DEF StoreInv, FileCrawlTypeOK, StorageTypeOK
  <2> QED
    BY <1>1, <1>5, <2>1, <2>2, StoreStands
<1> QED
  BY <1>4, <1>5 DEF StorePage

LEMMA DeletePageInv ==
  ASSUME StoreInv, NEW w \in Workers, DeletePage(w)
  PROVE  StoreInv'
<1>1. /\ held[w] # None /\ w \notin stored
      /\ UNCHANGED <<fileVars, stored>>
      /\ dataFiles' = [dataFiles EXCEPT ![fileName[held[w].url]] = NoData]
  BY DEF DeletePage, Delete
<1>2. FileCrawlTypeOK'
  BY <1>1 DEF StoreInv, FileCrawlTypeOK, StorageTypeOK
<1>3. FileInv'
  BY <1>1, QuietInv DEF StoreInv
<1>4. UNCHANGED <<held, completed, readded>>
  BY <1>1 DEF fileVars
<1>5. /\ CompletedPagesAreStored'
      /\ \A v \in Workers \ {w}, t \in StorageKeys :
           /\ held[v] # None /\ t = held[v].url
           /\ UniqueKey(held[v]) \notin readded /\ OwnName(UniqueKey(held[v]))
           => Has(t)' = Has(t) /\ Get(t)' = Get(t)
  BY <1>1, <1>4, WriteDisturbsNobody
<1>6. StoredIsThere'
  <2> SUFFICES ASSUME NEW v \in stored
               PROVE  /\ held[v] # None
                      /\ UniqueKey(held[v]) \notin readded /\ OwnName(UniqueKey(held[v])) =>
                           Has(held[v].url)' /\ Get(held[v].url)' = UniqueKey(held[v])
    BY <1>1, <1>4 DEF StoredIsThere, OwnName, UniqueKey, Has, Get
  <2>1. v \in Workers \ {w} /\ held[v] # None
    BY <1>1 DEF StoreInv, StoredIsThere, FileCrawlTypeOK
  <2>2. ASSUME UniqueKey(held[v]) \notin readded, OwnName(UniqueKey(held[v]))
        PROVE  Has(held[v].url)' /\ Get(held[v].url)' = UniqueKey(held[v])
    <3>1. Has(held[v].url) /\ Get(held[v].url) = UniqueKey(held[v])
      BY <2>2 DEF StoreInv, StoredIsThere
    <3>2. PICK t \in StorageKeys : t = held[v].url
      BY <2>1, HeldIsRequest, StoredUnderUrl DEF StoreInv, FileInv, Request
    <3>3. Has(t)' /\ Get(t)' = UniqueKey(held[v])
      BY <1>5, <2>1, <2>2, <3>1, <3>2
    <3> QED
      BY <1>4, <3>2, <3>3
  <2> QED
    BY <2>1, <2>2
<1> QED
  BY <1>2, <1>3, <1>5, <1>6 DEF StoreInv

LEMMA DiesWhileStoringInv ==
  ASSUME StoreInv, NEW w \in Workers, DiesWhileStoring(w)
  PROVE  StoreInv'
<1>1. /\ held[w] # None /\ Crash /\ stored' = {}
      /\ dataFiles' = [dataFiles EXCEPT ![fileName[held[w].url]] = TornData]
      /\ completed' = completed /\ readded' = readded
  BY DEF DiesWhileStoring, Set, Crash, historyVars, AfterWrite
<1>2. FileCrawlTypeOK'
  BY <1>1 DEF StoreInv, FileCrawlTypeOK, StorageTypeOK
<1>3. FileInv'
  BY <1>1, CrashInv DEF StoreInv
<1>4. CompletedPagesAreStored'
  BY <1>1, WriteDisturbsNobody
<1>5. StoredIsThere'
  BY <1>1 DEF StoredIsThere
<1> QED
  BY <1>2, <1>3, <1>4, <1>5 DEF StoreInv

LEMMA NextStoreInv ==
  ASSUME StoreInv, [FileCrawlNext]_fileCrawlVars
  PROVE  StoreInv'
<1>1. FileInv'
  BY CrawlStepFileInv DEF StoreInv
<1>2. ASSUME NEW u \in Urls, NEW io \in Outcomes, QueueOnly(Add(u, io))
      PROVE  StoreInv'
  BY <1>2, QueueOnlyStoreInv DEF QueueOnly, FileNext, Add, historyVars
<1>3. ASSUME NEW w \in Workers, NEW k \in Keys, QueueOnly(FetchNext(w, k))
      PROVE  StoreInv'
  <2>1. \A v \in stored : held'[v] = held[v]
    BY <1>3 DEF QueueOnly, FetchNext, StoreInv, StoredIsThere, FileCrawlTypeOK, FileInv, FileTypeOK
  <2> QED
    BY <1>3, <2>1, QueueOnlyStoreInv DEF QueueOnly, FileNext, FetchNext, historyVars
<1>4. ASSUME NEW w \in Workers, NEW io \in Outcomes, PageHandled(w, io)
      PROVE  StoreInv'
  <2>1. /\ w \in stored /\ held[w] # None
        /\ held' = [held EXCEPT ![w] = None]
        /\ completed' = completed \cup {UniqueKey(held[w])}
        /\ stored' = stored \ {w}
        /\ UNCHANGED <<dataFiles, readded>>
    BY <1>4 DEF PageHandled, MarkHandled
  <2>2. FileCrawlTypeOK'
    BY <2>1 DEF StoreInv, FileCrawlTypeOK, StorageTypeOK
  <2>3. /\ held[w].url \in ValidUrls /\ normalizeURL[held[w].url] = UniqueKey(held[w])
        /\ UniqueKey(held[w]) \notin readded /\ OwnName(UniqueKey(held[w])) =>
             Has(held[w].url) /\ Get(held[w].url) = UniqueKey(held[w])
    BY <2>1, HeldIsRequest DEF StoreInv, StoredIsThere, FileInv, Request
  <2>4. \A v \in stored' : v \in stored /\ held'[v] = held[v]
    BY <2>1 DEF StoreInv, FileCrawlTypeOK, FileInv, FileTypeOK
  <2>5. \A k \in completed' \ completed : k \notin readded' /\ OwnName(k) =>
          \E u \in ValidUrls : normalizeURL[u] = k /\ Has(u) /\ Get(u) = k
    BY <2>1, <2>3
  <2> QED
    BY <1>1, <2>1, <2>2, <2>4, <2>5, StoreStands
<1>5. ASSUME NEW w \in Workers, NEW io \in Outcomes, PageFailed(w, io)
      PROVE  StoreInv'
  <2>1. /\ held' = [held EXCEPT ![w] = None]
        /\ completed' \subseteq completed
        /\ stored' = stored \ {w}
        /\ UNCHANGED <<dataFiles, readded>>
    BY <1>5 DEF PageFailed, MarkHandledWithError, GiveUp, PutBack, historyVars
  <2>2. FileCrawlTypeOK'
    BY <2>1 DEF StoreInv, FileCrawlTypeOK, StorageTypeOK
  <2>3. \A v \in stored' : v \in stored /\ held'[v] = held[v]
    BY <2>1 DEF StoreInv, FileCrawlTypeOK, FileInv, FileTypeOK
  <2> QED
    BY <1>1, <2>1, <2>2, <2>3, StoreStands
<1>6. ASSUME NEW io \in Outcomes, QueueOnly(Close(io))
      PROVE  StoreInv'
  BY <1>6, QueueOnlyStoreInv DEF QueueOnly, FileNext, Close, historyVars
<1>7. CASE QueueOnly(Open \/ OpenFails)
  BY <1>7, QueueOnlyStoreInv DEF QueueOnly, FileNext, Open, OpenFails, fileVars
<1>8. CASE ProcessDies
  <2>1. stored' = {} /\ UNCHANGED <<dataFiles, completed, readded>>
    BY <1>8 DEF ProcessDies, Crash, historyVars
  <2>2. FileCrawlTypeOK'
    BY <2>1 DEF StoreInv, FileCrawlTypeOK, StorageTypeOK
  <2> QED
    BY <1>1, <2>1, <2>2, StoreStands
<1>9. CASE UNCHANGED fileCrawlVars
  BY <1>9, QueueOnlyStoreInv DEF fileCrawlVars, fileVars
<1> QED
  BY <1>1, <1>2, <1>3, <1>4, <1>5, <1>6, <1>7, <1>8, <1>9, StorePageInv, DeletePageInv,
     DiesWhileStoringInv DEF FileCrawlNext

\* The mark comes after the data: whatever crashes and writes that go wrong happen,
\* a page that the queue calls completed has its data, whole, under its URL, but for
\* a page that shares its file name or was added while a worker had it.
THEOREM CompletedIsStored == FileCrawlSpec => []CompletedPagesAreStored
<1>1. FileCrawlInit => StoreInv
  BY InitStoreInv
<1>2. StoreInv /\ [FileCrawlNext]_fileCrawlVars => StoreInv'
  BY NextStoreInv
<1>3. StoreInv => CompletedPagesAreStored
  BY DEF StoreInv
<1> QED
  BY <1>1, <1>2, <1>3, PTL DEF FileCrawlSpec

-----------------------------------------------------------------------------
(* The names of the files: what sanitize makes of the bytes of a key.       *)

\* What the steps of sanitize establish, one after the other.
Unfiltered(s) == \A i \in 1 .. Len(s) : s[i] # "filtered"
SingleSpaces(s) == \A i \in 1 .. Len(s) - 1 : ~(s[i] = "space" /\ s[i + 1] = "space")
Trimmed(s) == s # <<>> => s[1] # "space" /\ s[Len(s)] # "space"

Tidy(s) == Unfiltered(s) /\ SingleSpaces(s) /\ Trimmed(s)

\* The loop of CollapseSpace has a run, and it is trimmed at the end.
LEMMA CollapseRun ==
  ASSUME NEW s \in Seq(Chars)
  PROVE  \E kept \in [0 .. Len(s) -> Seq(Chars)] :
           /\ kept[0] = <<>>
           /\ \A i \in 1 .. Len(s) :
                kept[i] = IF s[i] = "space" /\ i > 1 /\ s[i - 1] = "space" THEN kept[i - 1]
                          ELSE Append(kept[i - 1], s[i])
           /\ CollapseSpace(s) = TrimSpace(kept[Len(s)])
<1> DEFINE Next(i, prev) == IF s[i] = "space" /\ i > 1 /\ s[i - 1] = "space" THEN prev
                            ELSE Append(prev, s[i])
           IsKept(f) == f = [i \in 0 .. Len(s) |-> IF i = 0 THEN <<>> ELSE Next(i, f[i - 1])]
<1>0. PICK n \in Nat : n = Len(s)
  OBVIOUS
<1>1. ASSUME NEW i \in 1 .. n, NEW t \in Seq(Chars)
      PROVE  Next(i, t) \in Seq(Chars)
  <2>1. s[i] \in Chars
    BY <1>0
  <2>2. Append(t, s[i]) \in Seq(Chars)
    BY <2>1
  <2> QED
    BY <2>2
<1>2. \E f \in [0 .. n -> Seq(Chars)] : IsKept(f)
  <2>1. <<>> \in Seq(Chars)
    OBVIOUS
  <2>2. PICK step : step = [i \in 1 .. n |-> [t \in Seq(Chars) |-> Next(i, t)]]
    OBVIOUS
  <2> HIDE DEF Next
  <2>3. step \in [1 .. n -> [Seq(Chars) -> Seq(Chars)]]
    BY <1>1, <2>2
  <2>4. PICK f \in [0 .. n -> Seq(Chars)] : IsRun(f, n, <<>>, step)
    BY <2>1, <2>3, IterationExists
  <2>5. ASSUME NEW i \in 1 .. n
        PROVE  f[i] = Next(i, f[i - 1])
    <3>1. f[i - 1] \in Seq(Chars) /\ f[i] = step[i][f[i - 1]]
      <4>1. i - 1 \in 0 .. n
        OBVIOUS
      <4> QED
        BY <2>4, <4>1, Zenon DEF IsRun
    <3> QED
      BY <3>1, <2>2
  <2>6. IsKept(f)
    BY <1>0, <2>4, <2>5 DEF IsRun
  <2> QED
    BY <2>6
<1>3. ASSUME NEW f \in [0 .. n -> Seq(Chars)], NEW g, IsKept(f), IsKept(g)
      PROVE  g \in [0 .. n -> Seq(Chars)]
  <2> DEFINE T == {i \in 0 .. n : g[i] = f[i]}
  <2>1. 0 \in T
    <3> HIDE DEF Next
    <3> QED
      BY <1>0, <1>3
  <2>2. \A i \in 1 .. n : i - 1 \in T => i \in T
    <3>1. \A i \in 1 .. n : f[i] = Next(i, f[i - 1])
      <4> HIDE DEF Next
      <4> QED
        BY <1>0, <1>3
    <3>2. \A i \in 1 .. n : g[i] = Next(i, g[i - 1])
      <4> HIDE DEF Next
      <4> QED
        BY <1>0, <1>3
    <3> HIDE DEF IsKept, Next
    <3> QED
      BY <3>1, <3>2
  <2>3. \A i \in 0 .. n : i \in T
    <3> HIDE DEF T
    <3> QED
      BY <2>1, <2>2, Induction
  <2>4. g = [i \in 0 .. n |-> IF i = 0 THEN <<>> ELSE Next(i, g[i - 1])]
    BY <1>0, <1>3
  <2> HIDE DEF IsKept, Next
  <2> QED
    BY <1>3, <2>3, <2>4
<1>4. PICK kept : kept = CHOOSE f : IsKept(f)
  OBVIOUS
<1>5. IsKept(kept)
  <2> HIDE DEF IsKept
  <2> QED
    BY <1>2, <1>4
<1>6. kept \in [0 .. n -> Seq(Chars)]
  <2> HIDE DEF IsKept
  <2> QED
    BY <1>2, <1>3, <1>5
<1>7. kept[0] = <<>> /\ \A i \in 1 .. n : kept[i] = Next(i, kept[i - 1])
  <2> HIDE DEF Next
  <2> QED
    BY <1>0, <1>5
<1>8. CollapseSpace(s) = TrimSpace(kept[n])
  BY <1>0, <1>4 DEF CollapseSpace
<1> QED
  BY <1>0, <1>6, <1>7, <1>8

\* What has been kept of the string has no run of spaces; nothing is added to it.
LEMMA KeptIsSingle ==
  ASSUME NEW s \in Seq(Chars)
  PROVE  \E t \in Seq(Chars) :
           /\ CollapseSpace(s) = TrimSpace(t)
           /\ SingleSpaces(t)
           /\ Unfiltered(s) => Unfiltered(t)
           /\ SingleSpaces(s) => t = s
<1>0. PICK n \in Nat : n = Len(s)
  OBVIOUS
<1>1. PICK kept \in [0 .. n -> Seq(Chars)] :
        /\ kept[0] = <<>>
        /\ \A i \in 1 .. n :
             kept[i] = IF s[i] = "space" /\ i > 1 /\ s[i - 1] = "space" THEN kept[i - 1]
                       ELSE Append(kept[i - 1], s[i])
        /\ CollapseSpace(s) = TrimSpace(kept[n])
  BY <1>0, CollapseRun
<1> DEFINE EndsLike(i, t) ==
             IF i = 0 THEN t = <<>> ELSE t # <<>> /\ (t[Len(t)] = "space" <=> s[i] = "space")
           Whole(i, t) == Len(t) = i /\ \A j \in 1 .. i : t[j] = s[j]
           Kept(i, t) == /\ EndsLike(i, t)
                         /\ SingleSpaces(t)
                         /\ Unfiltered(s) => Unfiltered(t)
                         /\ SingleSpaces(s) => Whole(i, t)
           T == {i \in 0 .. n : Kept(i, kept[i])}
<1>2. 0 \in T
  BY <1>1 DEF SingleSpaces, Unfiltered
<1>3. ASSUME NEW i \in 1 .. n, i - 1 \in T
      PROVE  i \in T
  <2>1. PICK p \in Seq(Chars) : p = kept[i - 1]
    BY <1>1
  <2>2. Kept(i - 1, p)
    BY <1>3, <2>1
  <2>3. CASE s[i] = "space" /\ i > 1 /\ s[i - 1] = "space"
    <3>1. kept[i] = p
      BY <1>1, <2>1, <2>3
    <3>2. EndsLike(i, p)
      BY <2>2, <2>3
    <3>3. ~SingleSpaces(s)
      <4>1. i - 1 \in 1 .. Len(s) - 1 /\ (i - 1) + 1 = i
        BY <1>0, <2>3
      <4> QED
        BY <2>3, <4>1 DEF SingleSpaces
    <3> QED
      BY <2>2, <3>1, <3>2, <3>3
  <2>4. CASE ~(s[i] = "space" /\ i > 1 /\ s[i - 1] = "space")
    <3>1. s[i] \in Chars /\ Append(p, s[i]) \in Seq(Chars)
      <4>1. s[i] \in Chars
        BY <1>0
      <4> QED
        BY <4>1
    <3>2. PICK t \in Seq(Chars) : t = Append(p, s[i])
      BY <3>1
    <3>3. kept[i] = t
      BY <1>1, <2>1, <2>4, <3>2
    <3>4. PICK m \in Nat : m = Len(p)
      OBVIOUS
    <3>5. Len(t) = m + 1 /\ t[m + 1] = s[i] /\ \A j \in 1 .. m : t[j] = p[j]
      BY <3>1, <3>2, <3>4
    <3>6. EndsLike(i, t)
      BY <3>5
    <3>7. ~(m > 0 /\ p[m] = "space" /\ s[i] = "space")
      BY <2>2, <2>4, <3>4
    <3>8. SingleSpaces(t)
      <4>1. ASSUME NEW j \in 1 .. m
            PROVE  ~(t[j] = "space" /\ t[j + 1] = "space")
        <5>1. CASE j = m
          BY <3>5, <3>7, <5>1
        <5>2. CASE j # m
          <6>1. j \in 1 .. Len(p) - 1 /\ j \in 1 .. m /\ j + 1 \in 1 .. m
            BY <3>4, <4>1, <5>2
          <6> QED
            BY <2>2, <3>5, <6>1 DEF SingleSpaces
        <5> QED
          BY <5>1, <5>2
      <4> QED
        BY <3>4, <3>5, <4>1 DEF SingleSpaces
    <3>9. Unfiltered(s) => Unfiltered(t)
      BY <1>0, <2>2, <3>4, <3>5 DEF Unfiltered
    <3>10. SingleSpaces(s) => Whole(i, t)
      BY <2>2, <3>4, <3>5
    <3> QED
      BY <3>3, <3>6, <3>8, <3>9, <3>10
  <2> QED
    BY <2>3, <2>4
<1>4. n \in T
  <2>1. \A i \in 0 .. n : i \in T
    <3> HIDE DEF T
    <3> QED
      BY <1>2, <1>3, Induction
  <2> QED
    BY <2>1
<1>5. PICK t \in Seq(Chars) : t = kept[n]
  BY <1>1
<1>6. Kept(n, t)
  BY <1>4, <1>5
<1>7. SingleSpaces(s) => t = s
  BY <1>0, <1>6
<1> QED
  BY <1>1, <1>5, <1>6, <1>7

\* Where runs of spaces are single, taking one off each end is enough.
LEMMA TrimIsTidy ==
  ASSUME NEW s \in Seq(Chars), SingleSpaces(s)
  PROVE  /\ TrimSpace(s) \in Seq(Chars)
         /\ SingleSpaces(TrimSpace(s))
         /\ Trimmed(TrimSpace(s))
         /\ Unfiltered(s) => Unfiltered(TrimSpace(s))
         /\ Trimmed(s) => TrimSpace(s) = s
<1> DEFINE Good(t) == /\ t \in Seq(Chars)
                      /\ SingleSpaces(t)
                      /\ Unfiltered(s) => Unfiltered(t)
                      /\ Trimmed(s) => t = s
<1>1. PICK t : t = IF s # <<>> /\ Head(s) = "space" THEN Tail(s) ELSE s
  OBVIOUS
<1>2. Good(t) /\ (t # <<>> => t[1] # "space")
  <2>1. CASE s # <<>> /\ Head(s) = "space"
    <3>1. PICK n \in Nat : n = Len(s) - 1
      BY <2>1
    <3>2. t = Tail(s) /\ t \in Seq(Chars)
      BY <1>1, <2>1
    <3>3. Len(t) = n /\ s[1] = "space" /\ \A i \in 1 .. n : t[i] = s[i + 1]
      BY <2>1, <3>1, <3>2
    <3>4. SingleSpaces(t) /\ (Unfiltered(s) => Unfiltered(t))
      BY <3>1, <3>3 DEF SingleSpaces, Unfiltered
    <3>5. ~Trimmed(s)
      BY <2>1, <3>3 DEF Trimmed
    <3>6. ASSUME t # <<>>
          PROVE  t[1] # "space"
      <4>1. n >= 1
        BY <3>2, <3>3, <3>6
      <4>2. 1 \in 1 .. Len(s) - 1 /\ t[1] = s[1 + 1]
        BY <3>1, <3>3, <4>1
      <4> QED
        BY <3>3, <4>2 DEF SingleSpaces
    <3> QED
      BY <3>2, <3>4, <3>5, <3>6
  <2>2. CASE ~(s # <<>> /\ Head(s) = "space")
    BY <1>1, <2>2
  <2> QED
    BY <2>1, <2>2
<1>3. TrimSpace(s) = IF t # <<>> /\ t[Len(t)] = "space" THEN SubSeq(t, 1, Len(t) - 1) ELSE t
  BY <1>1 DEF TrimSpace, Last, Front
<1>4. CASE t # <<>> /\ t[Len(t)] = "space"
  <2>1. PICK n \in Nat : n = Len(t) - 1
    BY <1>2, <1>4
  <2>2. PICK r \in Seq(Chars) : r = TrimSpace(s) /\ r = SubSeq(t, 1, n)
    <3>1. SubSeq(t, 1, n) \in Seq(Chars)
      BY <1>2, <2>1
    <3> QED
      BY <1>3, <1>4, <2>1, <3>1
  <2>3. Len(r) = n /\ \A i \in 1 .. n : r[i] = t[i]
    BY <1>2, <2>1, <2>2
  <2>4. SingleSpaces(r) /\ (Unfiltered(s) => Unfiltered(r))
    BY <1>2, <2>1, <2>3 DEF SingleSpaces, Unfiltered
  <2>5. Trimmed(r)
    <3>1. SUFFICES ASSUME r # <<>>
                   PROVE  r[1] # "space" /\ r[n] # "space"
      BY <2>3 DEF Trimmed
    <3>2. n >= 1
      BY <2>2, <2>3, <3>1
    <3>3. n \in 1 .. Len(t) - 1 /\ t[n + 1] = "space" /\ r[n] = t[n] /\ r[1] = t[1]
      BY <1>4, <2>1, <2>3, <3>2
    <3> QED
      BY <1>2, <1>4, <3>3 DEF SingleSpaces
  <2>6. ~Trimmed(s)
    BY <1>2, <1>4 DEF Trimmed
  <2> QED
    BY <2>2, <2>4, <2>5, <2>6
<1>5. CASE ~(t # <<>> /\ t[Len(t)] = "space")
  <2>1. TrimSpace(s) = t
    BY <1>3, <1>5
  <2> QED
    BY <1>2, <1>5, <2>1 DEF Trimmed
<1> QED
  BY <1>4, <1>5

LEMMA CollapseIsTidy ==
  ASSUME NEW s \in Seq(Chars)
  PROVE  /\ CollapseSpace(s) \in Seq(Chars)
         /\ SingleSpaces(CollapseSpace(s))
         /\ Trimmed(CollapseSpace(s))
         /\ Unfiltered(s) => Unfiltered(CollapseSpace(s))
         /\ SingleSpaces(s) /\ Trimmed(s) => CollapseSpace(s) = s
<1>1. PICK t \in Seq(Chars) :
        /\ CollapseSpace(s) = TrimSpace(t)
        /\ SingleSpaces(t)
        /\ Unfiltered(s) => Unfiltered(t)
        /\ SingleSpaces(s) => t = s
  BY KeptIsSingle
<1> QED
  BY <1>1, TrimIsTidy

LEMMA ReplaceIsTidy ==
  ASSUME NEW s \in Seq(Chars), SingleSpaces(s)
  PROVE  /\ ReplaceFiltered(s) \in Seq(Chars)
         /\ Tidy(ReplaceFiltered(s))
         /\ Tidy(s) => ReplaceFiltered(s) = s
<1>0. PICK n \in Nat : n = Len(s)
  OBVIOUS
<1>1. PICK t : t = [i \in DOMAIN s |-> IF s[i] = "filtered" THEN Underscore ELSE s[i]]
  OBVIOUS
<1>2. s \in [1 .. n -> Chars] /\ DOMAIN s = 1 .. n
  BY <1>0
<1>3. t \in [1 .. n -> Chars]
  BY <1>1, <1>2 DEF Underscore, Chars
<1>4. t \in Seq(Chars) /\ Len(t) = n
  BY <1>3
<1>5. \A i \in 1 .. n : t[i] # "filtered" /\ (t[i] = "space" <=> s[i] = "space")
  BY <1>1, <1>2 DEF Underscore
<1>6. Unfiltered(t) /\ SingleSpaces(t)
  BY <1>0, <1>4, <1>5 DEF Unfiltered, SingleSpaces
<1>7. Unfiltered(s) => t = s
  BY <1>0, <1>1, <1>2 DEF Unfiltered
<1>8. ReplaceFiltered(s) = TrimSpace(t)
  BY <1>1 DEF ReplaceFiltered
<1> QED
  BY <1>4, <1>6, <1>7, <1>8, TrimIsTidy DEF Tidy

\* clean makes every string tidy, and leaves a tidy one as it is.
LEMMA CleanIsTidy ==
  ASSUME NEW s \in Seq(Chars)
  PROVE  /\ clean(s) \in Seq(Chars) /\ Tidy(clean(s))
         /\ Tidy(s) => clean(s) = s
<1>1. PICK t : t = CollapseSpace(s)
  OBVIOUS
<1>2. t \in Seq(Chars) /\ SingleSpaces(t) /\ (Tidy(s) => t = s)
  BY <1>1, CollapseIsTidy DEF Tidy
<1>3. PICK r : r = ReplaceFiltered(t)
  OBVIOUS
<1>4. r \in Seq(Chars) /\ Tidy(r) /\ (Tidy(t) => r = t)
  BY <1>2, <1>3, ReplaceIsTidy
<1>5. CollapseSpace(r) = r
  BY <1>4, CollapseIsTidy DEF Tidy
<1>6. clean(s) = r
  BY <1>1, <1>3, <1>5 DEF clean
<1> QED
  BY <1>2, <1>4, <1>6

\* A tidy string that is not empty gets a visible name that is tidy, too.
LEMMA NameIsVisible ==
  ASSUME NEW s \in Seq(Chars), Tidy(s)
  PROVE  /\ filterDot(filterBlank(s)) \in Seq(Chars)
         /\ Tidy(filterDot(filterBlank(s)))
         /\ filterDot(filterBlank(s)) # <<>>
         /\ filterDot(filterBlank(s))[1] # "dot"
         /\ s # <<>> /\ s[1] # "dot" => filterDot(filterBlank(s)) = s
<1> DEFINE file == fallbackFilename
<1>1. /\ file \in Seq(Chars) /\ Len(file) = 4 /\ file # <<>>
      /\ file[1] = "plain" /\ file[2] = "plain" /\ file[3] = "plain" /\ file[4] = "plain"
  BY DEF fallbackFilename, Chars
<1>2. \A i \in 1 .. 4 : file[i] = "plain"
  <2>1. \A i \in 1 .. 4 : i = 1 \/ i = 2 \/ i = 3 \/ i = 4
    OBVIOUS
  <2> HIDE DEF file
  <2> QED
    BY <1>1, <2>1
<1> HIDE DEF file
<1>3. PICK t : t = filterBlank(s)
  OBVIOUS
<1>4. t \in Seq(Chars) /\ Tidy(t) /\ t # <<>> /\ (s # <<>> => t = s)
  <2>1. CASE s = <<>>
    <3>1. t = file
      BY <1>3, <2>1 DEF filterBlank, file
    <3>2. Len(t) = 4 /\ t \in Seq(Chars) /\ t # <<>> /\ \A i \in 1 .. 4 : t[i] # "filtered" /\ t[i] # "space"
      BY <1>1, <1>2, <3>1
    <3>3. Unfiltered(t) /\ SingleSpaces(t) /\ Trimmed(t)
      BY <3>2 DEF Unfiltered, SingleSpaces, Trimmed
    <3> QED
      BY <2>1, <3>2, <3>3 DEF Tidy
  <2>2. CASE s # <<>>
    BY <1>3, <2>2 DEF filterBlank
  <2> QED
    BY <2>1, <2>2
<1>5. CASE t[1] = "dot"
  <2>1. PICK n \in Nat : n = Len(t) /\ n >= 1
    BY <1>4
  <2>2. PICK r \in Seq(Chars) : r = file \o t
    <3>1. file \o t \in Seq(Chars)
      BY <1>1, <1>4
    <3> QED
      BY <3>1
  <2>3. filterDot(t) = r
    BY <1>5, <2>2 DEF filterDot, file
  <2>4. /\ Len(r) = 4 + n
        /\ \A i \in 1 .. 4 : r[i] = "plain"
        /\ \A i \in 5 .. 4 + n : r[i] = t[i - 4]
    <3>1. /\ Len(r) = Len(file) + Len(t)
          /\ \A i \in 1 .. Len(file) + Len(t) :
               r[i] = IF i <= Len(file) THEN file[i] ELSE t[i - Len(file)]
      BY <1>1, <1>4, <2>2, ConcatProperties
    <3> QED
      BY <1>1, <1>2, <2>1, <3>1
  <2>5. \A i \in 1 .. 4 + n : i \in 1 .. 4 \/ (i \in 5 .. 4 + n /\ i - 4 \in 1 .. n)
    OBVIOUS
  <2>6. Unfiltered(r)
    BY <1>4, <2>1, <2>4, <2>5 DEF Unfiltered, Tidy
  <2>7. SingleSpaces(r)
    <3>1. ASSUME NEW i \in 1 .. Len(r) - 1, r[i] = "space", r[i + 1] = "space"
          PROVE  FALSE
      <4>1. i \in 1 .. 4 + n /\ i \notin 1 .. 4
        BY <2>4, <3>1
      <4>2. i - 4 \in 1 .. Len(t) - 1 /\ i \in 5 .. 4 + n /\ i + 1 \in 5 .. 4 + n
        BY <2>1, <2>4, <3>1, <4>1
      <4>3. t[i - 4] = "space" /\ t[(i - 4) + 1] = "space"
        <5>1. (i + 1) - 4 = (i - 4) + 1
          OBVIOUS
        <5> QED
          BY <2>4, <3>1, <4>2, <5>1
      <4> QED
        BY <1>4, <4>2, <4>3 DEF Tidy, SingleSpaces
    <3> QED
      BY <3>1 DEF SingleSpaces
  <2>8. r # <<>> /\ r[1] = "plain" /\ r[Len(r)] = t[n]
    <3>1. Len(r) \in 5 .. 4 + n /\ Len(r) - 4 = n /\ 1 \in 1 .. 4
      BY <2>1, <2>4
    <3>2. r[Len(r)] = t[n] /\ r[1] = "plain"
      BY <2>4, <3>1
    <3> QED
      BY <2>1, <2>2, <2>4, <3>2
  <2>9. Tidy(r)
    BY <1>4, <2>1, <2>6, <2>7, <2>8 DEF Tidy, Trimmed
  <2> QED
    BY <1>3, <1>4, <1>5, <2>2, <2>3, <2>8, <2>9
<1>6. CASE t[1] # "dot"
  <2>1. filterDot(t) = t
    BY <1>6 DEF filterDot
  <2> QED
    BY <1>3, <1>4, <1>6, <2>1
<1> QED
  BY <1>5, <1>6

\* Whatever the bytes of a key, sanitize gives a name of the storage's directory.
THEOREM SanitizeIsSafe ==
  ASSUME NEW s \in Seq(Chars)
  PROVE  SafeName(sanitize(s))
<1>1. PICK c \in Seq(Chars) : c = clean(s) /\ Tidy(c)
  BY CleanIsTidy
<1>2. PICK t : t = filterDot(filterBlank(c))
  OBVIOUS
<1>3. t \in Seq(Chars) /\ Tidy(t) /\ t # <<>> /\ t[1] # "dot"
  BY <1>1, <1>2, NameIsVisible
<1>4. PICK n \in Nat : n = Len(t) /\ n >= 1
  BY <1>3
<1>5. PICK m \in Nat : m = (IF n > NameMax THEN NameMax ELSE n) /\ m >= 1 /\ m <= n /\ m <= NameMax
  BY <1>4, NameMaxAssumption
<1>6. PICK name \in Seq(Chars) : name = SubSeq(t, 1, m) /\ name = sanitize(s)
  <2>1. SubSeq(t, 1, m) \in Seq(Chars)
    BY <1>3, <1>4, <1>5
  <2> QED
    BY <1>1, <1>2, <1>4, <1>5, <2>1 DEF sanitize
<1>7. Len(name) = m /\ \A i \in 1 .. m : name[i] = t[i]
  BY <1>3, <1>4, <1>5, <1>6
<1>8. name # <<>> /\ Head(name) \notin {"dot", "space"}
  <2>1. name # <<>>
    <3>1. Len(name) # 0
      BY <1>5, <1>7
    <3> QED
      BY <3>1
  <2>2. Head(name) = t[1]
    BY <1>5, <1>6, <1>7, <2>1
  <2> QED
    BY <1>3, <2>1, <2>2 DEF Tidy, Trimmed
<1>9. \A i \in DOMAIN name : name[i] # "filtered"
  <2>1. \A i \in DOMAIN name : i \in 1 .. m /\ i \in 1 .. n
    BY <1>5, <1>6, <1>7
  <2> QED
    BY <1>3, <1>4, <1>7, <2>1 DEF Tidy, Unfiltered
<1>10. ASSUME Len(name) < NameMax
       PROVE  sanitize(name) = name
  <2>1. m = n
    BY <1>5, <1>7, <1>10
  <2>2. name = t
    BY <1>3, <1>4, <1>6, <1>7, <2>1
  <2>3. clean(name) = name
    BY <1>3, <2>2, CleanIsTidy
  <2>4. filterDot(filterBlank(name)) = name
    BY <1>3, <2>2, NameIsVisible
  <2>5. sanitize(name) = SubSeq(name, 1, IF Len(name) > NameMax THEN NameMax ELSE Len(name))
    BY <2>3, <2>4 DEF sanitize
  <2>6. sanitize(name) = SubSeq(t, 1, m)
    BY <1>4, <1>5, <2>2, <2>5
  <2> QED
    BY <1>6, <2>6
<1> QED
  BY <1>5, <1>7, <1>8, <1>9, <1>10, <1>6 DEF SafeName

\* FileStorage names the file of a key by what sanitize makes of it.
FilesAreSanitized == fileName = [u \in StorageKeys |-> sanitize(keyBytes[u])]

\* No key, whatever its bytes, has its data in a file that is hidden, outside
\* the storage's directory or without a name.
THEOREM NamesAreSafe ==
  ASSUME FilesAreSanitized
  PROVE  FileCrawlSpec => []FileNamesAreSafe
<1>1. ASSUME NEW u \in StorageKeys
      PROVE  fileName[u] = sanitize(keyBytes[u]) /\ SafeName(fileName[u])
  <2>1. keyBytes[u] \in Seq(Chars)
    BY KeyBytesAssumption
  <2>2. fileName[u] = sanitize(keyBytes[u])
    BY DEF FilesAreSanitized
  <2> QED
    BY <2>1, <2>2, SanitizeIsSafe
<1>2. FileNamesAreSafe
  BY <1>1 DEF FileNamesAreSafe
<1> QED
  BY <1>2, PTL
=============================================================================
