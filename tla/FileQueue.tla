----------------------------- MODULE FileQueue -----------------------------
(***************************************************************************)
(* storage.FileQueue: a directory with a file for each pending request, a  *)
(* file visited.json, and in memory the map `visited`, all behind one      *)
(* mutex.  A request that is handed out has no file: it is in the hands of *)
(* its worker only.  Every write goes as WriteFile says, and the process   *)
(* may die after any step; what the operating system has taken it keeps.   *)
(***************************************************************************)
EXTENDS Integers, FiniteSets, WriteFile

CONSTANTS Urls,              \* URL strings a caller may pass to Add
          Keys,              \* unique keys: what normalizeURL returns
          Invalid,           \* what it returns for a string url.Parse rejects
          normalizeURL,      \* the normalization, as a function on Urls
          MaxRetriesOption,  \* FileQueueOptions.MaxRetries
          Workers,           \* the goroutines that fetch and mark requests
          None,              \* no file, no request
          Torn,              \* the content of a file whose write was cut off
          MaxFaults          \* bound on writes that go wrong and on crashes

ASSUME FileNormalizeAssumption ==
  /\ Invalid \notin Keys
  /\ normalizeURL \in [Urls -> Keys \cup {Invalid}]
ASSUME FileMaxRetriesAssumption == MaxRetriesOption \in Nat
ASSUME FileBoundsAssumption == MaxFaults \in Nat

maxRetries == IF MaxRetriesOption = 0 THEN 3 ELSE MaxRetriesOption

ValidUrls == {u \in Urls : normalizeURL[u] \in Keys}

Request == [url : ValidUrls, retry : Nat]

ASSUME FileContentAssumption == None # Torn /\ {None, Torn} \cap Request = {}

UniqueKey(r) == normalizeURL[r.url]

VARIABLES files,        \* the directory pending, by unique key
          visitedFile,  \* visited.json: "absent", "whole" or "torn" ...
          saved,        \* ... and the keys in it when it is whole
          open,         \* a process has the queue open
          visited,      \* its map visited; between two processes, the last one's
          held,         \* the request each worker fetched and has not yet marked
          completed,    \* history: the visited keys that were handled, not given up
          acked,        \* history: keys a mark of which returned nil
          readded,      \* history: keys that were added while a worker had them
          faults        \* bound: writes that went wrong and crashes so far

fileVars == <<files, visitedFile, saved, open, visited, held, completed, acked, readded, faults>>
historyVars == <<completed, acked>>

PendingKeys == {k \in Keys : files[k] \in Request}
HeldKeys == {UniqueKey(held[w]) : w \in {x \in Workers : held[x] # None}}

FileInit ==
  /\ files = [k \in Keys |-> None]
  /\ visitedFile = "absent" /\ saved = {}
  /\ open = TRUE
  /\ visited = {}
  /\ held = [w \in Workers |-> None]
  /\ completed = {} /\ acked = {} /\ readded = {}
  /\ faults = 0

\* A write may go wrong as long as the bound allows.
Faulty(io) ==
  /\ ~IsNil(io) => faults < MaxFaults
  /\ faults' = IF IsNil(io) THEN faults ELSE faults + 1

WriteRequest(k, r, io) == files' = [files EXCEPT ![k] = AfterWrite(io, @, r, Torn)]

\* A mutant of saveVisited: it writes the keys of the map before this call.
saveVisited_Stale(keys, io) ==
  /\ visitedFile' = AfterWrite(io, visitedFile, "whole", "torn")
  /\ saved' = AfterWrite(io, saved, visited, {})

saveVisited(keys, io) ==
  /\ visitedFile' = AfterWrite(io, visitedFile, "whole", "torn")
  /\ saved' = AfterWrite(io, saved, keys, {})
-----------------------------------------------------------------------------
\* A URL that does not parse, whose key is visited or has a file, of whatever
\* content, is a no-op.  A key in a worker's hands is neither.  os.Stat fails on
\* a file that is there only if opening it fails, too.
Add(u, io) ==
  LET k == normalizeURL[u] IN
  /\ open
  /\ Faulty(io)
  /\ IF k \in Keys \ visited /\ files[k] = None
     THEN WriteRequest(k, [url |-> u, retry |-> 0], io)
     ELSE UNCHANGED files
  /\ readded' = readded \cup (HeldKeys \cap {k})
  /\ UNCHANGED <<visitedFile, saved, open, visited, held, historyVars>>

Fetchable(k) == files[k] \in Request /\ files[k].retry < maxRetries

\* A mutant of FetchNext: the file stays.
FetchNext_Kept(w, k) ==
  /\ open /\ held[w] = None
  /\ Fetchable(k)
  /\ held' = [held EXCEPT ![w] = files[k]]
  /\ UNCHANGED <<files, visitedFile, saved, open, visited, historyVars, readded, faults>>

\* FetchNext reads the directory in the order of the hashes, skips every file it
\* cannot read, unmarshal or remove and every request without attempts left, and
\* removes the file it returns.  An error of ReadDir is returned.
FetchNext(w, k) ==
  /\ open /\ held[w] = None
  /\ Fetchable(k)
  /\ held' = [held EXCEPT ![w] = files[k]]
  /\ files' = [files EXCEPT ![k] = None]
  /\ UNCHANGED <<visitedFile, saved, open, visited, historyVars, readded, faults>>

\* FetchNext returns io.EOF if reading or removing the files of `failing` fails.
NothingToFetch(failing) == \A k \in Keys \ failing : ~Fetchable(k)

IsEmpty == \A k \in Keys : files[k] = None

MarkHandled(w, io) ==
  LET k == UniqueKey(held[w]) IN
  /\ held[w] # None
  /\ held' = [held EXCEPT ![w] = None]
  /\ Faulty(io)
  /\ visited' = visited \cup {k}
  /\ saveVisited(visited', io)
  /\ completed' = completed \cup {k}
  /\ acked' = IF IsNil(io) THEN acked \cup {k} ELSE acked
  /\ UNCHANGED <<files, open, readded>>

\* The request is out of attempts, or goes back to its file.
GiveUp(k, io) ==
  /\ visited' = visited \cup {k}
  /\ saveVisited(visited', io)
  /\ completed' = completed \ {k}
  /\ acked' = IF IsNil(io) THEN acked \cup {k} ELSE acked
  /\ UNCHANGED files

PutBack(k, r, io) ==
  WriteRequest(k, r, io) /\ UNCHANGED <<visited, visitedFile, saved, historyVars>>

\* A mutant of MarkHandledWithError: off by one at the last attempt.
MarkHandledWithError_OneMore(w, io) ==
  LET r == [held[w] EXCEPT !.retry = @ + 1] IN
  /\ held[w] # None
  /\ held' = [held EXCEPT ![w] = None]
  /\ Faulty(io)
  /\ IF r.retry > maxRetries THEN GiveUp(UniqueKey(r), io) ELSE PutBack(UniqueKey(r), r, io)
  /\ UNCHANGED <<open, readded>>

MarkHandledWithError(w, io) ==
  LET r == [held[w] EXCEPT !.retry = @ + 1] IN
  /\ held[w] # None
  /\ held' = [held EXCEPT ![w] = None]
  /\ Faulty(io)
  /\ IF r.retry >= maxRetries THEN GiveUp(UniqueKey(r), io) ELSE PutBack(UniqueKey(r), r, io)
  /\ UNCHANGED <<open, readded>>

\* The program closes the queue, its workers done, and ends.
Close(io) ==
  /\ open /\ HeldKeys = {}
  /\ Faulty(io)
  /\ saveVisited(visited, io)
  /\ open' = FALSE
  /\ UNCHANGED <<files, visited, held, historyVars, readded>>

\* The process dies, and with it its map and the requests its workers have.
Crash ==
  /\ open /\ faults < MaxFaults
  /\ faults' = faults + 1
  /\ open' = FALSE
  /\ held' = [w \in Workers |-> None]
  /\ UNCHANGED <<files, visitedFile, saved, visited, historyVars, readded>>

\* A mutant of Open: the loaded keys are not put into the map.
Open_Unloaded ==
  /\ ~open /\ visitedFile # "torn"
  /\ open' = TRUE
  /\ visited' = {} /\ completed' = {}
  /\ UNCHANGED <<files, visitedFile, saved, held, acked, readded, faults>>

\* NewFileQueueWithOptions on the same directory: a new map, which loadVisited
\* fills.
Open ==
  /\ ~open /\ visitedFile # "torn"
  /\ open' = TRUE
  /\ visited' = saved /\ completed' = completed \cap saved
  /\ UNCHANGED <<files, visitedFile, saved, held, acked, readded, faults>>

\* The directory cannot be made, or visited.json be read; or it does not
\* unmarshal, and then every attempt is an error.
OpenFails == ~open /\ UNCHANGED fileVars

FileNext ==
  \/ \E u \in Urls, io \in Outcomes : Add(u, io)
  \/ \E w \in Workers, k \in Keys : FetchNext(w, k)
  \/ \E w \in Workers, io \in Outcomes : MarkHandled(w, io) \/ MarkHandledWithError(w, io)
  \/ \E io \in Outcomes : Close(io)
  \/ Crash \/ Open \/ OpenFails

FileSpec == FileInit /\ [][FileNext]_fileVars
-----------------------------------------------------------------------------
FileTypeOK ==
  /\ files \in [Keys -> Request \cup {None, Torn}]
  /\ \A k \in PendingKeys : UniqueKey(files[k]) = k
  /\ visitedFile \in {"absent", "whole", "torn"}
  /\ saved \in SUBSET Keys
  /\ visitedFile # "whole" => saved = {}
  /\ open \in BOOLEAN
  /\ visited \in SUBSET Keys
  /\ held \in [Workers -> Request \cup {None}]
  /\ completed \in SUBSET visited
  /\ acked \in SUBSET Keys
  /\ readded \in SUBSET Keys
  /\ faults \in 0 .. MaxFaults
  /\ ~open => HeldKeys = {}

\* A mark that returned nil is never forgotten: its key is in the map, and in the
\* file whenever it is not torn, through every later write that went wrong and
\* every restart; and the file holds nothing that the map does not.
VisitedSurvives ==
  /\ acked \subseteq visited
  /\ visitedFile # "torn" => acked \subseteq saved /\ saved \subseteq visited

\* A file that io.EOF overlooks is torn, or was not read or removed in that very
\* call: a request with a file or a worker has attempts left.
EOFOverlooksOnlyBadFiles ==
  \A failing \in SUBSET Keys : NothingToFetch(failing) =>
    \A k \in Keys : files[k] # None => files[k] = Torn \/ k \in failing

\* A key that no one added while a worker had it is in one place at a time: with
\* a file, with one worker, or visited.
OnePlacePerKey ==
  /\ \A k \in visited \ readded : files[k] \in {None, Torn}
  /\ \A w \in Workers : held[w] # None /\ UniqueKey(held[w]) \notin readded =>
       /\ UniqueKey(held[w]) \notin visited
       /\ files[UniqueKey(held[w])] = None
       /\ \A v \in Workers \ {w} : held[v] # None => UniqueKey(held[v]) # UniqueKey(held[w])

HeldHaveAttempts ==
  /\ \A k \in PendingKeys : files[k].retry < maxRetries
  /\ \A w \in Workers : held[w] # None => held[w].retry < maxRetries

FileInv == FileTypeOK /\ VisitedSurvives /\ OnePlacePerKey /\ HeldHaveAttempts

\* Of a key that was added while a worker had it the contract sees nothing.
StatusOf(k) ==
  IF k \in readded THEN "unknown"
  ELSE IF k \in PendingKeys THEN "pending"
  ELSE IF k \in HeldKeys THEN "processing"
  ELSE IF k \notin visited THEN "unknown"
  ELSE IF k \in completed THEN "completed" ELSE "failed"

RetryOf(k) ==
  IF k \in readded THEN 0
  ELSE IF k \in PendingKeys THEN files[k].retry
  ELSE IF k \in HeldKeys
  THEN held[CHOOSE w \in Workers : held[w] # None /\ UniqueKey(held[w]) = k].retry
  ELSE 0

\* The marks that a restart will have forgotten, if there can be one.
Unrecorded == IF visitedFile = "torn" THEN {} ELSE (visited \ saved) \ readded

Contract == INSTANCE QueueContract
              WITH MaxAttempts <- maxRetries,
                   Requeues <- FALSE, Forgets <- TRUE,
                   status <- [k \in Keys |-> StatusOf(k)],
                   retry <- [k \in Keys |-> RetryOf(k)],
                   unrecorded <- Unrecorded

\* The queue keeps the documented lifecycle across restarts and writes that go
\* wrong.  It forgets a request that is in a worker's hands, or being written, at
\* that time, and an end whose own mark could not write visited.json; nothing
\* else, and of a key added while a worker has it nothing is promised.
KeepsContract == Contract!ContractSpec
=============================================================================
