----------------------------- MODULE FileCrawl -----------------------------
(***************************************************************************)
(* A crawl that keeps both its queue and its data in files: between        *)
(* FetchNext and the mark a page's handler stores its data under the       *)
(* page's URL, and the process may die before, in the middle of and after  *)
(* any of these steps.  The handler is the environment's: it may delete    *)
(* what an earlier attempt stored, may fail before or after it has stored  *)
(* the page, and returns the error of Set.                                 *)
(***************************************************************************)
EXTENDS FileQueue, FileStorage, SanitizeFilename

CONSTANT keyBytes  \* the bytes of each key, as SanitizeFilename sees them

ASSUME StoredUnderUrl == StorageKeys = ValidUrls /\ Values = Keys
ASSUME KeyBytesAssumption == keyBytes \in [StorageKeys -> Seq(Chars)]

VARIABLE stored  \* the workers whose handler called Set and got no error

fileCrawlVars == <<fileVars, dataFiles, stored>>

FileCrawlTypeOK ==
  /\ StorageTypeOK
  /\ stored \in SUBSET Workers

FileCrawlInit ==
  /\ FileInit
  /\ FileStorageInit
  /\ stored = {}

QueueOnly(step) == step /\ UNCHANGED <<dataFiles, stored>>

\* A mutant of StorePage: the handler does not look at Set's error.
StorePage_Unchecked(w, io) ==
  LET u == held[w].url IN
  /\ held[w] # None /\ w \notin stored
  /\ Faulty(io)
  /\ \/ Set(u, normalizeURL[u], io)
     \/ SetFails(u) /\ IsNil(io)
  /\ stored' = stored \cup {w}
  /\ UNCHANGED <<files, visitedFile, saved, open, visited, held, historyVars, readded>>

\* The handler has the page and stores it; after an error it may try again.
StorePage(w, io) ==
  LET u == held[w].url IN
  /\ held[w] # None /\ w \notin stored
  /\ Faulty(io)
  /\ \/ Set(u, normalizeURL[u], io) /\ stored' = IF IsNil(io) THEN stored \cup {w} ELSE stored
     \/ SetFails(u) /\ IsNil(io) /\ UNCHANGED stored
  /\ UNCHANGED <<files, visitedFile, saved, open, visited, held, historyVars, readded>>

DeletePage(w) ==
  /\ held[w] # None /\ w \notin stored
  /\ Delete(held[w].url)
  /\ UNCHANGED <<fileVars, stored>>

\* The handler returns nil only after its Set did.
PageHandled(w, io) ==
  /\ w \in stored
  /\ MarkHandled(w, io)
  /\ stored' = stored \ {w}
  /\ UNCHANGED dataFiles

PageFailed(w, io) ==
  /\ MarkHandledWithError(w, io)
  /\ stored' = stored \ {w}
  /\ UNCHANGED dataFiles

\* The process dies, in the middle of a Set or of a queue's write, or between.
ProcessDies ==
  /\ Crash
  /\ stored' = {}
  /\ UNCHANGED dataFiles

DiesWhileStoring(w) ==
  LET u == held[w].url IN
  /\ held[w] # None /\ w \notin stored
  /\ Set(u, normalizeURL[u], "torn")
  /\ Crash
  /\ stored' = {}

FileCrawlNext ==
  \/ \E u \in Urls, io \in Outcomes : QueueOnly(Add(u, io))
  \/ \E w \in Workers, k \in Keys : QueueOnly(FetchNext(w, k))
  \/ \E w \in Workers, io \in Outcomes :
       StorePage(w, io) \/ PageHandled(w, io) \/ PageFailed(w, io)
  \/ \E w \in Workers : DeletePage(w) \/ DiesWhileStoring(w)
  \/ \E io \in Outcomes : QueueOnly(Close(io))
  \/ QueueOnly(Open \/ OpenFails)
  \/ ProcessDies

FileCrawlSpec == FileCrawlInit /\ [][FileCrawlNext]_fileCrawlVars
-----------------------------------------------------------------------------
\* No URL of another page has the file name of one of k's.
OwnName(k) ==
  \A u, v \in StorageKeys :
    normalizeURL[u] = k /\ fileName[u] = fileName[v] => normalizeURL[v] = k

\* A page the queue calls completed has its data, whole, in the storage, through
\* crashes and writes of either that go wrong: the mark comes after the data, and
\* while the queue remembers it nobody crawls the page again.  A page that shares
\* its file name, or that was added while a worker had it, has no such promise.
CompletedPagesAreStored ==
  \A k \in completed \ readded : OwnName(k) =>
    \E u \in ValidUrls : normalizeURL[u] = k /\ Has(u) /\ Get(u) = k

\* Every file a handler's data is in has the name sanitize gives its key, and it
\* is that of a visible file of the storage's own directory, whatever the key.
FileNamesAreSafe ==
  \A u \in StorageKeys : Has(u) => fileName[u] = sanitize(keyBytes[u]) /\ SafeName(fileName[u])
=============================================================================
