---------------------------- MODULE SQLiteQueue ----------------------------
(***************************************************************************)
(* storage.SQLiteQueue: one table, one connection (SetMaxOpenConns(1)), so *)
(* that SQL statements, and the transaction of FetchNext, are atomic, but  *)
(* a method of two statements is not: Add looks for the key and then       *)
(* inserts it, MarkHandledWithError reads the retry count and then writes  *)
(* it back.  Between the two every other caller may run, or the process    *)
(* may die.  The table survives it; what the callers held does not.        *)
(***************************************************************************)
EXTENDS Integers, FiniteSets

CONSTANTS Urls,              \* URL strings a caller may pass to Add
          Keys,              \* unique keys: what normalizeURL returns
          Invalid,           \* what it returns for a string url.Parse rejects
          normalizeURL,      \* the normalization, as a function on Urls
          MaxRetriesOption,  \* SQLiteQueueOptions.MaxRetries
          Callers,           \* the goroutines that use the queue
          None,              \* no row, no request, no URL
          ResetLive,         \* ResetStuckRequests may hit a request in use
          MaxFaults          \* bound on restarts and on calls that fail

ASSUME SQLNormalizeAssumption ==
  /\ Invalid \notin Keys
  /\ normalizeURL \in [Urls -> Keys \cup {Invalid}]
ASSUME SQLMaxRetriesAssumption == MaxRetriesOption \in Nat
ASSUME SQLBoundsAssumption == ResetLive \in BOOLEAN /\ MaxFaults \in Nat

maxRetries == IF MaxRetriesOption = 0 THEN 3 ELSE MaxRetriesOption

ValidUrls == {u \in Urls : normalizeURL[u] \in Keys}

\* The columns id and unique_key are the key itself.
Row == [url : ValidUrls,
        status : {"pending", "processing", "completed", "failed"},
        retry : Nat]

ASSUME SQLNoneAssumption == None \notin Row \cup Keys \cup ValidUrls

VARIABLES table,   \* the row of each key, None where there is none
          pc,      \* where each caller is: outside, or between two statements
          adding,  \* the URL its Add call inserts
          held,    \* the key of the request it fetched and has not yet marked
          seen,    \* the retry count its MarkHandledWithError call has read
          faults   \* bound: restarts and failed calls so far

sqlVars == <<table, pc, adding, held, seen, faults>>

Rows == {k \in Keys : table[k] # None}
HeldKeys == {held[c] : c \in Callers} \ {None}

SQLInit ==
  /\ table = [k \in Keys |-> None]
  /\ pc = [c \in Callers |-> "idle"]
  /\ adding = [c \in Callers |-> None]
  /\ held = [c \in Callers |-> None]
  /\ seen = [c \in Callers |-> 0]
  /\ faults = 0

Goto(c, label) == pc' = [pc EXCEPT ![c] = label]
SetStatus(k, s) == table' = [table EXCEPT ![k].status = s]
-----------------------------------------------------------------------------
\* SELECT EXISTS: a URL that does not parse, or whose key has a row of any
\* status, is a no-op.
AddSelect(c, u) ==
  /\ pc[c] = "idle"
  /\ IF normalizeURL[u] \in Keys \ Rows
     THEN adding' = [adding EXCEPT ![c] = u] /\ Goto(c, "insert")
     ELSE UNCHANGED <<adding, pc>>
  /\ UNCHANGED <<table, held, seen, faults>>

\* A mutant of AddInsert: INSERT OR REPLACE.
AddInsert_Replaces(c) ==
  LET k == normalizeURL[adding[c]] IN
  /\ pc[c] = "insert"
  /\ table' = [table EXCEPT ![k] = [url |-> adding[c], status |-> "pending", retry |-> 0]]
  /\ adding' = [adding EXCEPT ![c] = None]
  /\ Goto(c, "idle")
  /\ UNCHANGED <<held, seen, faults>>

\* INSERT: where another caller has inserted the key meanwhile, the statement
\* breaks the UNIQUE constraint, changes nothing and Add returns its error.
AddInsert(c) ==
  LET k == normalizeURL[adding[c]] IN
  /\ pc[c] = "insert"
  /\ IF k \in Rows
     THEN UNCHANGED table
     ELSE table' = [table EXCEPT ![k] = [url |-> adding[c], status |-> "pending", retry |-> 0]]
  /\ adding' = [adding EXCEPT ![c] = None]
  /\ Goto(c, "idle")
  /\ UNCHANGED <<held, seen, faults>>

Fetchable(k) == table[k] # None /\ table[k].status = "pending" /\ table[k].retry < maxRetries

\* The transaction: a row that is pending and has attempts left.  The query takes
\* the first by added_at, a wall-clock time read before the row was inserted, so
\* that the rows of overlapping calls, or of two processes, come in any order:
\* which row is the first is left open.
FetchNext(c) ==
  /\ pc[c] = "idle" /\ held[c] = None
  /\ \E k \in Rows :
       /\ Fetchable(k)
       /\ SetStatus(k, "processing")
       /\ held' = [held EXCEPT ![c] = k]
  /\ UNCHANGED <<pc, adding, seen, faults>>

\* SELECT COUNT of the rows FetchNext would take; where there is none it returns
\* io.EOF.
IsEmpty == \A k \in Rows : ~Fetchable(k)

MarkHandled(c) ==
  /\ pc[c] = "idle" /\ held[c] # None
  /\ SetStatus(held[c], "completed")
  /\ held' = [held EXCEPT ![c] = None]
  /\ UNCHANGED <<pc, adding, seen, faults>>

\* SELECT retry_count: the request itself came without it.
ReadRetryCount(c) ==
  /\ pc[c] = "idle" /\ held[c] # None
  /\ seen' = [seen EXCEPT ![c] = table[held[c]].retry]
  /\ Goto(c, "update")
  /\ UNCHANGED <<table, adding, held, faults>>

\* A mutant of MarkHandledWithError: off by one at the last attempt.
MarkHandledWithError_OneMore(c) ==
  LET retryCount == seen[c] + 1
      newStatus == IF retryCount > maxRetries THEN "failed" ELSE "pending" IN
  /\ pc[c] = "update"
  /\ table' = [table EXCEPT ![held[c]] = [url |-> @.url, status |-> newStatus, retry |-> retryCount]]
  /\ held' = [held EXCEPT ![c] = None]
  /\ seen' = [seen EXCEPT ![c] = 0]
  /\ Goto(c, "idle")
  /\ UNCHANGED <<adding, faults>>

\* UPDATE status and retry_count, from the count that was read.
MarkHandledWithError(c) ==
  LET retryCount == seen[c] + 1
      newStatus == IF retryCount >= maxRetries THEN "failed" ELSE "pending" IN
  /\ pc[c] = "update"
  /\ table' = [table EXCEPT ![held[c]] = [url |-> @.url, status |-> newStatus, retry |-> retryCount]]
  /\ held' = [held EXCEPT ![c] = None]
  /\ seen' = [seen EXCEPT ![c] = 0]
  /\ Goto(c, "idle")
  /\ UNCHANGED <<adding, faults>>

\* A statement fails (a full disk, a database that stays locked) and the call
\* returns its error: the table is as it was.  The runner drops the error of a
\* mark, and the request with it.
StatementFails(c) ==
  /\ faults < MaxFaults
  /\ pc[c] = "insert" \/ held[c] # None
  /\ held' = IF pc[c] = "insert" THEN held ELSE [held EXCEPT ![c] = None]
  /\ adding' = [adding EXCEPT ![c] = None]
  /\ seen' = [seen EXCEPT ![c] = 0]
  /\ Goto(c, "idle")
  /\ faults' = faults + 1
  /\ UNCHANGED table

Stuck == {k \in Rows : table[k].status = "processing" /\ k \notin HeldKeys}

\* A mutant of ResetStuckRequests: it also counts an attempt.
ResetStuckRequests_Counts(S) ==
  /\ S # {}
  /\ \A k \in S : k \in Rows /\ table[k].status = "processing"
  /\ ResetLive \/ S \subseteq Stuck
  /\ table' = [k \in Keys |-> IF k \in S THEN [table[k] EXCEPT !.status = "pending", !.retry = @ + 1]
                                         ELSE table[k]]
  /\ UNCHANGED <<pc, adding, held, seen, faults>>

\* UPDATE of the rows that have been processing for longer than the timeout:
\* those no caller has, or any if the timeout is shorter than a crawl.
ResetStuckRequests(S) ==
  /\ S # {}
  /\ \A k \in S : k \in Rows /\ table[k].status = "processing"
  /\ ResetLive \/ S \subseteq Stuck
  /\ table' = [k \in Keys |-> IF k \in S THEN [table[k] EXCEPT !.status = "pending"] ELSE table[k]]
  /\ UNCHANGED <<pc, adding, held, seen, faults>>

\* The process dies, in the middle of any call, and a new one opens the file:
\* CREATE TABLE IF NOT EXISTS finds the table and leaves it.
Restart ==
  /\ faults < MaxFaults
  /\ faults' = faults + 1
  /\ pc' = [c \in Callers |-> "idle"]
  /\ adding' = [c \in Callers |-> None]
  /\ held' = [c \in Callers |-> None]
  /\ seen' = [c \in Callers |-> 0]
  /\ UNCHANGED table

\* What a caller does that has a request, or is in a call.
GoesOn(c) == AddInsert(c) \/ MarkHandled(c) \/ ReadRetryCount(c) \/ MarkHandledWithError(c)

SQLNext ==
  \/ \E c \in Callers :
       (\E u \in Urls : AddSelect(c, u)) \/ FetchNext(c) \/ GoesOn(c) \/ StatementFails(c)
  \/ \E S \in SUBSET Keys : ResetStuckRequests(S)
  \/ Restart

SQLSpec == SQLInit /\ [][SQLNext]_sqlVars

\* A call that has begun goes on to its end, and a worker that has a request marks
\* it: nothing is said of when anybody fetches, or resets.
SQLFairness == \A c \in Callers : WF_sqlVars(GoesOn(c))

SQLFairSpec == SQLSpec /\ SQLFairness
-----------------------------------------------------------------------------
\* Types; a row is at its own key; a call in progress has its argument.
SQLTypeOK ==
  /\ table \in [Keys -> Row \cup {None}]
  /\ \A k \in Rows : normalizeURL[table[k].url] = k
  /\ pc \in [Callers -> {"idle", "insert", "update"}]
  /\ adding \in [Callers -> ValidUrls \cup {None}]
  /\ held \in [Callers -> Keys \cup {None}]
  /\ seen \in [Callers -> Nat]
  /\ faults \in 0 .. MaxFaults
  /\ \A c \in Callers :
       /\ pc[c] = "insert" <=> adding[c] # None
       /\ pc[c] = "update" => held[c] # None

\* While a caller has a request its row says so, nobody else has it, and the
\* retry count the caller may have read is still the one in the row: fetch and
\* mark are safe from each other, and from every Add of the same URL.
RowsFollowHolders ==
  \A c \in Callers : held[c] # None =>
    /\ held[c] \in Rows
    /\ table[held[c]].status = "processing"
    /\ \A d \in Callers \ {c} : held[d] # held[c]
    /\ pc[c] = "update" => seen[c] = table[held[c]].retry

\* A row that is pending or processing has attempts left: IsEmpty and FetchNext,
\* which count them, overlook none.
OpenRowsHaveAttempts ==
  \A k \in Rows : table[k].status \in {"pending", "processing"} => table[k].retry < maxRetries

SQLInv == SQLTypeOK /\ RowsFollowHolders /\ OpenRowsHaveAttempts

StatusOf(k) == IF k \in Rows THEN table[k].status ELSE "unknown"

RetryOf(k) == IF k \in Rows /\ table[k].status \in {"pending", "processing"} THEN table[k].retry ELSE 0

Contract == INSTANCE QueueContract
              WITH MaxAttempts <- maxRetries,
                   Requeues <- TRUE, Forgets <- FALSE,
                   status <- [k \in Keys |-> StatusOf(k)],
                   retry <- [k \in Keys |-> RetryOf(k)],
                   unrecorded <- {}

\* The two-statement methods behave like the atomic ones of the documented
\* lifecycle, across restarts, whoever adds a URL that is being crawled.
KeepsContract == Contract!ContractSpec

\* A runner that finds IsEmpty true with no request in a worker's hands is done:
\* without a restart or a failed call every URL that was ever added is completed or
\* has used up its attempts, and none is left in a status IsEmpty does not count.
EmptyIsFinished ==
  IsEmpty /\ HeldKeys = {} /\ faults = 0 =>
    \A k \in Rows :
      table[k].status = "completed" \/ (table[k].status = "failed" /\ table[k].retry = maxRetries)

\* Conditions on a program, not on the library, which calls ResetStuckRequests
\* nowhere and whose workers leave at io.EOF.
SomeoneGoesOnFetching == WF_sqlVars(\E c \in Callers : FetchNext(c))
SomeoneGoesOnResetting == WF_sqlVars(Stuck # {} /\ ResetStuckRequests(Stuck))

\* In a program in which requests go on being fetched and stuck ones being reset,
\* after every restart and io.EOF, each URL that is added is completed or failed in
\* the end, whatever fails in between: the statuses have no trap, and no sequence
\* of resets and retries goes on for ever.
EveryRowIsSettled ==
  SomeoneGoesOnFetching /\ SomeoneGoesOnResetting =>
    \A k \in Keys : k \in Rows ~> StatusOf(k) \in {"completed", "failed"}
=============================================================================
