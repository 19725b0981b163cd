------------------------- MODULE SQLiteQueueProofs -------------------------
(* The table keeps the contract for any URLs, callers, retries and faults,  *)
(* as long as ResetStuckRequests spares the requests in use.                *)
EXTENDS SQLiteQueue, TLAPS

LEMMA MaxRetriesPositive == maxRetries \in Nat \ {0}
  BY SQLMaxRetriesAssumption DEF maxRetries

\* A row is replaced by one with the same URL.
LEMMA RowUpdate ==
  ASSUME SQLTypeOK, NEW k \in Rows, NEW r \in Row, r.url = table[k].url,
         table' = [table EXCEPT ![k] = r]
  PROVE  /\ table' \in [Keys -> Row \cup {None}]
         /\ table'[k] = r /\ \A x \in Keys \ {k} : table'[x] = table[x]
         /\ Rows' = Rows
         /\ \A x \in Rows : normalizeURL[table'[x].url] = x
<1>1. k \in Keys /\ r # None
  BY SQLNoneAssumption DEF Rows
<1>2. /\ table' \in [Keys -> Row \cup {None}]
      /\ table'[k] = r /\ \A x \in Keys \ {k} : table'[x] = table[x]
  BY <1>1 DEF SQLTypeOK
<1>3. Rows' = Rows
  BY <1>1, <1>2 DEF Rows
<1>4. \A x \in Rows : normalizeURL[table'[x].url] = x
  BY <1>1, <1>2 DEF SQLTypeOK, Rows
<1> QED
  BY <1>2, <1>3, <1>4

\* SetStatus replaces a row by one that differs in its status.
LEMMA StatusUpdate ==
  ASSUME SQLTypeOK, NEW k \in Rows, NEW s \in {"pending", "processing", "completed", "failed"},
         SetStatus(k, s)
  PROVE  \E r \in Row : /\ r = [url |-> table[k].url, status |-> s, retry |-> table[k].retry]
                        /\ table' = [table EXCEPT ![k] = r]
<1>1. table[k] \in Row
  BY DEF SQLTypeOK, Rows
<1>2. [table[k] EXCEPT !.status = s] = [url |-> table[k].url, status |-> s, retry |-> table[k].retry]
  BY <1>1 DEF Row
<1>3. [url |-> table[k].url, status |-> s, retry |-> table[k].retry] \in Row
  BY <1>1 DEF Row
<1> QED
  BY <1>2, <1>3 DEF SetStatus

\* What holds however ResetStuckRequests is used.
HoldersHaveRows == \A c \in Callers : held[c] # None => held[c] \in Rows

TableInv == SQLTypeOK /\ HoldersHaveRows /\ OpenRowsHaveAttempts

LEMMA SQLInvParts ==
  /\ SQLInv <=> TableInv /\ RowsFollowHolders
  /\ SQLInv' <=> TableInv' /\ RowsFollowHolders'
BY DEF SQLInv, TableInv, HoldersHaveRows, RowsFollowHolders

LEMMA InitSQLInv == SQLInit => SQLInv
<1> SUFFICES ASSUME SQLInit
             PROVE  SQLInv
  OBVIOUS
<1>1. Rows = {}
  BY DEF SQLInit, Rows
<1>2. SQLTypeOK
  BY <1>1, SQLBoundsAssumption DEF SQLInit, SQLTypeOK
<1> QED
  BY <1>1, <1>2 DEF SQLInit, SQLInv, RowsFollowHolders, OpenRowsHaveAttempts

\* The table stays as it is; callers move on, or lose what they held.
CallerOnly ==
  \/ \E c \in Callers : (\E u \in Urls : AddSelect(c, u)) \/ ReadRetryCount(c) \/ StatementFails(c)
  \/ Restart

LEMMA CallerOnlyInv ==
  ASSUME TableInv, CallerOnly
  PROVE  TableInv' /\ (RowsFollowHolders => RowsFollowHolders')
<1> USE DEF TableInv
<1>1. UNCHANGED table /\ Rows' = Rows
  BY DEF CallerOnly, AddSelect, ReadRetryCount, StatementFails, Restart, Rows
<1>2. OpenRowsHaveAttempts'
  BY <1>1 DEF OpenRowsHaveAttempts
<1>3. HoldersHaveRows'
  BY <1>1 DEF CallerOnly, AddSelect, ReadRetryCount, StatementFails, Restart, HoldersHaveRows,
     SQLTypeOK
<1>4. ASSUME NEW c \in Callers, NEW u \in Urls, AddSelect(c, u)
      PROVE  SQLTypeOK' /\ (RowsFollowHolders => RowsFollowHolders')
  <2>1. normalizeURL[u] \in Keys \ Rows => u \in ValidUrls /\ u # None
    BY SQLNoneAssumption DEF ValidUrls
  <2>2. SQLTypeOK'
    BY <1>1, <1>4, <2>1 DEF AddSelect, Goto, SQLTypeOK
  <2>3. RowsFollowHolders => RowsFollowHolders'
    BY <1>1, <1>4 DEF AddSelect, Goto, SQLTypeOK, RowsFollowHolders
  <2> QED
    BY <2>2, <2>3
<1>5. ASSUME NEW c \in Callers, ReadRetryCount(c)
      PROVE  SQLTypeOK' /\ (RowsFollowHolders => RowsFollowHolders')
  <2>1. table[held[c]].retry \in Nat
    BY <1>5 DEF ReadRetryCount, HoldersHaveRows, SQLTypeOK, Rows, Row
  <2>2. SQLTypeOK'
    BY <1>1, <1>5, <2>1 DEF ReadRetryCount, Goto, SQLTypeOK
  <2>3. RowsFollowHolders => RowsFollowHolders'
    BY <1>1, <1>5 DEF ReadRetryCount, Goto, SQLTypeOK, RowsFollowHolders
  <2> QED
    BY <2>2, <2>3
<1>6. ASSUME NEW c \in Callers, StatementFails(c)
      PROVE  SQLTypeOK' /\ (RowsFollowHolders => RowsFollowHolders')
  <2>1. SQLTypeOK'
    BY <1>1, <1>6, SQLBoundsAssumption DEF StatementFails, Goto, SQLTypeOK
  <2>2. RowsFollowHolders => RowsFollowHolders'
    BY <1>1, <1>6 DEF StatementFails, Goto, SQLTypeOK, RowsFollowHolders
  <2> QED
    BY <2>1, <2>2
<1>7. CASE Restart
  <2>1. SQLTypeOK'
    BY <1>1, <1>7, SQLBoundsAssumption DEF Restart, SQLTypeOK
  <2>2. RowsFollowHolders'
    BY <1>7 DEF Restart, RowsFollowHolders
  <2> QED
    BY <1>2, <1>3, <2>1, <2>2
<1> QED
  BY <1>2, <1>3, <1>4, <1>5, <1>6, <1>7 DEF CallerOnly

\* A row is inserted for a key that has none: no caller has it.
LEMMA InsertInv ==
  ASSUME TableInv, NEW c \in Callers, AddInsert(c)
  PROVE  TableInv' /\ (RowsFollowHolders => RowsFollowHolders')
<1> USE DEF TableInv
<1>1. PICK k \in Keys : k = normalizeURL[adding[c]] /\ adding[c] \in ValidUrls
  BY SQLNoneAssumption DEF AddInsert, SQLTypeOK, ValidUrls
<1>2. pc[c] = "insert" /\ pc' = [pc EXCEPT ![c] = "idle"] /\ adding' = [adding EXCEPT ![c] = None]
      /\ UNCHANGED <<held, seen, faults>>
  BY DEF AddInsert, Goto
<1>3. CASE k \in Rows
  <2>1. UNCHANGED table /\ Rows' = Rows
    BY <1>1, <1>3 DEF AddInsert, Rows
  <2>2. SQLTypeOK'
    BY <1>2, <2>1 DEF SQLTypeOK
  <2>3. HoldersHaveRows' /\ OpenRowsHaveAttempts'
    BY <1>2, <2>1 DEF HoldersHaveRows, OpenRowsHaveAttempts
  <2>4. RowsFollowHolders => RowsFollowHolders'
    BY <1>2, <2>1 DEF SQLTypeOK, RowsFollowHolders
  <2> QED
    BY <2>2, <2>3, <2>4
<1>4. CASE k \notin Rows
  <2> DEFINE r == [url |-> adding[c], status |-> "pending", retry |-> 0]
  <2>1. /\ table' = [table EXCEPT ![k] = r]
        /\ r \in Row /\ r # None
    BY <1>1, <1>4, SQLNoneAssumption DEF AddInsert, Row
  <2>2. /\ table' \in [Keys -> Row \cup {None}]
        /\ table'[k] = r /\ \A x \in Keys \ {k} : table'[x] = table[x]
        /\ Rows' = Rows \cup {k}
    BY <2>1 DEF SQLTypeOK, Rows
  <2>3. \A x \in Rows' : normalizeURL[table'[x].url] = x
    BY <1>1, <2>2 DEF SQLTypeOK, Rows
  <2>4. SQLTypeOK'
    BY <1>2, <2>2, <2>3 DEF SQLTypeOK
  <2>5. HoldersHaveRows'
    BY <1>2, <2>2 DEF HoldersHaveRows
  <2>6. RowsFollowHolders => RowsFollowHolders'
    BY <1>2, <1>4, <2>2 DEF SQLTypeOK, RowsFollowHolders
  <2>7. OpenRowsHaveAttempts'
    BY <2>2, MaxRetriesPositive DEF OpenRowsHaveAttempts, Rows
  <2> QED
    BY <2>4, <2>5, <2>6, <2>7
<1> QED
  BY <1>3, <1>4

LEMMA FetchInv ==
  ASSUME TableInv, NEW c \in Callers, FetchNext(c)
  PROVE  TableInv' /\ (RowsFollowHolders => RowsFollowHolders')
<1> USE DEF TableInv
<1>1. PICK k \in Rows :
        /\ Fetchable(k) /\ SetStatus(k, "processing")
        /\ held' = [held EXCEPT ![c] = k]
  BY DEF FetchNext
<1>2. /\ pc[c] = "idle" /\ held[c] = None /\ UNCHANGED <<pc, adding, seen, faults>>
      /\ k \in Keys
  BY DEF FetchNext, Rows
<1>3. PICK r \in Row : /\ r = [url |-> table[k].url, status |-> "processing", retry |-> table[k].retry]
                       /\ table' = [table EXCEPT ![k] = r]
  BY <1>1, StatusUpdate
<1>4. /\ table' \in [Keys -> Row \cup {None}]
      /\ table'[k] = r /\ \A x \in Keys \ {k} : table'[x] = table[x]
      /\ Rows' = Rows
      /\ \A x \in Rows : normalizeURL[table'[x].url] = x
  BY <1>3, RowUpdate
<1>5. SQLTypeOK'
  BY <1>1, <1>2, <1>4 DEF SQLTypeOK
<1>6. HoldersHaveRows'
  BY <1>1, <1>4 DEF SQLTypeOK, HoldersHaveRows
<1>7. ASSUME RowsFollowHolders
      PROVE  RowsFollowHolders'
  <2>1. \A d \in Callers : held[d] # k
    BY <1>1, <1>2, <1>7, SQLNoneAssumption DEF Fetchable, RowsFollowHolders
  <2> QED
    BY <1>1, <1>2, <1>3, <1>4, <1>7, <2>1 DEF SQLTypeOK, RowsFollowHolders, Rows
<1>8. OpenRowsHaveAttempts'
  BY <1>1, <1>3, <1>4 DEF Fetchable, OpenRowsHaveAttempts, Rows
<1> QED
  BY <1>5, <1>6, <1>7, <1>8

\* A mark gives the caller's row another status, and the caller lets go of it.
LEMMA MarkInv ==
  ASSUME TableInv, NEW c \in Callers, MarkHandled(c) \/ MarkHandledWithError(c)
  PROVE  TableInv' /\ (RowsFollowHolders => RowsFollowHolders')
<1> USE DEF TableInv
<1>1. PICK k \in Rows : k = held[c] /\ k \in Keys /\ table[k] \in Row
  BY DEF MarkHandled, MarkHandledWithError, SQLTypeOK, HoldersHaveRows, Rows
<1>2. \E r \in Row : /\ r.url = table[k].url /\ table' = [table EXCEPT ![k] = r]
                     /\ r.status \in {"pending", "processing"} => r.retry < maxRetries
  <2>1. CASE MarkHandled(c)
    <3>1. PICK r \in Row : /\ r = [url |-> table[k].url, status |-> "completed", retry |-> table[k].retry]
                           /\ table' = [table EXCEPT ![k] = r]
      BY <1>1, <2>1, StatusUpdate DEF MarkHandled
    <3> QED
      BY <3>1
  <2>2. CASE MarkHandledWithError(c)
    <3>1. PICK n \in Nat : n = seen[c] + 1
      BY DEF SQLTypeOK
    <3>2. PICK s \in {"failed", "pending"} : s = IF n >= maxRetries THEN "failed" ELSE "pending"
      OBVIOUS
    <3> DEFINE r == [url |-> table[k].url, status |-> s, retry |-> n]
    <3>3. r \in Row
      BY <1>1 DEF Row
    <3>4. table' = [table EXCEPT ![k] = r]
      BY <1>1, <2>2, <3>1, <3>2 DEF MarkHandledWithError, SQLTypeOK
    <3>5. s \in {"pending", "processing"} => n < maxRetries
      BY <3>2, MaxRetriesPositive
    <3> QED
      BY <3>3, <3>4, <3>5
  <2> QED
    BY <2>1, <2>2
<1>3. PICK r \in Row : /\ r.url = table[k].url /\ table' = [table EXCEPT ![k] = r]
                       /\ r.status \in {"pending", "processing"} => r.retry < maxRetries
  BY <1>2
<1>4. /\ table' \in [Keys -> Row \cup {None}]
      /\ table'[k] = r /\ \A x \in Keys \ {k} : table'[x] = table[x]
      /\ Rows' = Rows
      /\ \A x \in Rows : normalizeURL[table'[x].url] = x
  BY <1>3, RowUpdate
<1>5. /\ held' = [held EXCEPT ![c] = None] /\ UNCHANGED <<adding, faults>>
      /\ pc' = [pc EXCEPT ![c] = "idle"] /\ seen' \in [Callers -> Nat]
      /\ \A d \in Callers \ {c} : seen'[d] = seen[d]
      /\ pc[c] # "insert"
  <2>1. CASE MarkHandled(c)
    <3>1. pc' = [pc EXCEPT ![c] = "idle"]
      BY <2>1 DEF MarkHandled, SQLTypeOK
    <3> QED
      BY <2>1, <3>1 DEF MarkHandled, SQLTypeOK
  <2>2. CASE MarkHandledWithError(c)
    BY <2>2 DEF MarkHandledWithError, Goto, SQLTypeOK
  <2> QED
    BY <2>1, <2>2
<1>6. SQLTypeOK'
  BY <1>4, <1>5 DEF SQLTypeOK
<1>7. RowsFollowHolders => RowsFollowHolders'
  BY <1>1, <1>4, <1>5 DEF SQLTypeOK, RowsFollowHolders
<1>8. OpenRowsHaveAttempts'
  BY <1>3, <1>4 DEF OpenRowsHaveAttempts, Rows
<1>9. HoldersHaveRows'
  BY <1>4, <1>5 DEF SQLTypeOK, HoldersHaveRows
<1> QED
  BY <1>6, <1>7, <1>8, <1>9

LEMMA ResetInv ==
  ASSUME TableInv, NEW S \in SUBSET Keys, ResetStuckRequests(S)
  PROVE  TableInv' /\ (RowsFollowHolders /\ ~ResetLive => RowsFollowHolders')
<1> USE DEF TableInv
<1>1. /\ S \subseteq Rows
      /\ ~ResetLive => \A c \in Callers : held[c] \notin S
      /\ UNCHANGED <<pc, adding, held, seen, faults>>
      /\ table' = [k \in Keys |-> IF k \in S THEN [table[k] EXCEPT !.status = "pending"] ELSE table[k]]
      /\ \A k \in S : table[k].status = "processing"
  BY SQLNoneAssumption DEF ResetStuckRequests, Stuck, HeldKeys
<1>2. ASSUME NEW k \in S
      PROVE  /\ table'[k] \in Row /\ table'[k].url = table[k].url
             /\ table'[k].retry = table[k].retry
  <2>1. table[k] \in Row /\ k \in Keys
    BY <1>1 DEF SQLTypeOK, Rows
  <2> QED
    BY <1>1, <2>1 DEF Row
<1>3. \A k \in Keys \ S : table'[k] = table[k]
  BY <1>1
<1>4. table' \in [Keys -> Row \cup {None}] /\ Rows' = Rows
  <2>1. \A k \in Keys : table'[k] \in Row \cup {None}
    BY <1>2, <1>3 DEF SQLTypeOK
  <2>2. table' \in [Keys -> Row \cup {None}]
    BY <1>1, <2>1
  <2>3. \A k \in S : table'[k] # None
    BY <1>2, SQLNoneAssumption
  <2> QED
    BY <1>1, <1>3, <2>2, <2>3 DEF Rows
<1>5. \A x \in Rows : normalizeURL[table'[x].url] = x
  BY <1>2, <1>3 DEF SQLTypeOK, Rows
<1>6. SQLTypeOK'
  BY <1>1, <1>4, <1>5 DEF SQLTypeOK
<1>7. RowsFollowHolders /\ ~ResetLive => RowsFollowHolders'
  BY <1>1, <1>3, <1>4 DEF SQLTypeOK, RowsFollowHolders
<1>8. OpenRowsHaveAttempts'
  BY <1>1, <1>2, <1>3, <1>4 DEF OpenRowsHaveAttempts, Rows
<1>9. HoldersHaveRows'
  BY <1>1, <1>4 DEF HoldersHaveRows
<1> QED
  BY <1>6, <1>7, <1>8, <1>9

LEMMA NextTableInv ==
  ASSUME TableInv, [SQLNext]_sqlVars
  PROVE  TableInv' /\ (RowsFollowHolders /\ ~ResetLive => RowsFollowHolders')
<1>1. CASE UNCHANGED sqlVars
  <2>1. Rows' = Rows
    BY <1>1 DEF sqlVars, Rows
  <2> QED
    BY <1>1, <2>1 DEF sqlVars, TableInv, SQLTypeOK, HoldersHaveRows, RowsFollowHolders,
                      OpenRowsHaveAttempts
<1>2. ASSUME NEW c \in Callers, NEW u \in Urls, AddSelect(c, u)
      PROVE  CallerOnly
  BY <1>2 DEF CallerOnly
<1>3. ASSUME NEW c \in Callers, GoesOn(c)
      PROVE  CallerOnly \/ AddInsert(c) \/ MarkHandled(c) \/ MarkHandledWithError(c)
  BY <1>3 DEF GoesOn, CallerOnly
<1> QED
  BY <1>1, <1>2, <1>3, CallerOnlyInv, InsertInv, FetchInv, MarkInv, ResetInv
     DEF SQLNext, CallerOnly

LEMMA NextSQLInv ==
  ASSUME ~ResetLive, SQLInv, [SQLNext]_sqlVars
  PROVE  SQLInv'
BY NextTableInv, SQLInvParts

\* What IsEmpty and FetchNext count overlooks no row that is open, and a caller's
\* request has its row, whatever ResetStuckRequests is called with.
THEOREM OpenRowsCount == SQLSpec => [](SQLTypeOK /\ OpenRowsHaveAttempts)
<1>1. SQLInit => TableInv
  BY InitSQLInv, SQLInvParts
<1>2. TableInv /\ [SQLNext]_sqlVars => TableInv'
  BY NextTableInv
<1>3. TableInv => SQLTypeOK /\ OpenRowsHaveAttempts
  BY DEF TableInv
<1> QED
  BY <1>1, <1>2, <1>3, PTL DEF SQLSpec

\* A row that is written stays a row, of the same URL.
SameUrl(k) == k \in Rows' /\ table'[k].url = table[k].url

LEMMA WrittenRow ==
  ASSUME SQLTypeOK, NEW k \in Rows, NEW r \in Row, r.url = table[k].url,
         table' = [table EXCEPT ![k] = r]
  PROVE  \A x \in Rows : SameUrl(x)
BY RowUpdate DEF SameUrl, SQLTypeOK, Rows

LEMMA StepKeepsRows ==
  ASSUME TableInv, [SQLNext]_sqlVars
  PROVE  \A k \in Rows : SameUrl(k)
<1> USE DEF TableInv
<1>1. CASE UNCHANGED table
  BY <1>1 DEF SameUrl, Rows
<1>2. ASSUME NEW c \in Callers, AddInsert(c)
      PROVE  \A k \in Rows : SameUrl(k)
  BY <1>1, <1>2 DEF AddInsert, SameUrl, SQLTypeOK, Rows
<1>3. ASSUME NEW k \in Rows, NEW s \in {"processing", "completed"}, SetStatus(k, s)
      PROVE  \A x \in Rows : SameUrl(x)
  BY <1>3, StatusUpdate, WrittenRow
<1>4. ASSUME NEW c \in Callers, MarkHandledWithError(c)
      PROVE  \A x \in Rows : SameUrl(x)
  <2>1. PICK k \in Rows : k = held[c] /\ k \in Keys /\ table[k] \in Row
    BY <1>4 DEF MarkHandledWithError, SQLTypeOK, HoldersHaveRows, Rows
  <2>2. PICK n \in Nat : n = seen[c] + 1
    BY DEF SQLTypeOK
  <2>3. PICK s \in {"failed", "pending"} : s = IF n >= maxRetries THEN "failed" ELSE "pending"
    OBVIOUS
  <2>4. [url |-> table[k].url, status |-> s, retry |-> n] \in Row
    BY <2>1 DEF Row
  <2>5. table' = [table EXCEPT ![k] = [url |-> table[k].url, status |-> s, retry |-> n]]
    BY <1>4, <2>1, <2>2, <2>3 DEF MarkHandledWithError, SQLTypeOK
  <2> QED
    BY <2>4, <2>5, WrittenRow
<1>5. ASSUME NEW S \in SUBSET Keys, ResetStuckRequests(S)
      PROVE  \A x \in Rows : SameUrl(x)
  <2>1. table' = [k \in Keys |-> IF k \in S THEN [table[k] EXCEPT !.status = "pending"] ELSE table[k]]
    BY <1>5 DEF ResetStuckRequests
  <2>2. ASSUME NEW x \in Rows
        PROVE  table'[x] \in Row /\ table'[x].url = table[x].url /\ x \in Keys
    BY <2>1 DEF SQLTypeOK, Rows, Row
  <2> QED
    BY <2>2, SQLNoneAssumption DEF SameUrl, Rows
<1>6. ASSUME NEW c \in Callers, FetchNext(c) \/ MarkHandled(c)
      PROVE  \E k \in Rows, s \in {"processing", "completed"} : SetStatus(k, s)
  BY <1>6 DEF FetchNext, MarkHandled, HoldersHaveRows
<1>7. ASSUME NEW c \in Callers, NEW u \in Urls, AddSelect(c, u)
      PROVE  UNCHANGED table
  BY <1>7 DEF AddSelect
<1>8. ASSUME NEW c \in Callers, ReadRetryCount(c) \/ StatementFails(c)
      PROVE  UNCHANGED table
  BY <1>8 DEF ReadRetryCount, StatementFails
<1> QED
  BY <1>1, <1>2, <1>3, <1>4, <1>5, <1>6, <1>7, <1>8 DEF SQLNext, GoesOn, Restart, sqlVars

\* The table forgets no URL it has accepted, and gives no key another URL: not in
\* a crash in the middle of a call, nor in a reset that hits a request in use.
THEOREM KeepsEveryRow == SQLSpec => [][\A k \in Rows : SameUrl(k)]_sqlVars
<1>1. SQLInit => TableInv
  BY InitSQLInv, SQLInvParts
<1>2. TableInv /\ [SQLNext]_sqlVars => TableInv'
  BY NextTableInv
<1>3. TableInv /\ [SQLNext]_sqlVars => [\A k \in Rows : SameUrl(k)]_sqlVars
  BY StepKeepsRows
<1> QED
  BY <1>1, <1>2, <1>3, PTL DEF SQLSpec

\* The inductive invariant, if ResetStuckRequests spares the requests in use.
THEOREM SQLInvariance ==
  ASSUME ~ResetLive
  PROVE  SQLSpec => []SQLInv
<1>1. SQLInit => SQLInv
  BY InitSQLInv
<1>2. SQLInv /\ [SQLNext]_sqlVars => SQLInv'
  BY NextSQLInv
<1> QED
  BY <1>1, <1>2, PTL DEF SQLSpec

\* One holder per row, and no lost retry: the two-statement methods are safe.
THEOREM HoldersOwnRows ==
  ASSUME ~ResetLive
  PROVE  SQLSpec => []RowsFollowHolders
<1>1. SQLInv => RowsFollowHolders
  BY DEF SQLInv
<1> QED
  BY <1>1, SQLInvariance, PTL

\* Until something fails a row that is being processed has a caller; and a row is
\* given up with its last attempt.
RowsAreWatched ==
  \A k \in Rows :
    /\ table[k].status = "processing" /\ faults = 0 => \E c \in Callers : held[c] = k
    /\ table[k].status = "failed" => table[k].retry = maxRetries

\* A step that changes one row at most, and the request of one caller.
LEMMA WatchedStep ==
  ASSUME SQLTypeOK, RowsAreWatched, NEW c \in Callers, NEW k \in Keys,
         faults' = faults,
         \A x \in Keys \ {k} : table'[x] = table[x],
         \A d \in Callers \ {c} : held'[d] = held[d],
         held[c] \in {None, k},
         k \in Rows' => \/ table'[k].status = "processing" /\ held'[c] = k
                        \/ table'[k].status \in {"pending", "completed"}
                        \/ table'[k].status = "failed" /\ table'[k].retry = maxRetries
  PROVE  RowsAreWatched'
<1> SUFFICES ASSUME NEW x \in Rows'
             PROVE  /\ table'[x].status = "processing" /\ faults' = 0 => \E d \in Callers : held'[d] = x
                    /\ table'[x].status = "failed" => table'[x].retry = maxRetries
  BY DEF RowsAreWatched
<1>1. x \in Keys
  BY DEF Rows
<1>2. CASE x = k
  BY <1>2
<1>3. CASE x # k
  <2>1. x \in Rows /\ table'[x] = table[x]
    BY <1>1, <1>3 DEF Rows
  <2>2. \A d \in Callers : held[d] = x => held'[d] = x
    BY <1>1, <1>3, SQLNoneAssumption
  <2> QED
    BY <2>1, <2>2 DEF RowsAreWatched
<1> QED
  BY <1>2, <1>3

LEMMA NextWatched ==
  ASSUME ~ResetLive, SQLInv, RowsAreWatched, [SQLNext]_sqlVars
  PROVE  RowsAreWatched'
<1> USE DEF SQLInv
<1>1. ASSUME table' = table, faults' = faults => held' = held,
             faults' = faults \/ faults' = faults + 1
      PROVE  RowsAreWatched'
  <2>1. faults \in Nat
    BY SQLBoundsAssumption DEF SQLTypeOK
  <2> QED
    BY <1>1, <2>1 DEF RowsAreWatched, Rows
<1>2. ASSUME NEW c \in Callers, (\E u \in Urls : AddSelect(c, u)) \/ ReadRetryCount(c)
      PROVE  RowsAreWatched'
  BY <1>1, <1>2 DEF AddSelect, ReadRetryCount
<1>3. ASSUME (\E c \in Callers : StatementFails(c)) \/ Restart
      PROVE  RowsAreWatched'
  <2>1. faults' = faults + 1 /\ faults \in Nat /\ table' = table
    BY <1>3, SQLBoundsAssumption DEF StatementFails, Restart, SQLTypeOK
  <2> QED
    BY <1>1, <2>1
<1>4. ASSUME NEW c \in Callers, AddInsert(c)
      PROVE  RowsAreWatched'
  <2>1. PICK k \in Keys : k = normalizeURL[adding[c]]
    BY <1>4, SQLNoneAssumption DEF AddInsert, SQLTypeOK, ValidUrls
  <2>2. UNCHANGED <<held, faults>>
    BY <1>4 DEF AddInsert
  <2>3. CASE k \in Rows
    BY <1>1, <1>4, <2>1, <2>2, <2>3 DEF AddInsert
  <2>4. CASE k \notin Rows
    <3>1. /\ table'[k].status = "pending"
          /\ \A x \in Keys \ {k} : table'[x] = table[x]
      BY <1>4, <2>1, <2>4 DEF AddInsert, SQLTypeOK
    <3> QED
      BY <2>2, <2>4, <3>1 DEF RowsAreWatched, Rows
  <2> QED
    BY <2>3, <2>4
<1>5. ASSUME NEW c \in Callers, FetchNext(c)
      PROVE  RowsAreWatched'
  <2>1. PICK k \in Rows : SetStatus(k, "processing") /\ held' = [held EXCEPT ![c] = k]
    BY <1>5 DEF FetchNext
  <2>2. held[c] = None /\ faults' = faults /\ k \in Keys
    BY <1>5 DEF FetchNext, Rows
  <2>3. PICK r \in Row : r.status = "processing" /\ r.url = table[k].url
                         /\ table' = [table EXCEPT ![k] = r]
    BY <2>1, StatusUpdate
  <2>4. table'[k] = r /\ \A x \in Keys \ {k} : table'[x] = table[x]
    BY <2>3, RowUpdate
  <2>5. held'[c] = k /\ \A d \in Callers \ {c} : held'[d] = held[d]
    BY <2>1 DEF SQLTypeOK
  <2> QED
    BY <2>2, <2>3, <2>4, <2>5, WatchedStep
<1>6. ASSUME NEW c \in Callers, MarkHandled(c)
      PROVE  RowsAreWatched'
  <2>1. PICK k \in Rows : k = held[c] /\ k \in Keys
    BY <1>6 DEF MarkHandled, RowsFollowHolders, Rows
  <2>2. SetStatus(k, "completed") /\ held' = [held EXCEPT ![c] = None] /\ faults' = faults
    BY <1>6, <2>1 DEF MarkHandled
  <2>3. PICK r \in Row : r.status = "completed" /\ r.url = table[k].url
                         /\ table' = [table EXCEPT ![k] = r]
    BY <2>2, StatusUpdate
  <2>4. table'[k] = r /\ \A x \in Keys \ {k} : table'[x] = table[x]
    BY <2>3, RowUpdate
  <2>5. \A d \in Callers \ {c} : held'[d] = held[d]
    BY <2>2 DEF SQLTypeOK
  <2> QED
    BY <2>1, <2>2, <2>3, <2>4, <2>5, WatchedStep
<1>7. ASSUME NEW c \in Callers, MarkHandledWithError(c)
      PROVE  RowsAreWatched'
  <2>1. PICK k \in Rows : k = held[c] /\ k \in Keys /\ table[k] \in Row
    BY <1>7 DEF MarkHandledWithError, SQLTypeOK, RowsFollowHolders, Rows
  <2>2. PICK n \in Nat : n = seen[c] + 1 /\ n <= maxRetries
    <3>1. seen[c] = table[k].retry /\ table[k].status = "processing"
      BY <1>7, <2>1, SQLNoneAssumption DEF MarkHandledWithError, RowsFollowHolders
    <3>2. seen[c] < maxRetries /\ seen[c] \in Nat
      BY <2>1, <3>1 DEF OpenRowsHaveAttempts, Row
    <3> QED
      BY <3>2, MaxRetriesPositive
  <2>3. PICK s \in {"failed", "pending"} : s = IF n >= maxRetries THEN "failed" ELSE "pending"
    OBVIOUS
  <2>4. s = "failed" => n = maxRetries
    BY <2>2, <2>3, MaxRetriesPositive
  <2>5. /\ table' = [table EXCEPT ![k] = [url |-> table[k].url, status |-> s, retry |-> n]]
        /\ held' = [held EXCEPT ![c] = None] /\ faults' = faults
    BY <1>7, <2>1, <2>2, <2>3 DEF MarkHandledWithError, SQLTypeOK
  <2>6. /\ table'[k].status = s /\ table'[k].retry = n
        /\ \A x \in Keys \ {k} : table'[x] = table[x]
        /\ \A d \in Callers \ {c} : held'[d] = held[d]
    BY <2>1, <2>5 DEF SQLTypeOK
  <2> QED
    BY <2>1, <2>3, <2>4, <2>5, <2>6, WatchedStep
<1>8. ASSUME NEW S \in SUBSET Keys, ResetStuckRequests(S)
      PROVE  RowsAreWatched'
  <2>1. /\ UNCHANGED <<held, faults>>
        /\ table' = [k \in Keys |-> IF k \in S THEN [table[k] EXCEPT !.status = "pending"] ELSE table[k]]
        /\ S \subseteq Rows
    BY <1>8 DEF ResetStuckRequests
  <2>2. \A x \in S : table'[x].status = "pending"
    BY <2>1 DEF SQLTypeOK, Rows, Row
  <2>3. \A x \in Keys \ S : table'[x] = table[x]
    BY <2>1
  <2> QED
    BY <2>1, <2>2, <2>3 DEF RowsAreWatched, Rows
<1>9. CASE UNCHANGED sqlVars
  BY <1>1, <1>9 DEF sqlVars
<1> HIDE DEF SQLInv
<1>10. ASSUME NEW c \in Callers, GoesOn(c)
       PROVE  RowsAreWatched'
  BY <1>2, <1>4, <1>6, <1>7, <1>10 DEF GoesOn
<1> QED
  BY <1>2, <1>3, <1>5, <1>8, <1>9, <1>10 DEF SQLNext

\* IsEmpty and io.EOF: where nothing has failed, an empty queue with no request in
\* a worker's hands is one in which every URL is completed or given up.
THEOREM EmptyMeansFinished ==
  ASSUME ~ResetLive
  PROVE  SQLSpec => []EmptyIsFinished
<1>1. SQLInit => RowsAreWatched
  BY DEF SQLInit, RowsAreWatched, Rows
<1>2. SQLInv /\ RowsAreWatched /\ [SQLNext]_sqlVars => RowsAreWatched'
  BY NextWatched
<1>3. SQLInv /\ RowsAreWatched => EmptyIsFinished
  <2> SUFFICES ASSUME SQLInv, RowsAreWatched, IsEmpty, HeldKeys = {}, faults = 0, NEW k \in Rows
               PROVE  \/ table[k].status = "completed"
                      \/ table[k].status = "failed" /\ table[k].retry = maxRetries
    BY DEF EmptyIsFinished
  <2>1. table[k].status # "pending"
    BY DEF IsEmpty, Fetchable, SQLInv, OpenRowsHaveAttempts, Rows
  <2>2. table[k].status # "processing"
    BY SQLNoneAssumption DEF RowsAreWatched, HeldKeys, Rows
  <2>3. table[k].status \in {"pending", "processing", "completed", "failed"}
    BY DEF SQLInv, SQLTypeOK, Rows, Row
  <2> QED
    BY <2>1, <2>2, <2>3 DEF RowsAreWatched
<1> QED
  BY <1>1, <1>2, <1>3, SQLInvariance, PTL DEF SQLSpec

-----------------------------------------------------------------------------
\* The contract sees a key through its row alone.
LEMMA SameRow ==
  ASSUME NEW k \in Keys, table'[k] = table[k]
  PROVE  StatusOf(k)' = StatusOf(k) /\ RetryOf(k)' = RetryOf(k)
BY DEF StatusOf, RetryOf, Rows

LEMMA RowView ==
  ASSUME NEW k \in Keys, table[k] # None
  PROVE  /\ StatusOf(k) = table[k].status
         /\ RetryOf(k) = IF table[k].status \in {"pending", "processing"} THEN table[k].retry ELSE 0
BY DEF StatusOf, RetryOf, Rows

LEMMA RowViewNext ==
  ASSUME NEW k \in Keys, table'[k] # None
  PROVE  /\ StatusOf(k)' = table'[k].status
         /\ RetryOf(k)' = IF table'[k].status \in {"pending", "processing"} THEN table'[k].retry ELSE 0
BY DEF StatusOf, RetryOf, Rows

LEMMA OneRowView ==
  ASSUME NEW k \in Keys, \A j \in Keys \ {k} : table'[j] = table[j]
  PROVE  /\ [j \in Keys |-> StatusOf(j)]' = [[j \in Keys |-> StatusOf(j)] EXCEPT ![k] = StatusOf(k)']
         /\ [j \in Keys |-> RetryOf(j)]' = [[j \in Keys |-> RetryOf(j)] EXCEPT ![k] = RetryOf(k)']
<1>1. \A j \in Keys \ {k} : StatusOf(j)' = StatusOf(j) /\ RetryOf(j)' = RetryOf(j)
  BY SameRow
<1> QED
  BY <1>1

LEMMA SameTable ==
  ASSUME table' = table
  PROVE  UNCHANGED Contract!contractVars
<1>1. \A j \in Keys : StatusOf(j)' = StatusOf(j) /\ RetryOf(j)' = RetryOf(j)
  BY SameRow
<1> QED
  BY <1>1 DEF Contract!contractVars

LEMMA AddInsertKeepsContract ==
  ASSUME SQLInv, NEW c \in Callers, AddInsert(c)
  PROVE  [Contract!ContractNext]_(Contract!contractVars)
<1>1. PICK k \in Keys : k = normalizeURL[adding[c]] /\ adding[c] \in ValidUrls
  BY SQLNoneAssumption DEF AddInsert, SQLInv, SQLTypeOK, ValidUrls
<1>2. CASE k \in Rows
  <2>1. table' = table
    BY <1>1, <1>2 DEF AddInsert
  <2> QED
    BY <2>1, SameTable
<1>3. CASE k \notin Rows
  <2> DEFINE r == [url |-> adding[c], status |-> "pending", retry |-> 0]
  <2>1. table' = [table EXCEPT ![k] = r] /\ r # None
    BY <1>1, <1>3, SQLNoneAssumption DEF AddInsert, Row
  <2>2. table'[k] = r /\ \A j \in Keys \ {k} : table'[j] = table[j]
    BY <2>1 DEF SQLInv, SQLTypeOK
  <2>3. StatusOf(k) = "unknown" /\ RetryOf(k) = 0
    BY <1>3 DEF StatusOf, RetryOf
  <2>4. StatusOf(k)' = "pending" /\ RetryOf(k)' = 0
    BY <2>1, <2>2, RowViewNext
  <2>5. Contract!Add(k)
    BY <2>2, <2>3, <2>4, OneRowView DEF Contract!Add
  <2> QED
    BY <2>5 DEF Contract!ContractNext, Contract!Recording
<1> QED
  BY <1>2, <1>3

LEMMA FetchKeepsContract ==
  ASSUME SQLInv, NEW c \in Callers, FetchNext(c)
  PROVE  Contract!ContractNext
<1> USE DEF SQLInv
<1>1. PICK k \in Rows : Fetchable(k) /\ SetStatus(k, "processing")
  BY DEF FetchNext
<1>2. PICK r \in Row : /\ r = [url |-> table[k].url, status |-> "processing", retry |-> table[k].retry]
                       /\ table' = [table EXCEPT ![k] = r]
  BY <1>1, StatusUpdate
<1>3. table'[k] = r /\ r # None /\ k \in Keys /\ \A j \in Keys \ {k} : table'[j] = table[j]
  BY <1>2, RowUpdate, SQLNoneAssumption DEF Rows
<1>4. StatusOf(k) = "pending" /\ RetryOf(k) = table[k].retry
  BY <1>1, <1>3, RowView DEF Fetchable
<1>5. StatusOf(k)' = "processing" /\ RetryOf(k)' = table[k].retry
  BY <1>2, <1>3, RowViewNext
<1>6. Contract!FetchNext(k)
  BY <1>3, <1>4, <1>5, OneRowView DEF Contract!FetchNext
<1> QED
  BY <1>3, <1>6 DEF Contract!ContractNext, Contract!Recording

LEMMA MarkHandledKeepsContract ==
  ASSUME SQLInv, NEW c \in Callers, MarkHandled(c)
  PROVE  Contract!ContractNext
<1> USE DEF SQLInv
<1>1. PICK k \in Rows : k = held[c] /\ k \in Keys /\ table[k].status = "processing" /\ table[k] # None
  BY DEF MarkHandled, RowsFollowHolders, Rows
<1>2. PICK r \in Row : /\ r = [url |-> table[k].url, status |-> "completed", retry |-> table[k].retry]
                       /\ table' = [table EXCEPT ![k] = r]
  BY <1>1, StatusUpdate DEF MarkHandled
<1>3. table'[k] = r /\ r # None /\ \A j \in Keys \ {k} : table'[j] = table[j]
  BY <1>2, RowUpdate, SQLNoneAssumption
<1>4. StatusOf(k) = "processing"
  BY <1>1, RowView
<1>5. StatusOf(k)' = "completed" /\ RetryOf(k)' = 0
  BY <1>1, <1>2, <1>3, RowViewNext
<1>6. Contract!MarkHandled(k)
  BY <1>1, <1>3, <1>4, <1>5, OneRowView DEF Contract!MarkHandled
<1> QED
  BY <1>1, <1>6 DEF Contract!ContractNext, Contract!Recording

LEMMA MarkWithErrorKeepsContract ==
  ASSUME SQLInv, NEW c \in Callers, MarkHandledWithError(c)
  PROVE  Contract!ContractNext
<1> USE DEF SQLInv
<1>1. PICK k \in Keys : /\ k = held[c] /\ k \in Rows /\ table[k] # None /\ table[k] \in Row
                        /\ table[k].status = "processing" /\ seen[c] = table[k].retry
  BY DEF MarkHandledWithError, RowsFollowHolders, SQLTypeOK, Rows
<1>2. PICK n \in Nat : n = table[k].retry /\ n < maxRetries
  BY <1>1 DEF OpenRowsHaveAttempts, Row
<1>3. StatusOf(k) = "processing" /\ RetryOf(k) = n
  BY <1>1, <1>2, RowView
<1>4. CASE n + 1 >= maxRetries
  <2> DEFINE r == [url |-> table[k].url, status |-> "failed", retry |-> n + 1]
  <2>1. table' = [table EXCEPT ![k] = r]
    BY <1>1, <1>2, <1>4 DEF MarkHandledWithError
  <2>2. r \in Row /\ r # None
    BY <1>1, <1>2, SQLNoneAssumption DEF Row
  <2>3. table'[k] = r /\ \A j \in Keys \ {k} : table'[j] = table[j]
    BY <2>1 DEF SQLTypeOK
  <2>4. StatusOf(k)' = "failed" /\ RetryOf(k)' = 0
    BY <2>2, <2>3, RowViewNext
  <2>5. n + 1 = maxRetries
    BY <1>2, <1>4, MaxRetriesPositive
  <2>6. Contract!GiveUp(k)
    BY <1>3, <2>3, <2>4, <2>5, OneRowView DEF Contract!GiveUp
  <2> QED
    BY <2>6 DEF Contract!ContractNext, Contract!Recording
<1>5. CASE ~(n + 1 >= maxRetries)
  <2> DEFINE r == [url |-> table[k].url, status |-> "pending", retry |-> n + 1]
  <2>1. table' = [table EXCEPT ![k] = r]
    BY <1>1, <1>2, <1>5 DEF MarkHandledWithError
  <2>2. r \in Row /\ r # None
    BY <1>1, <1>2, SQLNoneAssumption DEF Row
  <2>3. table'[k] = r /\ \A j \in Keys \ {k} : table'[j] = table[j]
    BY <2>1 DEF SQLTypeOK
  <2>4. StatusOf(k)' = "pending" /\ RetryOf(k)' = n + 1
    BY <2>2, <2>3, RowViewNext
  <2>5. n + 1 < maxRetries
    BY <1>2, <1>5, MaxRetriesPositive
  <2>6. Contract!Retry(k)
    BY <1>3, <2>3, <2>4, <2>5, OneRowView DEF Contract!Retry
  <2> QED
    BY <2>6 DEF Contract!ContractNext, Contract!Recording
<1> QED
  BY <1>4, <1>5

LEMMA ResetKeepsContract ==
  ASSUME SQLInv, ~ResetLive, NEW S \in SUBSET Keys, ResetStuckRequests(S)
  PROVE  Contract!ContractNext
<1> USE DEF SQLInv
<1>1. /\ \A k \in S : k \in Rows /\ table[k].status = "processing" /\ table[k] # None
      /\ table' = [k \in Keys |-> IF k \in S THEN [table[k] EXCEPT !.status = "pending"] ELSE table[k]]
  BY DEF ResetStuckRequests, Rows
<1>2. ASSUME NEW k \in S
      PROVE  /\ StatusOf(k) = "processing" /\ StatusOf(k)' = "pending"
             /\ RetryOf(k)' = RetryOf(k)
  <2>1. table[k] \in Row /\ k \in Keys /\ table[k] # None
    BY <1>1 DEF SQLTypeOK
  <2>2. PICK r \in Row : r = table'[k] /\ r.status = "pending" /\ r.retry = table[k].retry
    <3>1. table'[k] = [table[k] EXCEPT !.status = "pending"]
      BY <1>1
    <3>2. [table[k] EXCEPT !.status = "pending"] \in Row
      BY <2>1 DEF Row
    <3> QED
      BY <2>1, <3>1, <3>2 DEF Row
  <2>3. table'[k] # None
    BY <2>2, SQLNoneAssumption
  <2> QED
    BY <1>1, <2>1, <2>2, <2>3, RowView, RowViewNext
<1>3. \A k \in Keys \ S : StatusOf(k)' = StatusOf(k) /\ RetryOf(k)' = RetryOf(k)
  BY <1>1, SameRow
<1>4. Contract!Requeue(S)
  BY <1>2, <1>3 DEF Contract!Requeue
<1> QED
  BY <1>4 DEF Contract!ContractNext, Contract!Recording

\* Every step of the table is one step of the contract, or none.
LEMMA StepKeepsContract ==
  ASSUME ~ResetLive, SQLInv, [SQLNext]_sqlVars
  PROVE  [Contract!ContractNext]_(Contract!contractVars)
<1>1. CASE \/ \E c \in Callers : (\E u \in Urls : AddSelect(c, u)) \/ ReadRetryCount(c) \/ StatementFails(c)
           \/ Restart \/ UNCHANGED sqlVars
  <2>1. table' = table
    BY <1>1 DEF AddSelect, ReadRetryCount, StatementFails, Restart, sqlVars
  <2> QED
    BY <2>1, SameTable
<1>2. ASSUME NEW c \in Callers,
             AddInsert(c) \/ FetchNext(c) \/ MarkHandled(c) \/ MarkHandledWithError(c)
      PROVE  [Contract!ContractNext]_(Contract!contractVars)
  BY <1>2, AddInsertKeepsContract, FetchKeepsContract, MarkHandledKeepsContract,
     MarkWithErrorKeepsContract
<1>3. ASSUME NEW S \in SUBSET Keys, ResetStuckRequests(S)
      PROVE  [Contract!ContractNext]_(Contract!contractVars)
  BY <1>3, ResetKeepsContract
<1> QED
  BY <1>1, <1>2, <1>3 DEF SQLNext, GoesOn

\* The table implements the request lifecycle of the README, with requests put
\* back when their worker is gone.
THEOREM SQLImplementsContract ==
  ASSUME ~ResetLive
  PROVE  SQLSpec => KeepsContract
<1>1. SQLInit => Contract!ContractInit
  <2> SUFFICES ASSUME SQLInit
               PROVE  Contract!ContractInit
    OBVIOUS
  <2>1. \A k \in Keys : StatusOf(k) = "unknown" /\ RetryOf(k) = 0
    BY DEF SQLInit, StatusOf, RetryOf, Rows
  <2> QED
    BY <2>1 DEF Contract!ContractInit
<1>2. SQLInv /\ [SQLNext]_sqlVars => [Contract!ContractNext]_(Contract!contractVars)
  BY StepKeepsContract
<1> QED
  BY <1>1, <1>2, SQLInvariance, PTL DEF SQLSpec, KeepsContract, Contract!ContractSpec
=============================================================================
