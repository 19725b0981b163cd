--------------------------- MODULE QueueContract ---------------------------
(***************************************************************************)
(* What a crawler queue promises for each unique key, as the README's      *)
(* "Queue Architecture" section and the Queue interface state it: a key is *)
(* added once, is handed out to one worker at a time, and ends completed,  *)
(* or failed after MaxAttempts failed attempts.  Nothing here is an        *)
(* implementation; MemoryQueue, SQLiteQueue and FileQueue are each checked *)
(* against this specification under the conditions in which they keep it.  *)
(***************************************************************************)
EXTENDS Integers

CONSTANTS Keys,         \* unique keys (normalized URLs)
          MaxAttempts,  \* attempts a key is given before it is failed
          Requeues,     \* keys whose worker is gone may be put back
          Forgets       \* so may keys be forgotten, and ends not recorded for good

VARIABLES status,     \* the status the contract gives each key
          retry,      \* failed attempts so far, 0 unless pending or processing
          unrecorded  \* ended keys whose end may yet be forgotten

contractVars == <<status, retry, unrecorded>>

Ended == {"completed", "failed"}
Statuses == {"unknown", "pending", "processing"} \cup Ended

ContractTypeOK ==
  /\ status \in [Keys -> Statuses]
  /\ retry \in [Keys -> 0 .. MaxAttempts - 1]
  /\ unrecorded \in SUBSET Keys

ContractInit ==
  /\ status \in [Keys -> {"unknown", "pending"}]
  /\ retry = [k \in Keys |-> 0]
  /\ unrecorded = {}

\* A key of any other status is left alone: that is a stuttering step.
Add(k) ==
  /\ status[k] = "unknown"
  /\ status' = [status EXCEPT ![k] = "pending"]
  /\ UNCHANGED retry

FetchNext(k) ==
  /\ status[k] = "pending"
  /\ status' = [status EXCEPT ![k] = "processing"]
  /\ UNCHANGED retry

MarkHandled(k) ==
  /\ status[k] = "processing"
  /\ status' = [status EXCEPT ![k] = "completed"]
  /\ retry' = [retry EXCEPT ![k] = 0]

Retry(k) ==
  /\ status[k] = "processing"
  /\ retry[k] + 1 < MaxAttempts
  /\ status' = [status EXCEPT ![k] = "pending"]
  /\ retry' = [retry EXCEPT ![k] = retry[k] + 1]

GiveUp(k) ==
  /\ status[k] = "processing"
  /\ retry[k] + 1 = MaxAttempts
  /\ status' = [status EXCEPT ![k] = "failed"]
  /\ retry' = [retry EXCEPT ![k] = 0]

\* The attempt of a worker that is gone does not count as a failed one.
Requeue(S) ==
  /\ Requeues
  /\ \A k \in S : status[k] = "processing"
  /\ status' = [k \in Keys |-> IF k \in S THEN "pending" ELSE status[k]]
  /\ UNCHANGED retry

\* A key that is forgotten may be added again, with all its attempts.
Forget(S) ==
  /\ Forgets
  /\ \A k \in S : status[k] = "processing" \/ k \in unrecorded
  /\ status' = [k \in Keys |-> IF k \in S THEN "unknown" ELSE status[k]]
  /\ retry' = [k \in Keys |-> IF k \in S THEN 0 ELSE retry[k]]

\* An end may fail to be recorded in the step that ends the key, and only there;
\* once it is recorded it stays so.
Recording ==
  /\ unrecorded' \subseteq Keys
  /\ \A k \in unrecorded' :
       status'[k] \in Ended /\ (k \in unrecorded \/ status[k] = "processing")
  /\ ~Forgets => unrecorded' = {}

ContractNext ==
  /\ Recording
  /\ \/ \E k \in Keys : Add(k) \/ FetchNext(k) \/ MarkHandled(k) \/ Retry(k) \/ GiveUp(k)
     \/ \E S \in SUBSET Keys : Requeue(S) \/ Forget(S)
     \/ UNCHANGED <<status, retry>>

ContractSpec == ContractInit /\ [][ContractNext]_contractVars
=============================================================================
