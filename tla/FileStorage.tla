---------------------------- MODULE FileStorage ----------------------------
(***************************************************************************)
(* storage.FileStorage: one file per key, named by sanitize(key), behind   *)
(* an RWMutex.  Two keys may have one name, and a name may be too long for *)
(* the file system once ".json" is appended.  A Delete whose os.Remove     *)
(* fails leaves everything as it was: a stuttering step.                   *)
(***************************************************************************)
EXTENDS WriteFile

CONSTANTS StorageKeys,  \* the keys handlers use
          Values,       \* the values they store
          fileName,     \* the name sanitize gives each key
          Nameable,     \* the names the file system takes
          NoData,       \* no file
          TornData      \* a file whose write was cut off

ASSUME FileNameAssumption == DOMAIN fileName = StorageKeys
ASSUME StorageContentAssumption == NoData # TornData /\ {NoData, TornData} \cap Values = {}

Names == {fileName[k] : k \in StorageKeys}

VARIABLE dataFiles  \* the content of each file

StorageTypeOK == dataFiles \in [Names -> Values \cup {NoData, TornData}]

FileStorageInit == dataFiles = [n \in Names |-> NoData]

Set(k, v, io) ==
  /\ fileName[k] \in Nameable
  /\ dataFiles' = [dataFiles EXCEPT ![fileName[k]] = AfterWrite(io, @, v, TornData)]

\* The name is too long for os.WriteFile to create the file.
SetFails(k) == fileName[k] \notin Nameable /\ UNCHANGED dataFiles

Delete(k) == dataFiles' = [dataFiles EXCEPT ![fileName[k]] = NoData]

Has(k) == dataFiles[fileName[k]] # NoData

\* What Get returns: NoData stands for its error, on a torn file too.
Get(k) == IF dataFiles[fileName[k]] = TornData THEN NoData ELSE dataFiles[fileName[k]]
=============================================================================
