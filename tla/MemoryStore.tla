----------------------------- MODULE MemoryStore -----------------------------
(***************************************************************************)
(* storage.SQLiteStore: the rows of the memories table and the in-process  *)
(* HNSW index that answers similarity queries about them.                  *)
(*                                                                         *)
(* A row is its lifecycle state and whether deleted_at is set.  The index  *)
(* is the set of memory ids that have a vector.  Every write holds s.mu,   *)
(* so a write is one action; the index is a second copy that only some of  *)
(* the writes maintain, that lives in memory, and that is saved to         *)
(* <db>.hnsw by Close alone.                                               *)
(*                                                                         *)
(* The other modules extend this one and take its actions as the calls     *)
(* that the engine, the schedule API and the background jobs make.         *)
(***************************************************************************)
EXTENDS Naturals, FiniteSets

CONSTANT Ids            \* the memory ids (ULIDs) that may ever be created

VARIABLES
  state,    \* the state column; "unborn" before the INSERT, "gone" after the DELETE
  stamped,  \* the ids whose deleted_at column is set
  index,    \* the ids that the in-memory HNSW index holds a vector for
  file,     \* the ids in the index file on disk
  fileKind, \* "none", "good" or "torn" (the process died inside Save)
  phase,    \* "open", "saved" (Close has saved, the database is still open), "down"
  fileLags, \* history: the index changed since the file was saved
  lags,     \* history: the index in memory was loaded from a file that lagged
  dropped   \* history: ids a write took out of the index, or a rebuild left out of it

rowVars   == <<state, stamped>>
indexVars == <<index, fileLags, dropped>>
diskVars  == <<file, fileKind, phase, lags>>
storeVars == <<state, stamped, index, file, fileKind, phase, fileLags, lags, dropped>>

LiveStates == {"active", "stale", "resolved", "archived"}
RowStates  == LiveStates \cup {"deleted"}
Searchable == {"active", "stale", "resolved"}

Present(i)    == state[i] \in RowStates
SearchableIds == {i \in Ids : state[i] \in Searchable}

StoreTypeOK ==
  /\ state \in [Ids -> RowStates \cup {"unborn", "gone"}]
  /\ stamped \subseteq Ids
  /\ index \subseteq Ids
  /\ file \subseteq Ids
  /\ fileKind \in {"none", "good", "torn"}
  /\ phase \in {"open", "saved", "down"}
  /\ fileLags \in BOOLEAN
  /\ lags \in BOOLEAN
  /\ dropped \subseteq Ids

(* NewSQLite on a new database: no row, no file, an empty index. *)
StoreInit ==
  /\ state = [i \in Ids |-> "unborn"]
  /\ stamped = {}
  /\ index = {}
  /\ file = {}
  /\ fileKind = "none"
  /\ phase = "open"
  /\ fileLags = FALSE
  /\ lags = FALSE
  /\ dropped = {}

-----------------------------------------------------------------------------
(* The two ways a write touches the index. *)

IndexAdd(i) ==
  /\ index' = index \cup {i}
  /\ dropped' = dropped \ {i}
  /\ fileLags' = TRUE

IndexRemove(S) ==
  /\ index' = index \ S
  /\ dropped' = dropped \cup S
  /\ fileLags' = IF S = {} THEN fileLags ELSE TRUE

Writable == phase \in {"open", "saved"}

-----------------------------------------------------------------------------
(* Writes.  A statement whose WHERE id = ? finds no row changes nothing. *)

(* A slip: the row is inserted without its vector. *)
CreateMemoryUnindexed(i) ==
  /\ Writable
  /\ state[i] = "unborn"
  /\ state' = [state EXCEPT ![i] = "active"]
  /\ UNCHANGED <<stamped, indexVars, diskVars>>

CreateMemory(i) ==
  /\ Writable
  /\ state[i] = "unborn"
  /\ state' = [state EXCEPT ![i] = "active"]
  /\ IndexAdd(i)
  /\ UNCHANGED <<stamped, diskVars>>

(* UpdateMemory with State set, whatever the new state is: the index and
   deleted_at are not looked at. *)
UpdateMemoryState(i, s) ==
  /\ Writable
  /\ Present(i)
  /\ state' = [state EXCEPT ![i] = s]
  /\ UNCHANGED <<stamped, indexVars, diskVars>>

(* A slip: the row is marked and its vector is forgotten. *)
SoftDeleteKeepsVector(i) ==
  /\ Writable
  /\ Present(i)
  /\ state' = [state EXCEPT ![i] = "deleted"]
  /\ stamped' = stamped \cup {i}
  /\ UNCHANGED <<indexVars, diskVars>>

SoftDelete(i) ==
  /\ Writable
  /\ IF Present(i)
     THEN /\ state' = [state EXCEPT ![i] = "deleted"]
          /\ stamped' = stamped \cup {i}
     ELSE UNCHANGED rowVars
  /\ IndexRemove({i})
  /\ UNCHANGED diskVars

HardDelete(i) ==
  /\ Writable
  /\ state' = [state EXCEPT ![i] = IF Present(i) THEN "gone" ELSE @]
  /\ stamped' = stamped \ {i}
  /\ IndexRemove({i})
  /\ UNCHANGED diskVars

ResolveMemory(i) ==
  /\ Writable
  /\ Present(i)
  /\ state' = [state EXCEPT ![i] = "resolved"]
  /\ UNCHANGED <<stamped, indexVars, diskVars>>

(* TransitionState: deleted_at is not set, even when the new state is deleted. *)
TransitionState(i, s) ==
  /\ Writable
  /\ Present(i)
  /\ state' = [state EXCEPT ![i] = s]
  /\ IndexRemove(IF s \in {"deleted", "archived"} THEN {i} ELSE {})
  /\ UNCHANGED <<stamped, diskVars>>

(* BatchTransitionStates: `to' gives the new state of each id of its domain.
   The vectors leave the index inside the loop, before tx.Commit: when the
   commit fails the rows keep their state and the vectors are gone. *)
BatchTransitionStates(to, commits) ==
  LET leaving == {i \in DOMAIN to : to[i] \in {"deleted", "archived"}}
  IN /\ Writable
     /\ state' = IF commits
                 THEN [i \in Ids |-> IF i \in DOMAIN to /\ Present(i) THEN to[i] ELSE state[i]]
                 ELSE state
     /\ IndexRemove(leaving)
     /\ UNCHANGED <<stamped, diskVars>>

(* RemoveFromHNSW: the vector goes, the row stays. *)
RemoveFromHNSW(i) ==
  /\ Writable
  /\ i \in index
  /\ IndexRemove({i})
  /\ UNCHANGED <<rowVars, diskVars>>

-----------------------------------------------------------------------------
(* Start and stop. *)

(* Close saves the index and then closes the database.  It does not take
   s.mu, so a request or a job still in flight may write in between. *)
CloseSave ==
  /\ phase = "open"
  /\ phase' = "saved"
  /\ file' = index
  /\ fileKind' = "good"
  /\ fileLags' = lags
  /\ UNCHANGED <<rowVars, index, lags, dropped>>

CloseDatabase ==
  /\ phase = "saved"
  /\ phase' = "down"
  /\ index' = {}
  /\ UNCHANGED <<rowVars, file, fileKind, fileLags, lags, dropped>>

(* The process dies: committed rows survive, the index does not.  A process
   that dies inside Save leaves a file that Load refuses. *)
Crash(insideSave) ==
  /\ phase # "down"
  /\ insideSave => phase = "open"
  /\ phase' = "down"
  /\ index' = {}
  /\ fileKind' = IF insideSave THEN "torn" ELSE fileKind
  /\ UNCHANGED <<rowVars, file, fileLags, lags, dropped>>

(* NewSQLite with a file that Load accepts: the rows are not consulted. *)
OpenLoad ==
  /\ phase = "down"
  /\ fileKind = "good"
  /\ phase' = "open"
  /\ index' = file
  /\ lags' = fileLags
  /\ UNCHANGED <<rowVars, file, fileKind, fileLags, dropped>>

(* NewSQLite when Load fails (no file, a torn one, one that does not pass
   Load's range checks): rebuildIndex adds every searchable row's vector. *)
OpenRebuild ==
  /\ phase = "down"
  /\ phase' = "open"
  /\ index' = SearchableIds
  /\ dropped' = {i \in Ids : Present(i)} \ SearchableIds
  /\ lags' = FALSE
  /\ fileLags' = TRUE
  /\ UNCHANGED <<rowVars, file, fileKind>>

-----------------------------------------------------------------------------
(* The calls the program makes: the states are the ones some caller passes. *)
Write ==
  \E i \in Ids :
    \/ CreateMemory(i)
    \/ \E s \in {"active", "archived", "resolved"} : UpdateMemoryState(i, s)
    \/ SoftDelete(i)
    \/ HardDelete(i)
    \/ ResolveMemory(i)
    \/ \E s \in RowStates : TransitionState(i, s)
    \/ RemoveFromHNSW(i)

BatchWrite ==
  \E S \in SUBSET Ids : \E to \in [S -> {"active", "stale", "archived", "deleted"}] :
    \E commits \in BOOLEAN : BatchTransitionStates(to, commits)

StopOrStart ==
  \/ CloseSave
  \/ CloseDatabase
  \/ \E insideSave \in BOOLEAN : Crash(insideSave)
  \/ OpenLoad
  \/ OpenRebuild

StoreNext == Write \/ BatchWrite \/ StopOrStart
StoreSpec == StoreInit /\ [][StoreNext]_storeVars

-----------------------------------------------------------------------------
(* Properties. *)

(* An id that the database has deleted is not a search candidate: it cannot
   take one of the candidate places of FindSimilar from a live memory.  This
   holds while the index is not the reload of a file that writes overtook
   (a crash, or a write between Close's Save and the database's Close). *)
DeletedAreNoCandidates ==
  ~lags /\ phase # "down" => \A i \in index : state[i] \in LiveStates

(* A searchable row that FindSimilar cannot find was taken out of the index
   by a delete, an archival, a rolled-back batch or an eviction, or left out
   of it by a rebuild, and set back to a searchable state by a write that does
   not put the vector back; the store never loses a vector in any other way,
   unless the index was reloaded from a file that lagged. *)
UnindexedWereDropped ==
  ~lags /\ phase # "down" => SearchableIds \subseteq index \cup dropped

(* What makes the two inductive: they hold of every row, archived ones
   included, and of the index file for as long as nothing overtakes it. *)
IndexFits(ix) ==
  /\ \A i \in ix : state[i] \in LiveStates
  /\ \A i \in Ids : Present(i) => i \in ix \cup dropped

StoreInv ==
  /\ ~lags /\ phase # "down" => IndexFits(index)
  /\ ~fileLags /\ fileKind = "good" => IndexFits(file)
=============================================================================
