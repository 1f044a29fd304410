-------------------------- MODULE MemoryStoreProofs --------------------------
(***************************************************************************)
(* For every set of memory ids: the types of the store's state, and that   *)
(* the index and the rows stay in step except after a reload of a file     *)
(* that lagged.                                                            *)
(***************************************************************************)
EXTENDS MemoryStore, TLAPS

(* Every action keeps the types. *)
LEMMA StoreTypeStep == StoreTypeOK /\ [StoreNext]_storeVars => StoreTypeOK'
<1> USE DEF StoreTypeOK, RowStates, LiveStates
<1>1. SUFFICES ASSUME StoreTypeOK, [StoreNext]_storeVars PROVE StoreTypeOK'
  OBVIOUS
<1>2. ASSUME NEW i \in Ids, CreateMemory(i) PROVE StoreTypeOK'
  BY <1>1, <1>2 DEF CreateMemory, IndexAdd, diskVars
<1>3. ASSUME NEW i \in Ids, NEW s \in RowStates, UpdateMemoryState(i, s) PROVE StoreTypeOK'
  BY <1>1, <1>3 DEF UpdateMemoryState, indexVars, diskVars
<1>4. ASSUME NEW i \in Ids, SoftDelete(i) PROVE StoreTypeOK'
  BY <1>1, <1>4 DEF SoftDelete, IndexRemove, rowVars, diskVars
<1>5. ASSUME NEW i \in Ids, HardDelete(i) PROVE StoreTypeOK'
  BY <1>1, <1>5 DEF HardDelete, IndexRemove, diskVars
<1>6. ASSUME NEW i \in Ids, ResolveMemory(i) PROVE StoreTypeOK'
  BY <1>1, <1>6 DEF ResolveMemory, indexVars, diskVars
<1>7. ASSUME NEW i \in Ids, NEW s \in RowStates, TransitionState(i, s) PROVE StoreTypeOK'
  BY <1>1, <1>7 DEF TransitionState, IndexRemove, diskVars
<1>8. ASSUME NEW i \in Ids, RemoveFromHNSW(i) PROVE StoreTypeOK'
  BY <1>1, <1>8 DEF RemoveFromHNSW, IndexRemove, rowVars, diskVars
<1>9. ASSUME NEW S \in SUBSET Ids, NEW to \in [S -> RowStates], NEW commits \in BOOLEAN,
             BatchTransitionStates(to, commits)
      PROVE  StoreTypeOK'
  <2>1. state' \in [Ids -> RowStates \cup {"unborn", "gone"}]
    BY <1>1, <1>9 DEF BatchTransitionStates
  <2>2. {i \in DOMAIN to : to[i] \in {"deleted", "archived"}} \subseteq Ids
    BY <1>9
  <2> QED
    BY <1>1, <1>9, <2>1, <2>2 DEF BatchTransitionStates, IndexRemove, diskVars
<1>10. ASSUME StopOrStart PROVE StoreTypeOK'
  <2>1. CASE CloseSave
    BY <1>1, <2>1 DEF CloseSave, rowVars
  <2>2. CASE CloseDatabase
    BY <1>1, <2>2 DEF CloseDatabase, rowVars
  <2>3. ASSUME NEW b \in BOOLEAN, Crash(b) PROVE StoreTypeOK'
    BY <1>1, <2>3 DEF Crash, rowVars
  <2>4. CASE OpenLoad
    BY <1>1, <2>4 DEF OpenLoad, rowVars
  <2>5. CASE OpenRebuild
    BY <1>1, <2>5 DEF OpenRebuild, rowVars, SearchableIds
  <2> QED
    BY <1>10, <2>1, <2>2, <2>3, <2>4, <2>5 DEF StopOrStart
<1>11. CASE UNCHANGED storeVars
  BY <1>1, <1>11 DEF storeVars
<1>12. CASE Write
  BY <1>12, <1>2, <1>3, <1>4, <1>5, <1>6, <1>7, <1>8 DEF Write
<1>13. CASE BatchWrite
  <2>1. PICK S \in SUBSET Ids : \E to \in [S -> {"active", "stale", "archived", "deleted"}] :
               \E commits \in BOOLEAN : BatchTransitionStates(to, commits)
    BY <1>13 DEF BatchWrite
  <2>2. PICK to \in [S -> {"active", "stale", "archived", "deleted"}],
             commits \in BOOLEAN : BatchTransitionStates(to, commits)
    BY <2>1
  <2>3. to \in [S -> RowStates]
    BY <2>2
  <2> QED
    BY <1>9, <2>2, <2>3
<1> QED
  BY <1>1, <1>10, <1>11, <1>12, <1>13 DEF StoreNext

(* The types of the store's state, for any set of memory ids. *)
THEOREM StoreTypes == StoreSpec => []StoreTypeOK
<1>1. StoreInit => StoreTypeOK
  BY DEF StoreInit, StoreTypeOK
<1> QED
  BY <1>1, StoreTypeStep, PTL DEF StoreSpec

(* A write of one row, whoever makes it. *)
LEMMA WritesAreTheStores ==
  ASSUME StoreTypeOK, NEW i \in Ids,
         \/ \E s \in {"active", "archived", "resolved"} : UpdateMemoryState(i, s)
         \/ CreateMemory(i) \/ SoftDelete(i) \/ HardDelete(i) \/ ResolveMemory(i)
         \/ \E s \in {"stale", "archived", "deleted"} : BatchTransitionStates([j \in {i} |-> s], TRUE)
         \/ UNCHANGED storeVars
  PROVE  [StoreNext]_storeVars /\ StoreTypeOK'
<1>1. ASSUME NEW s \in {"stale", "archived", "deleted"},
             BatchTransitionStates([j \in {i} |-> s], TRUE)
      PROVE  BatchWrite
  <2>1. {i} \in SUBSET Ids /\ [j \in {i} |-> s] \in [{i} -> {"active", "stale", "archived", "deleted"}]
    OBVIOUS
  <2> QED
    BY <1>1, <2>1 DEF BatchWrite
<1>2. [StoreNext]_storeVars
  BY <1>1 DEF StoreNext, Write
<1> QED
  BY <1>2, StoreTypeStep

-----------------------------------------------------------------------------
(* Types and agreement together: what the steps preserve. *)
IInv == StoreTypeOK /\ StoreInv

(* A write while the process runs.  It leaves the rows of the ids outside R
   alone or moves them between live states, takes the vectors of R away, and
   marks the file as overtaken whenever it took a vector. *)
LEMMA WriteKeepsInv ==
  ASSUME IInv, NEW R \in SUBSET Ids,
         index' = index \ R,
         dropped' = dropped \cup R,
         fileLags' = (IF R = {} THEN fileLags ELSE TRUE),
         UNCHANGED <<file, fileKind, phase, lags>>,
         \A i \in Ids : Present(i)' => Present(i),
         \A i \in Ids \ R : state'[i] = state[i] \/ state'[i] \in LiveStates
  PROVE  StoreInv'
<1>1. ASSUME ~lags, phase # "down" PROVE IndexFits(index)'
  BY <1>1 DEF IInv, StoreInv, StoreTypeOK, IndexFits, Present
<1>2. ASSUME ~fileLags', fileKind = "good" PROVE IndexFits(file)'
  <2>1. R = {} /\ ~fileLags
    BY <1>2
  <2>2. IndexFits(file)
    BY <1>2, <2>1 DEF IInv, StoreInv
  <2> QED
    BY <2>1, <2>2 DEF IInv, StoreTypeOK, IndexFits, Present
<1> QED
  BY <1>1, <1>2 DEF StoreInv

LEMMA StoreInvStep == IInv /\ [StoreNext]_storeVars => StoreInv'
<1> SUFFICES ASSUME IInv, [StoreNext]_storeVars PROVE StoreInv'
  OBVIOUS
<1> USE DEF LiveStates, RowStates
<1>1. ASSUME NEW i \in Ids, CreateMemory(i) PROVE StoreInv'
  <2>1. \A j \in Ids : Present(j)' => Present(j) \/ j = i
    BY <1>1 DEF CreateMemory, Present, IInv, StoreTypeOK
  <2>2. \A j \in Ids : state'[j] = state[j] \/ state'[j] = "active"
    BY <1>1 DEF CreateMemory, IInv, StoreTypeOK
  <2>3. state'[i] = "active"
    BY <1>1 DEF CreateMemory, IInv, StoreTypeOK
  <2>4. index' = index \cup {i} /\ dropped' = dropped \ {i} /\ fileLags' = TRUE
        /\ UNCHANGED <<file, fileKind, phase, lags>>
    BY <1>1 DEF CreateMemory, IndexAdd, diskVars
  <2> QED
    BY <2>1, <2>2, <2>3, <2>4 DEF IInv, StoreInv, StoreTypeOK, IndexFits, Present
<1>2. ASSUME NEW i \in Ids, NEW s \in LiveStates, UpdateMemoryState(i, s) PROVE StoreInv'
  <2>1. PICK R \in SUBSET Ids : R = {}
    OBVIOUS
  <2>2. /\ index' = index \ R /\ dropped' = dropped \cup R
        /\ fileLags' = (IF R = {} THEN fileLags ELSE TRUE)
        /\ UNCHANGED <<file, fileKind, phase, lags>>
    BY <1>2, <2>1 DEF UpdateMemoryState, indexVars, diskVars
  <2>3. \A j \in Ids : Present(j)' => Present(j)
    BY <1>2 DEF UpdateMemoryState, Present, IInv, StoreTypeOK
  <2>4. \A j \in Ids \ R : state'[j] = state[j] \/ state'[j] \in LiveStates
    BY <1>2 DEF UpdateMemoryState, IInv, StoreTypeOK
  <2> QED
    BY <2>2, <2>3, <2>4, WriteKeepsInv
<1>3. ASSUME NEW i \in Ids, SoftDelete(i) PROVE StoreInv'
  <2>1. /\ index' = index \ {i} /\ dropped' = dropped \cup {i} /\ fileLags' = TRUE
        /\ UNCHANGED <<file, fileKind, phase, lags>>
    BY <1>3 DEF SoftDelete, IndexRemove, diskVars
  <2>2. \A j \in Ids : Present(j)' => Present(j)
    BY <1>3 DEF SoftDelete, Present, rowVars, IInv, StoreTypeOK
  <2>3. \A j \in Ids \ {i} : state'[j] = state[j]
    BY <1>3 DEF SoftDelete, rowVars, IInv, StoreTypeOK
  <2> QED
    BY <2>1, <2>2, <2>3, WriteKeepsInv
<1>4. ASSUME NEW i \in Ids, HardDelete(i) PROVE StoreInv'
  <2>1. /\ index' = index \ {i} /\ dropped' = dropped \cup {i} /\ fileLags' = TRUE
        /\ UNCHANGED <<file, fileKind, phase, lags>>
    BY <1>4 DEF HardDelete, IndexRemove, diskVars
  <2>2. \A j \in Ids : Present(j)' => Present(j)
    BY <1>4 DEF HardDelete, Present, IInv, StoreTypeOK
  <2>3. \A j \in Ids \ {i} : state'[j] = state[j]
    BY <1>4 DEF HardDelete, IInv, StoreTypeOK
  <2> QED
    BY <2>1, <2>2, <2>3, WriteKeepsInv
<1>5. ASSUME NEW i \in Ids, ResolveMemory(i) PROVE StoreInv'
  <2>1. UpdateMemoryState(i, "resolved")
    BY <1>5 DEF ResolveMemory, UpdateMemoryState
  <2> QED
    BY <1>2, <2>1
<1>6. ASSUME NEW i \in Ids, NEW s \in RowStates, TransitionState(i, s) PROVE StoreInv'
  <2> DEFINE R == IF s \in {"deleted", "archived"} THEN {i} ELSE {}
  <2>1. /\ index' = index \ R /\ dropped' = dropped \cup R
        /\ fileLags' = (IF R = {} THEN fileLags ELSE TRUE)
        /\ UNCHANGED <<file, fileKind, phase, lags>>
    BY <1>6 DEF TransitionState, IndexRemove, diskVars
  <2>2. \A j \in Ids : Present(j)' => Present(j)
    BY <1>6 DEF TransitionState, Present, IInv, StoreTypeOK
  <2>3. \A j \in Ids \ R : state'[j] = state[j] \/ state'[j] \in LiveStates
    BY <1>6 DEF TransitionState, IInv, StoreTypeOK
  <2>4. R \in SUBSET Ids
    OBVIOUS
  <2> QED
    BY <2>1, <2>2, <2>3, <2>4, WriteKeepsInv
<1>7. ASSUME NEW i \in Ids, RemoveFromHNSW(i) PROVE StoreInv'
  <2>1. /\ index' = index \ {i} /\ dropped' = dropped \cup {i} /\ fileLags' = TRUE
        /\ UNCHANGED <<state, file, fileKind, phase, lags>>
    BY <1>7 DEF RemoveFromHNSW, IndexRemove, rowVars, diskVars
  <2> QED
    BY <2>1, WriteKeepsInv DEF Present
<1>8. ASSUME NEW S \in SUBSET Ids, NEW to \in [S -> RowStates], NEW commits \in BOOLEAN,
             BatchTransitionStates(to, commits)
      PROVE  StoreInv'
  <2> DEFINE R == {i \in DOMAIN to : to[i] \in {"deleted", "archived"}}
  <2>1. /\ index' = index \ R /\ dropped' = dropped \cup R
        /\ fileLags' = (IF R = {} THEN fileLags ELSE TRUE)
        /\ UNCHANGED <<file, fileKind, phase, lags>>
    BY <1>8 DEF BatchTransitionStates, IndexRemove, diskVars
  <2>2. \A j \in Ids : state'[j] = state[j] \/ (j \in S /\ Present(j) /\ state'[j] = to[j])
    BY <1>8 DEF BatchTransitionStates, IInv, StoreTypeOK
  <2>3. \A j \in Ids : Present(j)' => Present(j)
    BY <2>2 DEF Present
  <2>4. \A j \in Ids \ R : state'[j] = state[j] \/ state'[j] \in LiveStates
    <3> SUFFICES ASSUME NEW j \in Ids \ R, j \in S, state'[j] = to[j]
                 PROVE  state'[j] \in LiveStates
      BY <2>2
    <3> QED
      OBVIOUS
  <2>5. R \in SUBSET Ids
    OBVIOUS
  <2> HIDE DEF R
  <2> QED
    BY <2>1, <2>3, <2>4, <2>5, WriteKeepsInv
<1>9. ASSUME StopOrStart PROVE StoreInv'
  <2>1. CASE CloseSave
    BY <2>1 DEF CloseSave, rowVars, IInv, StoreInv, StoreTypeOK, IndexFits, Present
  <2>2. CASE CloseDatabase
    BY <2>2 DEF CloseDatabase, rowVars, IInv, StoreInv, StoreTypeOK, IndexFits, Present
  <2>3. ASSUME NEW b \in BOOLEAN, Crash(b) PROVE StoreInv'
    BY <2>3 DEF Crash, rowVars, IInv, StoreInv, StoreTypeOK, IndexFits, Present
  <2>4. CASE OpenLoad
    BY <2>4 DEF OpenLoad, rowVars, IInv, StoreInv, StoreTypeOK, IndexFits, Present
  <2>5. CASE OpenRebuild
    <3>1. SearchableIds' = SearchableIds /\ SearchableIds \subseteq Ids
      BY <2>5 DEF OpenRebuild, rowVars, SearchableIds
    <3>2. IndexFits(index)'
      BY <2>5, <3>1 DEF OpenRebuild, rowVars, IndexFits, Present, SearchableIds, Searchable
    <3> QED
      BY <2>5, <3>2 DEF OpenRebuild, StoreInv
  <2> QED
    BY <1>9, <2>1, <2>2, <2>3, <2>4, <2>5 DEF StopOrStart
<1>10. CASE UNCHANGED storeVars
  BY <1>10 DEF storeVars, IInv, StoreInv, StoreTypeOK, IndexFits, Present
<1>11. CASE Write
  BY <1>11, <1>1, <1>2, <1>3, <1>4, <1>5, <1>6, <1>7 DEF Write
<1>12. CASE BatchWrite
  <2>1. PICK S \in SUBSET Ids : \E to \in [S -> {"active", "stale", "archived", "deleted"}] :
               \E commits \in BOOLEAN : BatchTransitionStates(to, commits)
    BY <1>12 DEF BatchWrite
  <2>2. PICK to \in [S -> {"active", "stale", "archived", "deleted"}],
             commits \in BOOLEAN : BatchTransitionStates(to, commits)
    BY <2>1
  <2>3. to \in [S -> RowStates]
    BY <2>2
  <2> QED
    BY <1>8, <2>2, <2>3
<1> QED
  BY <1>9, <1>10, <1>11, <1>12 DEF StoreNext

LEMMA StoreInvariant == StoreSpec => []IInv
<1>1. StoreInit => IInv
  BY DEF StoreInit, IInv, StoreTypeOK, StoreInv, IndexFits, Present, RowStates, LiveStates
<1>2. IInv /\ [StoreNext]_storeVars => IInv'
  BY StoreTypeStep, StoreInvStep DEF IInv
<1> QED
  BY <1>1, <1>2, PTL DEF StoreSpec

(* For any set of memories: unless the index was reloaded from a file that
   writes had overtaken, nothing the database has deleted is a candidate of a
   similarity search (DeleteMemory, TransitionState, BatchTransitionStates). *)
THEOREM NoDeletedCandidates == StoreSpec => []DeletedAreNoCandidates
<1>1. IInv => DeletedAreNoCandidates
  BY DEF IInv, StoreInv, IndexFits, DeletedAreNoCandidates
<1> QED
  BY <1>1, StoreInvariant, PTL

(* For any set of memories: a searchable memory without a vector is one that
   some write, or a rebuild while it was archived or deleted, took out of the
   index; the store loses no other vector while its file does not lag. *)
THEOREM NoVectorLost == StoreSpec => []UnindexedWereDropped
<1>1. IInv => UnindexedWereDropped
  BY DEF IInv, StoreInv, IndexFits, UnindexedWereDropped, SearchableIds, Searchable, Present, RowStates, LiveStates
<1> QED
  BY <1>1, StoreInvariant, PTL
=============================================================================
