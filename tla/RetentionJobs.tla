--------------------------- MODULE RetentionJobs ---------------------------
(***************************************************************************)
(* jobs.ArchivalProcessor and jobs.PurgeProcessor, side by side (the       *)
(* scheduler runs jobs of different types concurrently) and among the      *)
(* requests and the decay that write the same rows.                        *)
(*                                                                         *)
(* Each visits the entities that GetAllEntities gave it and reads, for     *)
(* each, one page of rows.  Archival writes the page's transitions in one  *)
(* batch; purge deletes row by row.  Neither looks at a row again between  *)
(* the read and the write.                                                 *)
(*                                                                         *)
(* Dates are kept as what the jobs ask of them: a row is `aged' when its   *)
(* updated_at is older than ArchivalDays, `expired' when its deleted_at is *)
(* older than PurgeRetentionDays.                                          *)
(***************************************************************************)
EXTENDS MemoryStore

CONSTANTS
  Entities,
  Owner,       \* the entity_id of each memory
  BatchSize,   \* rows that a job reads of one entity in a run
  MaxDisturbances  \* bound: writes of others, and statements that fail, in a behaviour

ASSUME RetentionAssumption ==
  /\ IsFiniteSet(Ids)
  /\ Owner \in [Ids -> Entities]
  /\ BatchSize \in Nat \ {0}
  /\ MaxDisturbances \in Nat

VARIABLES
  aged, expired,
  arch, archLeft, archPage,     \* archival: what it does next, entities left, rows to archive
  purge, purgeLeft, purgePage,  \* purge: the same, rows to delete
  archDirty, purgeDirty,        \* history: rows of the page that others have written since
  disturbances                  \* counts the writes of others and the failures so far

archVars      == <<arch, archLeft, archPage, archDirty>>
purgeVars     == <<purge, purgeLeft, purgePage, purgeDirty>>
retentionVars == <<storeVars, aged, expired, archVars, purgeVars, disturbances>>

RetentionTypeOK ==
  /\ StoreTypeOK
  /\ aged \subseteq Ids
  /\ expired \subseteq stamped
  /\ arch \in {"idle", "query", "apply"}
  /\ purge \in {"idle", "query", "delete"}
  /\ archLeft \subseteq Entities /\ purgeLeft \subseteq Entities
  /\ archPage \subseteq Ids /\ purgePage \subseteq Ids
  /\ archDirty \subseteq archPage /\ purgeDirty \subseteq purgePage
  /\ disturbances \in 0..MaxDisturbances

RetentionInit ==
  /\ StoreInit
  /\ aged = {} /\ expired = {}
  /\ arch = "idle" /\ archLeft = {} /\ archPage = {} /\ archDirty = {}
  /\ purge = "idle" /\ purgeLeft = {} /\ purgePage = {} /\ purgeDirty = {}
  /\ disturbances = 0

-----------------------------------------------------------------------------
(* A slip: entities whose memories are all stale are not visited. *)
ActiveEntities == {Owner[i] : i \in {j \in Ids : state[j] = "active"}}

(* SELECT DISTINCT entity_id ... WHERE state != 'deleted' *)
AllEntities == {Owner[i] : i \in {j \in Ids : state[j] \in LiveStates}}

RowsOf(e, s) == {i \in Ids : Owner[i] = e /\ state[i] = s}

(* The first BatchSize of `rows' when those of `early' sort before the rest. *)
IsPage(page, rows, early) ==
  /\ page \subseteq rows
  /\ Cardinality(page) = IF Cardinality(rows) < BatchSize THEN Cardinality(rows) ELSE BatchSize
  /\ page \ early # {} => rows \cap early \subseteq page

(* A write sets updated_at; a job that holds the row does not learn of it. *)
Rewrite(S) ==
  /\ aged' = aged \ S
  /\ archDirty' = archDirty \cup (S \cap archPage)
  /\ purgeDirty' = purgeDirty \cup (S \cap purgePage)

Disturb == disturbances < MaxDisturbances /\ disturbances' = disturbances + 1

-----------------------------------------------------------------------------
(* Archival. *)

StartArchival ==
  /\ arch = "idle"
  /\ arch' = "query"
  /\ archLeft' = AllEntities
  /\ UNCHANGED <<storeVars, aged, expired, archPage, archDirty, purgeVars, disturbances>>

(* One page of the stale rows of the next entity, oldest updated_at first;
   those older than the cutoff are to be archived. *)
QueryStale(e, page) ==
  /\ arch = "query"
  /\ e \in archLeft
  /\ archLeft' = archLeft \ {e}
  /\ archPage' = page \cap aged
  /\ archDirty' = {}
  /\ arch' = IF page \cap aged # {} THEN "apply" ELSE "query"
  /\ UNCHANGED <<storeVars, aged, expired, purgeVars>>

StalePage(e, page)  == IsPage(page, RowsOf(e, "stale"), aged)

(* BatchTransitionStates of the page; a commit that fails is logged. *)
ArchiveRows(commits) ==
  /\ arch = "apply"
  /\ BatchTransitionStates([i \in archPage |-> "archived"], commits)
  /\ aged' = IF commits THEN aged \ archPage ELSE aged
  /\ purgeDirty' = IF commits THEN purgeDirty \cup (archPage \cap purgePage) ELSE purgeDirty
  /\ archPage' = {}
  /\ archDirty' = {}
  /\ arch' = "query"
  /\ UNCHANGED <<archLeft, expired, purge, purgeLeft, purgePage>>

EndArchival ==
  /\ arch = "query"
  /\ archLeft = {}
  /\ arch' = "idle"
  /\ UNCHANGED <<storeVars, aged, expired, archLeft, archPage, archDirty, purgeVars, disturbances>>

-----------------------------------------------------------------------------
(* Purge. *)

StartPurge ==
  /\ purge = "idle"
  /\ purge' = "query"
  /\ purgeLeft' = AllEntities
  /\ UNCHANGED <<storeVars, aged, expired, archVars, purgePage, purgeDirty, disturbances>>

(* A slip: the dates of the deleted rows are not looked at. *)
QueryDeletedOfAnyAge(e, page) ==
  /\ purge = "query"
  /\ e \in purgeLeft
  /\ purgeLeft' = purgeLeft \ {e}
  /\ purgePage' = page
  /\ purgeDirty' = {}
  /\ purge' = IF page # {} THEN "delete" ELSE "query"
  /\ UNCHANGED <<storeVars, aged, expired, archVars>>

(* One page of the deleted rows of the next entity; the expired ones are to go. *)
QueryDeleted(e, page) ==
  /\ purge = "query"
  /\ e \in purgeLeft
  /\ purgeLeft' = purgeLeft \ {e}
  /\ purgePage' = page \cap expired
  /\ purgeDirty' = {}
  /\ purge' = IF page \cap expired # {} THEN "delete" ELSE "query"
  /\ UNCHANGED <<storeVars, aged, expired, archVars>>

(* ORDER BY deleted_at: SQLite sorts the rows that have none first. *)
DeletedPage(e, page) ==
  /\ IsPage(page, RowsOf(e, "deleted"), Ids \ stamped)
  /\ IsPage(page, RowsOf(e, "deleted"), expired \cup (Ids \ stamped))

(* A slip: the row is deleted softly once more. *)
PurgeRowSoftly(i, succeeds) ==
  /\ purge = "delete"
  /\ i \in purgePage
  /\ IF succeeds
     THEN /\ SoftDelete(i)
          /\ aged' = aged \ {i}
          /\ expired' = expired \ {i}
          /\ archDirty' = archDirty \cup ({i} \cap archPage)
     ELSE UNCHANGED <<storeVars, aged, expired, archDirty>>
  /\ purgePage' = purgePage \ {i}
  /\ purgeDirty' = purgeDirty \ {i}
  /\ purge' = IF purgePage = {i} THEN "query" ELSE "delete"
  /\ UNCHANGED <<purgeLeft, arch, archLeft, archPage>>

(* DeleteMemory(hard) of one row of the page; when it fails the error is
   logged and the row stays for a later run. *)
PurgeRow(i, succeeds) ==
  /\ purge = "delete"
  /\ i \in purgePage
  /\ IF succeeds
     THEN /\ HardDelete(i)
          /\ aged' = aged \ {i}
          /\ expired' = expired \ {i}
          /\ archDirty' = archDirty \cup ({i} \cap archPage)
     ELSE UNCHANGED <<storeVars, aged, expired, archDirty>>
  /\ purgePage' = purgePage \ {i}
  /\ purgeDirty' = purgeDirty \ {i}
  /\ purge' = IF purgePage = {i} THEN "query" ELSE "delete"
  /\ UNCHANGED <<purgeLeft, arch, archLeft, archPage>>

EndPurge ==
  /\ purge = "query"
  /\ purgeLeft = {}
  /\ purge' = "idle"
  /\ UNCHANGED <<storeVars, aged, expired, archVars, purgeLeft, purgePage, purgeDirty, disturbances>>

-----------------------------------------------------------------------------
(* A run of a job whose statements succeed, and the failures: a query that
   fails skips its entity. *)

ArchivalGoesOn ==
  \/ StartArchival
  \/ /\ \E e \in archLeft, page \in SUBSET Ids : StalePage(e, page) /\ QueryStale(e, page)
     /\ UNCHANGED disturbances
  \/ ArchiveRows(TRUE) /\ UNCHANGED disturbances
  \/ EndArchival

PurgeGoesOn ==
  \/ StartPurge
  \/ /\ \E e \in purgeLeft, page \in SUBSET Ids : DeletedPage(e, page) /\ QueryDeleted(e, page)
     /\ UNCHANGED disturbances
  \/ \E i \in purgePage : PurgeRow(i, TRUE) /\ UNCHANGED disturbances
  \/ EndPurge

StatementFails ==
  /\ Disturb
  /\ \/ \E e \in archLeft : QueryStale(e, {})
     \/ ArchiveRows(FALSE)
     \/ \E e \in purgeLeft : QueryDeleted(e, {})
     \/ \E i \in purgePage : PurgeRow(i, FALSE)

-----------------------------------------------------------------------------
(* Everyone else. *)

OtherWrite(i) ==
  /\ Disturb
  /\ Rewrite({i})
  /\ UNCHANGED <<arch, archLeft, archPage, purge, purgeLeft, purgePage>>

Create(i) == OtherWrite(i) /\ CreateMemory(i) /\ UNCHANGED expired

(* DELETE of one memory: deleted_at is set, or set again. *)
Delete(i) == OtherWrite(i) /\ Present(i) /\ SoftDelete(i) /\ expired' = expired \ {i}

(* Resolve; UpdateSchedule and consolidation (active); the end of a schedule and
   a lost conflict (archived).  None looks at the state or clears deleted_at. *)
ChangeState(i) ==
  /\ OtherWrite(i)
  /\ ResolveMemory(i) \/ \E s \in {"active", "archived"} : UpdateMemoryState(i, s)
  /\ UNCHANGED expired

(* The decay job: it writes the state and leaves deleted_at alone. *)
Decay(i, s) ==
  /\ OtherWrite(i)
  /\ state[i] \in Searchable
  /\ BatchTransitionStates([j \in {i} |-> s], TRUE)
  /\ UNCHANGED expired

(* Time passes. *)
GrowOld(i) ==
  /\ Present(i)
  /\ aged' = aged \cup {i}
  /\ UNCHANGED <<storeVars, expired, archVars, purgeVars, disturbances>>

Expire(i) ==
  /\ i \in stamped
  /\ expired' = expired \cup {i}
  /\ UNCHANGED <<storeVars, aged, archVars, purgeVars, disturbances>>

ApiWrites   == \E i \in Ids : Create(i) \/ Delete(i) \/ ChangeState(i)
Decays     == \E i \in Ids, s \in {"stale", "archived", "deleted"} : Decay(i, s)
TimePasses == \E i \in Ids : GrowOld(i) \/ Expire(i)

RetentionNext ==
  ArchivalGoesOn \/ PurgeGoesOn \/ StatementFails \/ ApiWrites \/ Decays \/ TimePasses

RetentionSpec == RetentionInit /\ [][RetentionNext]_retentionVars

(* The tickers start both jobs for as long as the process is up, a run goes on
   while its statements succeed, and every date gets old. *)
Fairness ==
  /\ WF_retentionVars(ArchivalGoesOn)
  /\ WF_retentionVars(PurgeGoesOn)
  /\ \A i \in Ids : WF_retentionVars(GrowOld(i)) /\ WF_retentionVars(Expire(i))

FairRetentionSpec == RetentionSpec /\ Fairness

-----------------------------------------------------------------------------
(* Properties. *)

(* Archival and purge take only rows that were due when the same run read them: stale
   ones whose last write is older than the cutoff, and ones that were deleted, for longer
   than the retention.  They still are when they are taken, but for those that somebody
   else has written meanwhile.  Memories leave the database for good in no other way
   (archival_processor.go, purge_processor.go).
   docs/troubleshooting.md:261 says otherwise, that purge "deletes `archived` memories
   older than 90 days"; the code asks for state deleted, as docs/architecture.md:250
   has it. *)
DueForArchival(i) == state[i] = "stale" /\ i \in aged
DueForPurge(i)    == state[i] = "deleted" /\ i \in expired

JobsTakeWhatIsDue ==
  [][/\ \A i \in archPage' \ archPage : DueForArchival(i)
     /\ \A i \in purgePage' \ purgePage : DueForPurge(i)
     /\ arch = "apply" /\ arch' = "query" =>
          \A i \in Ids : state'[i] # state[i] => i \in archDirty \/ (i \in archPage /\ DueForArchival(i))
     /\ \A i \in Ids : Present(i) /\ state'[i] = "gone" =>
          i \in purgeDirty \/ (i \in purgePage /\ DueForPurge(i))
    ]_retentionVars

(* A memory that was brought back before purge came to it stays.  The code does not
   keep this: purge deletes the rows of its page without a look at them, a row that
   was restored after the page was read included (purge_processor.go:84-93). *)
RestoredRowsStay == [][\A i \in Ids : Present(i) /\ state'[i] = "gone" => state[i] = "deleted"]_retentionVars

(* docs/troubleshooting.md:261: purge "deletes `archived` memories older than 90 days".
   It does not: it asks for deleted rows (purge_processor.go:67). *)
ArchivedIsPurged == \A i \in Ids : []<>~(state[i] = "archived" /\ Owner[i] \in AllEntities)

(* What the two jobs hold is still what they read, row by row, unless others
   have written it. *)
PagesAreCurrent ==
  /\ \A i \in archPage \ archDirty : DueForArchival(i)
  /\ \A i \in purgePage \ purgeDirty : DueForPurge(i)

(* A stale row is archived in the end, or written by somebody. *)
StaleIsArchived == \A i \in Ids : []<>(state[i] # "stale")

(* A deleted row of an entity that still has memories leaves the database, when
   it has a deleted_at and fewer than BatchSize rows without one sort before it. *)
Unstamped(e) == {i \in RowsOf(e, "deleted") : i \notin stamped}
DeletedIsPurged ==
  \A i \in Ids :
    []<>~(/\ state[i] = "deleted"
          /\ i \in stamped
          /\ Owner[i] \in AllEntities
          /\ Cardinality(Unstamped(Owner[i])) < BatchSize)

(* Neither job leaves behind for good what it is for. *)
DueRowsAreTaken == StaleIsArchived /\ DeletedIsPurged

(* docs/architecture.md on purge: it "permanently deletes soft-deleted memories
   after retention period".  The decay job sets no deleted_at, and purge takes no
   row without one: what decay deletes stays in the database. *)
DecayedIsPurged ==
  \A i \in Ids : []<>~(state[i] = "deleted" /\ Owner[i] \in AllEntities)
=============================================================================
