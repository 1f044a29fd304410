------------------------------ MODULE DecayJob ------------------------------
(***************************************************************************)
(* jobs.DecayProcessor, among the requests that write the same rows.       *)
(*                                                                         *)
(* Process reads the decayable rows in pages (LIMIT, OFFSET, oldest first),*)
(* decides the new state of each row of a page from what it read, and      *)
(* writes the page's transitions in one call.  Nothing is locked between   *)
(* the read and the write, and the write is WHERE id = ?, so it does not   *)
(* see what a request did to the row in between.                           *)
(*                                                                         *)
(* A memory's id is its place in the order of created_at.  The decay       *)
(* factor is kept as the state that DetermineDecayState derives from it.   *)
(* The process stays up: the job keeps nothing across a restart, and       *)
(* MemoryStore has the restarts.                                           *)
(***************************************************************************)
EXTENDS MemoryStore

CONSTANTS
  BatchSize,       \* DecayJobConfig.BatchSize
  MaxDisturbances  \* bound: requests, and statements that fail, in a behaviour

ASSUME DecayAssumption ==
  /\ Ids \subseteq Nat /\ IsFiniteSet(Ids)
  /\ BatchSize \in Nat \ {0}
  /\ MaxDisturbances \in Nat

VARIABLES
  cron,     \* the rows with a cron: tag
  band,     \* what DetermineDecayState says of the row's decay factor now
  job,      \* "idle", "read" (about to read a page), "apply" (holds a page's transitions)
  offset,   \* Process's offset
  pageLen,  \* len(memories) of the page read last
  to,       \* the page's transitions: the new state of each id in its domain
  touched,  \* history: ids that a request wrote since the page was read
  disturbances  \* counts the requests and the failures so far

jobVars   == <<job, offset, pageLen, to>>
decayVars == <<storeVars, cron, band, jobVars, touched, disturbances>>

Bands  == {"active", "stale", "archived", "deleted"}
Cooler == [active |-> "stale", stale |-> "archived", archived |-> "deleted", deleted |-> "deleted"]

DecayTypeOK ==
  /\ StoreTypeOK
  /\ cron \subseteq Ids
  /\ band \in [Ids -> Bands]
  /\ job \in {"idle", "read", "apply"}
  /\ offset \in Nat
  /\ pageLen \in Nat
  /\ DOMAIN to \subseteq Ids
  /\ \A i \in DOMAIN to : to[i] \in Bands
  /\ touched \subseteq Ids
  /\ disturbances \in 0..MaxDisturbances

DecayInit ==
  /\ StoreInit
  /\ cron = {}
  /\ band = [i \in Ids |-> "active"]
  /\ job = "idle"
  /\ offset = 0
  /\ pageLen = 0
  /\ to = <<>>
  /\ touched = {}
  /\ disturbances = 0

-----------------------------------------------------------------------------
(* The job. *)

(* GetActiveMemoriesForDecay: the rows of rank `from' to `from' + BatchSize - 1
   among those decay may still move. *)
Rank(i)    == Cardinality({j \in SearchableIds : j < i})
Page(from) == {i \in SearchableIds : Rank(i) >= from /\ Rank(i) < from + BatchSize}

(* A slip: resolved memories are not kept back. *)
MovesWithoutFence(i) == i \notin cron /\ band[i] # state[i]

(* The fences of Process: a schedule never moves, a resolved memory moves only
   forward, any other row goes where its decay factor says. *)
Moves(i) ==
  /\ i \notin cron
  /\ band[i] # state[i]
  /\ state[i] = "resolved" => band[i] \in {"archived", "deleted"}

(* A slip: the offset of the last run is kept. *)
StartRunWhereLastEnded ==
  /\ job = "idle"
  /\ job' = "read"
  /\ pageLen' = 0
  /\ to' = <<>>
  /\ UNCHANGED <<storeVars, cron, band, offset, touched, disturbances>>

StartRun ==
  /\ job = "idle"
  /\ job' = "read"
  /\ offset' = 0
  /\ pageLen' = 0
  /\ to' = <<>>
  /\ UNCHANGED <<storeVars, cron, band, touched, disturbances>>

ReadPage ==
  /\ job = "read"
  /\ LET page == Page(offset)
     IN IF page = {}
        THEN /\ job' = "idle"
             /\ UNCHANGED <<pageLen, to>>
        ELSE /\ job' = "apply"
             /\ pageLen' = Cardinality(page)
             /\ to' = [i \in {j \in page : Moves(j)} |-> band[i]]
  /\ touched' = {}
  /\ UNCHANGED <<storeVars, cron, band, offset, disturbances>>

Disturb == disturbances < MaxDisturbances /\ disturbances' = disturbances + 1

(* The query fails: Process returns the error. *)
ReadFails ==
  /\ job = "read"
  /\ Disturb
  /\ job' = "idle"
  /\ UNCHANGED <<storeVars, cron, band, offset, pageLen, to, touched>>

(* A statement that fails inside the batch is skipped (`done' are those that do
   not), a commit that fails is logged: either way the job goes on. *)
ApplyPage(done, commits) ==
  /\ job = "apply"
  /\ done \subseteq DOMAIN to
  /\ BatchTransitionStates([i \in done |-> to[i]], commits)
  /\ offset' = offset + pageLen
  /\ job' = IF pageLen < BatchSize THEN "idle" ELSE "read"
  /\ pageLen' = 0
  /\ to' = <<>>
  /\ UNCHANGED <<cron, band, touched>>

ApplyWholePage == ApplyPage(DOMAIN to, TRUE) /\ UNCHANGED disturbances

ApplyPageFails ==
  \E done \in SUBSET DOMAIN to, commits \in BOOLEAN :
    /\ ApplyPage(done, commits)
    /\ done # DOMAIN to \/ ~commits
    /\ Disturb

JobGoesOn == StartRun \/ ReadPage \/ ApplyWholePage
JobStep   == JobGoesOn \/ ReadFails \/ ApplyPageFails

-----------------------------------------------------------------------------
(* The requests, each at any moment of the job. *)

Request(i) ==
  /\ Disturb
  /\ touched' = IF job = "apply" THEN touched \cup {i} ELSE touched
  /\ UNCHANGED jobVars

(* Remember, a seed that dates the memory back, or a new schedule. *)
Create(i, isSchedule, b) ==
  /\ Request(i)
  /\ CreateMemory(i)
  /\ cron' = IF isSchedule THEN cron \cup {i} ELSE cron \ {i}
  /\ band' = [band EXCEPT ![i] = b]

(* UpdateAccessStats for a search result: last_accessed_at is now. *)
Access(i) ==
  /\ Request(i)
  /\ Present(i)
  /\ band' = [band EXCEPT ![i] = "active"]
  /\ UNCHANGED <<storeVars, cron>>

(* UpdateTags, or UpdateSchedule's new tags. *)
SetTags(i, isSchedule) ==
  /\ Request(i)
  /\ Present(i)
  /\ cron' = IF isSchedule THEN cron \cup {i} ELSE cron \ {i}
  /\ UNCHANGED <<storeVars, band>>

(* Resolve, delete, UpdateSchedule and consolidation (active), the end of a
   schedule and a lost conflict (archived). *)
ChangeState(i) ==
  /\ Request(i)
  /\ \/ ResolveMemory(i)
     \/ SoftDelete(i)
     \/ HardDelete(i)
     \/ \E s \in {"active", "archived"} : UpdateMemoryState(i, s)
  /\ UNCHANGED <<cron, band>>

(* Time passes for one row; rows decay at their own rates. *)
Age(i) ==
  /\ Present(i)
  /\ band[i] # "deleted"
  /\ band' = [band EXCEPT ![i] = Cooler[@]]
  /\ UNCHANGED <<storeVars, cron, jobVars, touched, disturbances>>

Environment ==
  \E i \in Ids :
    \/ \E isSchedule \in BOOLEAN, b \in Bands : Create(i, isSchedule, b)
    \/ Access(i)
    \/ \E isSchedule \in BOOLEAN : SetTags(i, isSchedule)
    \/ ChangeState(i)
    \/ Age(i)

DecayNext == JobStep \/ Environment
DecaySpec == DecayInit /\ [][DecayNext]_decayVars

(* The scheduler's ticker starts a run every interval for as long as the
   process is up, and a run goes on while its statements succeed. *)
FairDecaySpec == DecaySpec /\ WF_decayVars(JobGoesOn)

-----------------------------------------------------------------------------
(* Properties. *)

Coolness == [active |-> 0, stale |-> 1, archived |-> 2, deleted |-> 3]

(* The edges of Process's fences. *)
Forward(from, s) ==
  \/ from \in {"active", "stale"} /\ s # from
  \/ from = "resolved" /\ s \in {"archived", "deleted"}

(* A row that no request wrote while the job held its page moves only along
   the fences: never a schedule, a resolved memory only forward, and never
   further than its decay factor has gone by the time of the write. *)
DecayFollowsFence ==
  [][job = "apply" /\ job' # "apply" =>
       \A i \in Ids \ touched : state'[i] # state[i] =>
         /\ i \notin cron
         /\ Forward(state[i], state'[i])
         /\ Coolness[state'[i]] <= Coolness[band[i]]]_decayVars

(* What the job holds: transitions of rows that nothing else wrote are still
   the ones that the fences allow. *)
PageIsCurrent ==
  job = "apply" =>
    \A i \in DOMAIN to \ touched :
      /\ i \notin cron
      /\ Forward(state[i], to[i])
      /\ Coolness[to[i]] <= Coolness[band[i]]

(* Once the requests and the failures stop, no row stays overdue: the pages
   move under the offset while the job empties them, and a row that one run
   skips is reached by a later one. *)
NoRowIsLeftBehind ==
  \A i \in Ids : []<>~(state[i] \in Searchable /\ Moves(i))

(* decay_processor.go says that resolved memories "can only move forward (to
   archived/deleted), never back to active or stale", to prevent "zombie"
   resurfacing.  The fence is checked on the row that was read: a memory that
   is resolved before the page is written is set back to active or stale. *)
ResolvedOnlyMovesForward ==
  [][job = "apply" /\ job' # "apply" =>
       \A i \in Ids : state[i] = "resolved" => state'[i] \notin {"active", "stale"}]_decayVars
=============================================================================
