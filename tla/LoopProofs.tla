------------------------------ MODULE LoopProofs ------------------------------
(***************************************************************************)
(* What runs by itself: the decay job, the scheduler that starts it, and   *)
(* the watcher.                                                            *)
(*                                                                         *)
(* The decay job, for any finite set of memories, any page size and any    *)
(* number of requests: it never does to the store what the store does not  *)
(* offer, and it moves the rows it has to itself along the fences only.    *)
(*                                                                         *)
(* jobs.Scheduler, for any set of job types and any bound on goroutines:   *)
(* two runs of a job type never overlap (that a run's type stays in        *)
(* s.running until the run is over is why nobody else starts one, and that *)
(* nobody else has it is why finish may take it out), and Stop waits for   *)
(* all it has to, for s.wg counts the goroutines.                          *)
(*                                                                         *)
(* The watcher, for any set of entities and any intervals: its deliveries  *)
(* are those of a circuit breaker, and what it tries in spite of that it   *)
(* tries in time; and a process has one loop, and none after Stop, for any *)
(* requests and any number of watchers.                                    *)
(***************************************************************************)
EXTENDS DecayJob, JobScheduler, Watcher, WatcherLife, MemoryStoreProofs, FiniteSetTheorems, TLAPS

-----------------------------------------------------------------------------
(* The decay job. *)

(* Every step of the job and of the requests is a step of the store, or leaves
   it alone, so that what holds of the store holds here. *)
LEMMA DecayStepsStore == DecayTypeOK /\ [DecayNext]_decayVars => [StoreNext]_storeVars
<1> SUFFICES ASSUME DecayTypeOK, [DecayNext]_decayVars PROVE [StoreNext]_storeVars
  OBVIOUS
<1>1. ASSUME NEW done, NEW commits \in BOOLEAN, ApplyPage(done, commits) PROVE BatchWrite
  <2>1. done \in SUBSET Ids
    BY <1>1 DEF ApplyPage, DecayTypeOK
  <2>2. [i \in done |-> to[i]] \in [done -> {"active", "stale", "archived", "deleted"}]
    BY <1>1 DEF ApplyPage, DecayTypeOK, Bands
  <2> QED
    BY <1>1, <2>1, <2>2 DEF ApplyPage, BatchWrite
<1>2. ASSUME NEW i \in Ids, ChangeState(i) PROVE Write
  BY <1>2 DEF ChangeState, Write
<1>3. CASE JobStep
  <2>1. CASE StartRun \/ ReadPage \/ ReadFails
    BY <2>1 DEF StartRun, ReadPage, ReadFails
  <2>2. CASE ApplyWholePage
    BY <2>2, <1>1 DEF ApplyWholePage, StoreNext
  <2>3. CASE ApplyPageFails
    BY <2>3, <1>1 DEF ApplyPageFails, StoreNext
  <2> QED
    BY <1>3, <2>1, <2>2, <2>3 DEF JobStep, JobGoesOn
<1>4. CASE Environment
  <2>1. ASSUME NEW i \in Ids, NEW c \in BOOLEAN, NEW b \in Bands, Create(i, c, b) PROVE Write
    BY <2>1 DEF Create, Write
  <2>2. ASSUME NEW i \in Ids, NEW c \in BOOLEAN, Access(i) \/ SetTags(i, c) \/ Age(i)
        PROVE  UNCHANGED storeVars
    BY <2>2 DEF Access, SetTags, Age
  <2> QED
    BY <1>2, <1>4, <2>1, <2>2 DEF Environment, StoreNext
<1>5. CASE UNCHANGED decayVars
  BY <1>5 DEF decayVars
<1> QED
  BY <1>3, <1>4, <1>5 DEF DecayNext

-----------------------------------------------------------------------------
(* Types. *)

LEMMA PageSize == ASSUME StoreTypeOK, NEW from PROVE Cardinality(Page(from)) \in Nat
<1>1. Page(from) \subseteq Ids
  BY DEF Page, SearchableIds
<1> QED
  BY <1>1, DecayAssumption, FS_Subset, FS_CardinalityType

LEMMA DecayTypeStep == DecayTypeOK /\ [DecayNext]_decayVars => DecayTypeOK'
<1> SUFFICES ASSUME DecayTypeOK, [DecayNext]_decayVars PROVE DecayTypeOK'
  OBVIOUS
<1>1. StoreTypeOK'
  BY DecayStepsStore, StoreTypeStep DEF DecayTypeOK
<1> DEFINE Rest == /\ cron \subseteq Ids
                   /\ band \in [Ids -> Bands]
                   /\ job \in {"idle", "read", "apply"}
                   /\ offset \in Nat
                   /\ pageLen \in Nat
                   /\ DOMAIN to \subseteq Ids
                   /\ \A i \in DOMAIN to : to[i] \in Bands
                   /\ touched \subseteq Ids
                   /\ disturbances \in 0..MaxDisturbances
<1>2. Rest
  BY DEF DecayTypeOK
<1> USE DecayAssumption
<1>3. ASSUME StartRun PROVE Rest'
  <2>1. DOMAIN to' = {}
    BY <1>3 DEF StartRun
  <2> QED
    BY <1>2, <1>3, <2>1 DEF StartRun
<1>4. ASSUME ReadPage PROVE Rest'
  <2>1. Page(offset) \subseteq Ids /\ Cardinality(Page(offset)) \in Nat
    BY PageSize DEF DecayTypeOK, Page, SearchableIds
  <2> QED
    BY <1>2, <1>4, <2>1 DEF ReadPage
<1>5. ASSUME ReadFails PROVE Rest'
  BY <1>2, <1>5 DEF ReadFails, Disturb
<1>6. ASSUME NEW done, NEW commits, ApplyPage(done, commits),
             disturbances' \in 0..MaxDisturbances
      PROVE  Rest'
  <2>1. DOMAIN to' = {}
    BY <1>6 DEF ApplyPage
  <2> QED
    BY <1>2, <1>6, <2>1 DEF ApplyPage
<1>7. ASSUME ApplyWholePage PROVE Rest'
  BY <1>2, <1>6, <1>7 DEF ApplyWholePage
<1>8. ASSUME ApplyPageFails PROVE Rest'
  <2>1. disturbances' \in 0..MaxDisturbances
    BY <1>2, <1>8 DEF ApplyPageFails, Disturb
  <2> QED
    BY <1>6, <1>8, <2>1 DEF ApplyPageFails
<1>9. ASSUME NEW i \in Ids, Request(i), cron' \subseteq Ids, band' \in [Ids -> Bands] PROVE Rest'
  BY <1>2, <1>9 DEF Request, Disturb, jobVars
<1>10. ASSUME NEW i \in Ids, NEW c \in BOOLEAN, NEW b \in Bands,
              Create(i, c, b) \/ SetTags(i, c) \/ ChangeState(i)
       PROVE  Rest'
  BY <1>2, <1>9, <1>10 DEF Create, SetTags, ChangeState
<1>11. ASSUME NEW i \in Ids, Access(i) PROVE Rest'
  BY <1>2, <1>9, <1>11 DEF Access, Bands
<1>12. ASSUME NEW i \in Ids, Age(i) PROVE Rest'
  BY <1>2, <1>12 DEF Age, jobVars, Cooler, Bands
<1>13. ASSUME UNCHANGED decayVars PROVE Rest'
  BY <1>2, <1>13 DEF decayVars, jobVars
<1>14. Rest'
  <2> HIDE DEF Rest
  <2>1. CASE Environment
    BY <2>1, <1>10, <1>11, <1>12 DEF Environment, Bands
  <2> QED
    BY <2>1, <1>3, <1>4, <1>5, <1>7, <1>8, <1>13 DEF DecayNext, JobStep, JobGoesOn
<1> QED
  BY <1>1, <1>14 DEF DecayTypeOK

-----------------------------------------------------------------------------
(* The page. *)

DecayInv == DecayTypeOK /\ PageIsCurrent

(* A request writes one row, and marks it while the job holds a page. *)
LEMMA RequestKeepsPage ==
  ASSUME DecayInv, NEW i \in Ids, Request(i),
         \A j \in Ids \ {i} : state'[j] = state[j] /\ band'[j] = band[j],
         cron' \ {i} \subseteq cron
  PROVE  PageIsCurrent'
<1> SUFFICES ASSUME job' = "apply", NEW j \in DOMAIN to' \ touched'
             PROVE  j \notin cron' /\ Forward(state'[j], to'[j]) /\ Coolness[to'[j]] <= Coolness[band'[j]]
  BY DEF PageIsCurrent
<1>1. job = "apply" /\ to' = to /\ touched' = touched \cup {i}
  BY DEF Request, jobVars
<1>2. j \in DOMAIN to \ touched /\ j # i /\ j \in Ids
  BY <1>1 DEF DecayInv, DecayTypeOK
<1>3. j \notin cron /\ Forward(state[j], to[j]) /\ Coolness[to[j]] <= Coolness[band[j]]
  BY <1>1, <1>2 DEF DecayInv, PageIsCurrent
<1> QED
  BY <1>1, <1>2, <1>3

LEMMA PageStep == DecayInv /\ [DecayNext]_decayVars => PageIsCurrent'
<1> SUFFICES ASSUME DecayInv, [DecayNext]_decayVars PROVE PageIsCurrent'
  OBVIOUS
<1>1. CASE StartRun \/ ReadFails \/ ApplyWholePage \/ ApplyPageFails
  <2>1. job' # "apply"
    BY <1>1 DEF StartRun, ReadFails, ApplyWholePage, ApplyPageFails, ApplyPage
  <2> QED
    BY <2>1 DEF PageIsCurrent
<1>2. CASE ReadPage
  <2> SUFFICES ASSUME job' = "apply", NEW i \in DOMAIN to'
               PROVE  i \notin cron' /\ Forward(state'[i], to'[i]) /\ Coolness[to'[i]] <= Coolness[band'[i]]
    BY DEF PageIsCurrent
  <2>1. /\ to' = [j \in {k \in Page(offset) : Moves(k)} |-> band[j]]
        /\ UNCHANGED <<state, cron, band>>
    BY <1>2 DEF ReadPage, storeVars
  <2>2. i \in Ids /\ state[i] \in Searchable /\ Moves(i) /\ to'[i] = band[i]
    BY <2>1 DEF Page, SearchableIds
  <2>3. band[i] \in Bands
    BY <2>2 DEF DecayInv, DecayTypeOK
  <2> QED
    BY <2>1, <2>2, <2>3 DEF Moves, Forward, Searchable, Bands, Coolness
<1>3. ASSUME NEW i \in Ids, NEW c \in BOOLEAN, NEW b \in Bands, Create(i, c, b)
      PROVE  PageIsCurrent'
  BY <1>3, RequestKeepsPage DEF Create, CreateMemory, DecayInv, DecayTypeOK, StoreTypeOK
<1>4. ASSUME NEW i \in Ids, Access(i) PROVE PageIsCurrent'
  BY <1>4, RequestKeepsPage DEF Access, storeVars, DecayInv, DecayTypeOK
<1>5. ASSUME NEW i \in Ids, NEW c \in BOOLEAN, SetTags(i, c) PROVE PageIsCurrent'
  BY <1>5, RequestKeepsPage DEF SetTags, storeVars
<1>6. ASSUME NEW i \in Ids, ChangeState(i) PROVE PageIsCurrent'
  <2>1. \A j \in Ids \ {i} : state'[j] = state[j]
    BY <1>6 DEF ChangeState, ResolveMemory, SoftDelete, HardDelete, UpdateMemoryState,
                rowVars, DecayInv, DecayTypeOK, StoreTypeOK
  <2> QED
    BY <1>6, <2>1, RequestKeepsPage DEF ChangeState
<1>7. ASSUME NEW i \in Ids, Age(i) PROVE PageIsCurrent'
  <2> SUFFICES ASSUME job' = "apply", NEW j \in DOMAIN to' \ touched'
               PROVE  j \notin cron' /\ Forward(state'[j], to'[j]) /\ Coolness[to'[j]] <= Coolness[band'[j]]
    BY DEF PageIsCurrent
  <2>1. UNCHANGED <<state, cron, job, to, touched>> /\ j \in Ids
    BY <1>7 DEF Age, storeVars, jobVars, DecayInv, DecayTypeOK
  <2>2. j \notin cron /\ Forward(state[j], to[j]) /\ Coolness[to[j]] <= Coolness[band[j]]
    BY <2>1 DEF DecayInv, PageIsCurrent
  <2>3. to[j] \in Bands /\ band[j] \in Bands
    BY <2>1 DEF DecayInv, DecayTypeOK
  <2>4. band'[j] = band[j] \/ band'[j] = Cooler[band[j]]
    BY <1>7, <2>1 DEF Age, DecayInv, DecayTypeOK
  <2>5. Coolness[to[j]] <= Coolness[band'[j]]
    BY <2>2, <2>3, <2>4 DEF Bands, Cooler, Coolness
  <2> QED
    BY <2>1, <2>2, <2>5
<1>8. CASE UNCHANGED decayVars
  BY <1>8 DEF decayVars, jobVars, storeVars, DecayInv, PageIsCurrent
<1> QED
  BY <1>1, <1>2, <1>3, <1>4, <1>5, <1>6, <1>7, <1>8
  DEF DecayNext, JobStep, JobGoesOn, Environment

LEMMA AlwaysDecayInv == DecaySpec => []DecayInv
<1>1. DecayInit => DecayInv
  <2> SUFFICES ASSUME DecayInit PROVE DecayInv
    OBVIOUS
  <2>1. StoreTypeOK
    BY DEF DecayInit, StoreInit, StoreTypeOK
  <2>2. DOMAIN to = {} /\ 0 \in 0..MaxDisturbances
    BY DecayAssumption DEF DecayInit
  <2> QED
    BY <2>1, <2>2 DEF DecayInit, DecayInv, DecayTypeOK, PageIsCurrent, Bands
<1>2. DecayInv /\ [DecayNext]_decayVars => DecayInv'
  BY DecayTypeStep, PageStep DEF DecayInv
<1> QED
  BY <1>1, <1>2, PTL DEF DecaySpec

-----------------------------------------------------------------------------
(* The job's and the requests' state keeps its types. *)
THEOREM DecayTypes == DecaySpec => []DecayTypeOK
<1>1. DecayInv => DecayTypeOK
  BY DEF DecayInv
<1> QED  BY <1>1, AlwaysDecayInv, PTL

(* What Process decided from a page stays right for every row that no request
   wrote since the page was read. *)
THEOREM HeldPagesAreCurrent == DecaySpec => []PageIsCurrent
<1>1. DecayInv => PageIsCurrent
  BY DEF DecayInv
<1> QED  BY <1>1, AlwaysDecayInv, PTL

(* Process's write, whether it succeeds in whole, in part or not at all, moves a
   row that no request wrote only along the fences: no schedule, no resolved
   memory backward, nothing further than it has decayed. *)
THEOREM FencesHold == DecaySpec => DecayFollowsFence
<1>1. DecayInv /\ [DecayNext]_decayVars =>
        (job = "apply" /\ job' # "apply" =>
           \A i \in Ids \ touched : state'[i] # state[i] =>
             /\ i \notin cron
             /\ Forward(state[i], state'[i])
             /\ Coolness[state'[i]] <= Coolness[band[i]])
  <2> SUFFICES ASSUME DecayInv, [DecayNext]_decayVars, job = "apply", job' # "apply",
                      NEW i \in Ids \ touched, state'[i] # state[i]
               PROVE  /\ i \notin cron
                      /\ Forward(state[i], state'[i])
                      /\ Coolness[state'[i]] <= Coolness[band[i]]
    OBVIOUS
  <2>1. PICK done, commits : ApplyPage(done, commits)
    <3>1. ~StartRun /\ ~ReadPage /\ ~ReadFails
      BY DEF StartRun, ReadPage, ReadFails
    <3>2. ~Environment
      BY DEF Environment, Create, Access, SetTags, ChangeState, Age, Request, jobVars
    <3>3. ~UNCHANGED decayVars
      BY DEF decayVars, jobVars
    <3> QED
      BY <3>1, <3>2, <3>3 DEF DecayNext, JobStep, JobGoesOn, ApplyWholePage, ApplyPageFails
  <2>2. i \in DOMAIN to /\ state'[i] = to[i]
    BY <2>1 DEF ApplyPage, BatchTransitionStates, DecayInv, DecayTypeOK, StoreTypeOK
  <2> QED
    BY <2>2 DEF DecayInv, PageIsCurrent
<1> QED
  BY <1>1, AlwaysDecayInv, PTL DEF DecaySpec, DecayFollowsFence

(* The job and the requests only do what the store offers: its theorems, such as
   NoVectorLost, hold of them. *)
THEOREM DecayImplementsStore == DecaySpec => StoreSpec
<1>1. DecayInit => StoreInit
  BY DEF DecayInit
<1> QED
  BY <1>1, DecayStepsStore, DecayTypes, PTL DEF DecaySpec, StoreSpec

-----------------------------------------------------------------------------
(* The scheduler. *)

SchedulerInv == SchedulerTypeOK /\ OneRunPerType /\ NoLostClaim

LEMMA SchedulerInvStarts == SchedulerInit => SchedulerInv
<1> SUFFICES ASSUME SchedulerInit PROVE SchedulerInv
  OBVIOUS
<1>1. SchedulerTypeOK
  <2>1. Cardinality(Scheduled) \in Int
    BY SchedulerAssumption, FS_Subset, FS_CardinalityType
  <2> QED  BY <2>1 DEF SchedulerInit, SchedulerTypeOK
<1>2. OneRunPerType /\ NoLostClaim
  BY DEF SchedulerInit, OneRunPerType, NoLostClaim
<1> QED  BY <1>1, <1>2 DEF SchedulerInv

LEMMA SchedulerInvKept == SchedulerInv /\ [SchedulerNext]_schedVars => SchedulerInv'
<1> SUFFICES ASSUME SchedulerInv, [SchedulerNext]_schedVars PROVE SchedulerInv'
  OBVIOUS
<1> USE SchedulerAssumption DEF SchedulerInv, SchedulerTypeOK, OneRunPerType, NoLostClaim
<1>1. CASE UNCHANGED schedVars
  BY <1>1 DEF schedVars
<1>2. ASSUME NEW t \in Jobs, Tick(t) PROVE SchedulerInv'
  BY <1>2 DEF Tick
<1>3. ASSUME NEW t \in Jobs, TakeTick(t) PROVE SchedulerInv'
  <2>1. CASE t \in running
    BY <1>3, <2>1 DEF TakeTick
  <2>2. CASE t \notin running
    BY <1>3, <2>2 DEF TakeTick
  <2> QED  BY <2>1, <2>2
<1>4. ASSUME NEW t \in Jobs, TimerLaunch(t) PROVE SchedulerInv'
  BY <1>4 DEF TimerLaunch, Launch
<1>5. ASSUME NEW t \in Jobs, TimerQuit(t) PROVE SchedulerInv'
  BY <1>5 DEF TimerQuit
<1>6. ASSUME NEW t \in Jobs, RunNowClaim(t) PROVE SchedulerInv'
  BY <1>6 DEF RunNowClaim
<1>7. ASSUME NEW t \in Jobs, RunNowLaunch(t) PROVE SchedulerInv'
  BY <1>7 DEF RunNowLaunch, Launch
<1>8. ASSUME NEW t \in Jobs, Finish(t) PROVE SchedulerInv'
  BY <1>8 DEF Finish
<1>9. ASSUME NEW t \in Jobs, Done(t) PROVE SchedulerInv'
  BY <1>9 DEF Done
<1>10. CASE Stop \/ CloseStore
  BY <1>10 DEF Stop, Cancel, StopTickers, WaitReturns, WaitTimesOut, CloseStore
<1> QED
  BY <1>1, <1>2, <1>3, <1>4, <1>5, <1>6, <1>7, <1>8, <1>9, <1>10
  DEF SchedulerNext, TimerStep, RunNow, RunStep

LEMMA SchedulerInvHolds == SchedulerSpec => []SchedulerInv
BY SchedulerInvStarts, SchedulerInvKept, PTL DEF SchedulerSpec

(* Two runs of a job type never overlap: tryStart and finish keep every
   execution, and every claim of one, to one owner per type. *)
THEOREM RunsDoNotOverlap == SchedulerSpec => []OneRunPerType
<1>1. SchedulerInv => OneRunPerType
  BY DEF SchedulerInv
<1> QED  BY <1>1, SchedulerInvHolds, PTL

(* A type in s.running has an owner that will take it out again: finish is never
   skipped, so no job type is locked out for good. *)
THEOREM ClaimsAreReleased == SchedulerSpec => []NoLostClaim
<1>1. SchedulerInv => NoLostClaim
  BY DEF SchedulerInv
<1> QED  BY <1>1, SchedulerInvHolds, PTL

(* The scheduler's state keeps its types. *)
THEOREM SchedulerTypes == SchedulerSpec => []SchedulerTypeOK
<1>1. SchedulerInv => SchedulerTypeOK
  BY DEF SchedulerInv
<1> QED  BY <1>1, SchedulerInvHolds, PTL

-----------------------------------------------------------------------------
(* The wait group counts the timers that have not returned and the goroutines of runs,
   so that it is zero only when there is none of them. *)
TimersUp == {t \in Jobs : timer[t] \in {"wait", "claimed"}}
RunsUp   == {r \in Jobs \X (1 .. MaxRuns) : r[2] <= exec[r[1]] + leaving[r[1]]}

Counted ==
  /\ \A t \in Jobs : exec[t] + leaving[t] <= MaxRuns
  /\ wg = Cardinality(TimersUp) + Cardinality(RunsUp)

LEMMA BothFinite ==
  /\ IsFiniteSet(TimersUp) /\ IsFiniteSet(RunsUp)
  /\ Cardinality(TimersUp) \in Nat /\ Cardinality(RunsUp) \in Nat
<1>1. IsFiniteSet(Jobs) /\ IsFiniteSet(1 .. MaxRuns)
  BY SchedulerAssumption, FS_Interval
<1>2. IsFiniteSet(TimersUp)
  BY <1>1, FS_Subset DEF TimersUp
<1>3. IsFiniteSet(Jobs \X (1 .. MaxRuns))
  BY <1>1, FS_Product
<1>4. IsFiniteSet(RunsUp)
  BY <1>3, FS_Subset DEF RunsUp
<1> QED
  BY <1>2, <1>4, FS_CardinalityType

(* A goroutine that is launched, or returns, is one more or one less. *)
LEMMA OneMoreRun ==
  ASSUME SchedulerTypeOK, NEW t \in Jobs, Launch(t), leaving' = leaving
  PROVE  /\ Cardinality(RunsUp') = Cardinality(RunsUp) + 1
         /\ exec'[t] + leaving'[t] <= MaxRuns
<1> DEFINE n == exec[t] + leaving[t] + 1
<1>1. n \in 1 .. MaxRuns /\ \A u \in Jobs : exec'[u] = IF u = t THEN exec[u] + 1 ELSE exec[u]
  BY SchedulerAssumption DEF Launch, SchedulerTypeOK
<1>2. <<t, n>> \notin RunsUp
  BY DEF RunsUp, SchedulerTypeOK
<1>3. RunsUp' = RunsUp \cup {<<t, n>>}
  <2>1. ASSUME NEW r \in Jobs \X (1 .. MaxRuns)
        PROVE  r[2] <= exec'[r[1]] + leaving'[r[1]]
                 <=> r[2] <= exec[r[1]] + leaving[r[1]] \/ r = <<t, n>>
    <3>1. PICK u \in Jobs, k \in 1 .. MaxRuns : r = <<u, k>>
      OBVIOUS
    <3>2. exec[u] \in Nat /\ leaving[u] \in Nat
      BY DEF SchedulerTypeOK
    <3>3. CASE u = t
      BY <1>1, <3>1, <3>2, <3>3
    <3>4. CASE u # t
      BY <1>1, <3>1, <3>2, <3>4
    <3> QED
      BY <3>3, <3>4
  <2>2. <<t, n>> \in Jobs \X (1 .. MaxRuns)
    BY <1>1
  <2> QED
    BY <2>1, <2>2 DEF RunsUp
<1>4. Cardinality(RunsUp') = Cardinality(RunsUp) + 1
  BY <1>2, <1>3, BothFinite, FS_AddElement
<1>5. exec'[t] + leaving'[t] = n
  BY <1>1 DEF SchedulerTypeOK
<1> QED
  BY <1>1, <1>4, <1>5

LEMMA OneRunLess ==
  ASSUME SchedulerTypeOK, Counted, NEW t \in Jobs, Done(t)
  PROVE  Cardinality(RunsUp') = Cardinality(RunsUp) - 1
<1> DEFINE n == exec[t] + leaving[t]
<1>1. n \in 1 .. MaxRuns /\ exec' = exec
      /\ \A u \in Jobs : leaving'[u] = IF u = t THEN leaving[u] - 1 ELSE leaving[u]
  BY SchedulerAssumption DEF Done, SchedulerTypeOK, Counted
<1>2. <<t, n>> \in RunsUp
  BY <1>1 DEF RunsUp
<1>3. RunsUp' = RunsUp \ {<<t, n>>}
  <2>1. ASSUME NEW r \in Jobs \X (1 .. MaxRuns)
        PROVE  r[2] <= exec'[r[1]] + leaving'[r[1]]
                 <=> r[2] <= exec[r[1]] + leaving[r[1]] /\ r # <<t, n>>
    <3>1. PICK u \in Jobs, k \in 1 .. MaxRuns : r = <<u, k>>
      OBVIOUS
    <3>2. exec[u] \in Nat /\ leaving[u] \in Nat
      BY DEF SchedulerTypeOK
    <3>3. CASE u = t
      BY <1>1, <3>1, <3>2, <3>3
    <3>4. CASE u # t
      BY <1>1, <3>1, <3>2, <3>4
    <3> QED
      BY <3>3, <3>4
  <2> QED
    BY <2>1 DEF RunsUp
<1> QED
  BY <1>2, <1>3, BothFinite, FS_RemoveElement

LEMMA InitCounted == SchedulerInit => Counted
<1> SUFFICES ASSUME SchedulerInit PROVE Counted
  OBVIOUS
<1>1. TimersUp = Scheduled
  BY SchedulerAssumption DEF SchedulerInit, TimersUp
<1>2. RunsUp = {}
  BY DEF SchedulerInit, RunsUp
<1>3. Cardinality(TimersUp) \in Nat
  BY BothFinite
<1> QED
  BY <1>1, <1>2, <1>3, FS_EmptySet, SchedulerAssumption DEF SchedulerInit, Counted

(* Between the launch and the end of a run the timers and the sums of both kinds of
   goroutine stay as they are. *)
LEMMA SameCount ==
  ASSUME Counted, TimersUp' = TimersUp, wg' = wg,
         \A t \in Jobs : exec'[t] + leaving'[t] = exec[t] + leaving[t]
  PROVE  Counted'
<1>1. RunsUp' = RunsUp
  BY DEF RunsUp
<1> QED
  BY <1>1 DEF Counted

LEMMA StepCounted == SchedulerInv /\ Counted /\ [SchedulerNext]_schedVars => Counted'
<1> SUFFICES ASSUME SchedulerInv, Counted, [SchedulerNext]_schedVars PROVE Counted'
  OBVIOUS
<1>1. CASE UNCHANGED schedVars
  BY <1>1, SameCount DEF schedVars, TimersUp
<1>2. CASE Stop \/ CloseStore
  BY <1>2, SameCount DEF Stop, Cancel, StopTickers, WaitReturns, WaitTimesOut, CloseStore, TimersUp
<1>3. ASSUME NEW t \in Jobs, Tick(t) \/ RunNowClaim(t)
      PROVE  Counted'
  BY <1>3, SameCount DEF Tick, RunNowClaim, TimersUp
<1>4. ASSUME NEW t \in Jobs, TakeTick(t)
      PROVE  Counted'
  <2>1. TimersUp' = TimersUp /\ UNCHANGED <<exec, leaving, wg>>
    BY <1>4 DEF TakeTick, TimersUp, SchedulerInv, SchedulerTypeOK
  <2> QED
    BY <2>1, SameCount
<1>5. ASSUME NEW t \in Jobs, Finish(t)
      PROVE  Counted'
  <2>1. \A u \in Jobs : exec'[u] + leaving'[u] = exec[u] + leaving[u]
    BY <1>5 DEF Finish, SchedulerInv, SchedulerTypeOK
  <2> QED
    BY <1>5, <2>1, SameCount DEF Finish, TimersUp
<1>6. ASSUME NEW t \in Jobs, TimerLaunch(t) \/ RunNowLaunch(t)
      PROVE  Counted'
  <2>1. Launch(t) /\ leaving' = leaving
    BY <1>6 DEF TimerLaunch, RunNowLaunch
  <2>2. TimersUp' = TimersUp
    BY <1>6 DEF TimerLaunch, RunNowLaunch, TimersUp, SchedulerInv, SchedulerTypeOK
  <2>3. Cardinality(RunsUp') = Cardinality(RunsUp) + 1 /\ exec'[t] + leaving'[t] <= MaxRuns
    BY <2>1, OneMoreRun DEF SchedulerInv
  <2>4. \A u \in Jobs : exec'[u] + leaving'[u] <= MaxRuns
    BY <2>1, <2>3 DEF Launch, Counted, SchedulerInv, SchedulerTypeOK
  <2>5. wg' = wg + 1
    BY <2>1 DEF Launch
  <2> QED
    BY <2>2, <2>3, <2>4, <2>5, BothFinite DEF Counted
<1>7. ASSUME NEW t \in Jobs, TimerQuit(t)
      PROVE  Counted'
  <2>1. TimersUp' = TimersUp \ {t} /\ t \in TimersUp /\ UNCHANGED <<exec, leaving>> /\ wg' = wg - 1
    BY <1>7 DEF TimerQuit, TimersUp, SchedulerInv, SchedulerTypeOK
  <2>2. RunsUp' = RunsUp
    BY <2>1 DEF RunsUp
  <2>3. Cardinality(TimersUp') = Cardinality(TimersUp) - 1
    BY <2>1, BothFinite, FS_RemoveElement
  <2> QED
    BY <2>1, <2>2, <2>3, BothFinite DEF Counted
<1>8. ASSUME NEW t \in Jobs, Done(t)
      PROVE  Counted'
  <2>1. Cardinality(RunsUp') = Cardinality(RunsUp) - 1
    BY <1>8, OneRunLess DEF SchedulerInv
  <2>2. TimersUp' = TimersUp /\ wg' = wg - 1
    BY <1>8 DEF Done, TimersUp
  <2>3. \A u \in Jobs : exec'[u] + leaving'[u] <= exec[u] + leaving[u]
    BY <1>8 DEF Done, SchedulerInv, SchedulerTypeOK
  <2>4. \A u \in Jobs : exec'[u] + leaving'[u] <= MaxRuns
    BY <1>8, <2>3, SchedulerAssumption DEF Counted, Done, SchedulerInv, SchedulerTypeOK
  <2> QED
    BY <2>1, <2>2, <2>4, BothFinite DEF Counted
<1> QED
  BY <1>1, <1>2, <1>3, <1>4, <1>5, <1>6, <1>7, <1>8 DEF SchedulerNext, TimerStep, RunNow, RunStep

LEMMA ZeroMeansNone ==
  ASSUME SchedulerInv, Counted, wg = 0, NEW t \in Jobs
  PROVE  timer[t] \in {"none", "quit"} /\ exec[t] + leaving[t] = 0
<1>1. TimersUp = {} /\ RunsUp = {}
  BY BothFinite, FS_EmptySet DEF Counted
<1>2. timer[t] \in {"none", "quit"}
  BY <1>1 DEF TimersUp, SchedulerInv, SchedulerTypeOK
<1>3. exec[t] \in Nat /\ leaving[t] \in Nat
  BY DEF SchedulerInv, SchedulerTypeOK
<1>4. CASE exec[t] + leaving[t] > 0
  <2>1. <<t, 1>> \in RunsUp
    BY <1>3, <1>4, SchedulerAssumption DEF RunsUp
  <2> QED
    BY <1>1, <2>1
<1> QED
  BY <1>2, <1>3, <1>4

(* When Stop is done waiting without having timed out, every timer has returned and
   every run is over, but for those that RunNow launched since: wg.Wait is not passed
   while a timer or a run that it has to wait for is left, whatever the order of ticks,
   launches and the end of the runs. *)
THEOREM StopWaitsForAll == SchedulerSpec => []GracefulStopIsQuiet
<1>1. SchedulerInit => GracefulStopIsQuiet
  BY DEF SchedulerInit, GracefulStopIsQuiet
<1>2. SchedulerInv /\ Counted /\ GracefulStopIsQuiet /\ [SchedulerNext]_schedVars => GracefulStopIsQuiet'
  <2> SUFFICES ASSUME SchedulerInv, Counted, GracefulStopIsQuiet, [SchedulerNext]_schedVars, stopper' = "graceful",
                      NEW t \in Jobs
               PROVE  timer'[t] \in {"none", "quit"} /\ (exec'[t] + leaving'[t] > 0 => t \in late')
    BY DEF GracefulStopIsQuiet
  <2>1. CASE WaitReturns
    BY <2>1, ZeroMeansNone DEF WaitReturns
  <2>2. CASE ~WaitReturns
    <3>1. stopper = "graceful" /\ UNCHANGED stopper
      BY <2>2 DEF SchedulerNext, schedVars, Tick, TimerStep, TakeTick, TimerLaunch, TimerQuit, RunNow,
                  RunNowClaim, RunNowLaunch, RunStep, Finish, Done, Stop, Cancel, StopTickers,
                  WaitTimesOut, CloseStore
    <3>2. /\ \A u \in Jobs : timer[u] \in {"none", "quit"}
          /\ \A u \in Jobs : exec[u] + leaving[u] > 0 => u \in late
          /\ exec \in [Jobs -> Nat] /\ leaving \in [Jobs -> Nat]
      BY <3>1 DEF GracefulStopIsQuiet, SchedulerInv, SchedulerTypeOK
    <3>3. CASE UNCHANGED <<timer, exec, leaving, late>>
      BY <3>2, <3>3
    <3>4. ASSUME NEW u \in Jobs, RunNowLaunch(u)
          PROVE  timer'[t] \in {"none", "quit"} /\ (exec'[t] + leaving'[t] > 0 => t \in late')
      BY <3>1, <3>2, <3>4 DEF RunNowLaunch, Launch
    <3>5. ASSUME NEW u \in Jobs, Finish(u)
          PROVE  timer'[t] \in {"none", "quit"} /\ (exec'[t] + leaving'[t] > 0 => t \in late')
      BY <3>2, <3>5 DEF Finish
    <3>6. ASSUME NEW u \in Jobs, Done(u)
          PROVE  timer'[t] \in {"none", "quit"} /\ (exec'[t] + leaving'[t] > 0 => t \in late')
      BY <3>2, <3>6 DEF Done
    <3>7. ASSUME NEW u \in Jobs PROVE ~TimerStep(u)
      BY <3>2 DEF TimerStep, TakeTick, TimerLaunch, TimerQuit
    <3>8. \A u \in Jobs : Tick(u) \/ RunNowClaim(u) => UNCHANGED <<timer, exec, leaving, late>>
      BY DEF Tick, RunNowClaim
    <3>9. Stop \/ CloseStore \/ UNCHANGED schedVars => UNCHANGED <<timer, exec, leaving, late>>
      BY DEF Stop, Cancel, StopTickers, WaitReturns, WaitTimesOut, CloseStore, schedVars
    <3> QED
      BY <3>3, <3>4, <3>5, <3>6, <3>7, <3>8, <3>9 DEF SchedulerNext, RunNow, RunStep
  <2> QED
    BY <2>1, <2>2
<1> QED
  BY <1>1, <1>2, InitCounted, StepCounted, SchedulerInvStarts, SchedulerInvKept, PTL DEF SchedulerSpec

-----------------------------------------------------------------------------
(* The watcher. *)

(* What the breaker needs to know of the loop: the delivery under way is to
   somebody, and failures and their age stay where they are clipped. *)
Delivering ==
  /\ signal \in [Entities -> Tiers \cup {"none"}]
  /\ \/ delivery = Idle
     \/ delivery \in [to : Entities, tier : Tiers, took : Nat]
  /\ strikes \in 0 .. MaxStrikes
  /\ strikeAge \in 0 .. MaxCooloff

LEMMA BreakerBounds ==
  /\ Nobody \notin Entities
  /\ SuspendAfter \in Nat /\ SuspendAfter > 0 /\ MaxCooloff \in Nat /\ MaxCooloff > 0
  /\ MaxStrikes \in Nat /\ MaxStrikes >= SuspendAfter
  /\ MaxStrikes = SuspendAfter - 1 + MaxCooloff
BY WatcherAssumption DEF MaxStrikes

LEMMA BreakerInitially == WatcherInit => Delivering /\ Promise!BreakerInit
<1> SUFFICES ASSUME WatcherInit PROVE Delivering /\ Promise!BreakerInit
  OBVIOUS
<1> QED
  BY BreakerBounds DEF WatcherInit, Delivering, BreakerMode, Call, Promise!BreakerInit

(* Steps that concern neither the delivery nor the failures. *)
LEMMA BreakerRests ==
  ASSUME UNCHANGED <<delivery, strikes, strikeAge>>
  PROVE  UNCHANGED Promise!breakerVars
BY DEF Promise!breakerVars, BreakerMode, Call, Suspends

LEMMA BreakerStep ==
  Delivering /\ [WatcherNext]_vars => Delivering' /\ [Promise!BreakerNext]_(Promise!breakerVars)
<1> SUFFICES ASSUME Delivering, [WatcherNext]_vars
             PROVE  Delivering' /\ [Promise!BreakerNext]_(Promise!breakerVars)
  OBVIOUS
<1> USE BreakerBounds
<1> DEFINE Refines == [Promise!BreakerNext]_(Promise!breakerVars)
<1>1. ASSUME NEW e \in Entities, NEW tier \in Tiers \cup {"none"},
             SignalChanges(e, tier) \/ ReceiverChanges(e) \/ CheckFails(e) \/ CheckSkips(e)
      PROVE  Delivering' /\ Refines
  <2>1. UNCHANGED <<delivery, strikes, strikeAge>>
    BY <1>1 DEF SignalChanges, ReceiverChanges, CheckFails, CheckSkips, loop, stats
  <2>2. Delivering'
    BY <1>1, <2>1 DEF Delivering, Idle, SignalChanges, ReceiverChanges, CheckFails, CheckSkips, world
  <2> QED  BY <2>1, <2>2, BreakerRests
<1>2. ASSUME BeginRound \/ \E pace \in Paces : EndRound(pace) PROVE Delivering' /\ Refines
  <2>1. UNCHANGED <<delivery, strikes, strikeAge, signal>>
    BY <1>2 DEF BeginRound, EndRound, world, stats
  <2>2. Delivering'
    BY <2>1 DEF Delivering, Idle
  <2> QED  BY <2>1, <2>2, BreakerRests
<1>3. ASSUME NEW e \in Entities, CheckActs(e) PROVE Delivering' /\ Refines
  <2>1. delivery = Idle /\ UNCHANGED <<strikes, strikeAge, signal>> /\ signal[e] \in Tiers
    BY <1>3 DEF CheckActs, Checks, Delivering, Tiers
  <2>2. CASE delivery' = Idle
    <3>1. UNCHANGED <<delivery, strikes, strikeAge>>
      BY <2>1, <2>2
    <3> QED  BY <2>1, <3>1, BreakerRests DEF Delivering, Idle
  <2>3. CASE delivery' = [to |-> e, tier |-> signal[e], took |-> 0] /\ ~Suspends(signal[e])
    <3>1. delivery' # Idle
      BY <2>3 DEF Idle
    <3>2. Delivering'
      BY <2>1, <2>3 DEF Delivering
    <3>3. BreakerMode' = BreakerMode
      BY <2>1 DEF BreakerMode, Suspends
    <3>4. Call = "none"
      BY <2>1 DEF Call
    <3>5. CASE signal[e] = "immediate"
      BY <2>3, <3>1, <3>2, <3>3, <3>4, <3>5
      DEF Call, Promise!BreakerNext, Promise!Place
    <3>6. CASE signal[e] = "ordinary"
      <4>1. BreakerMode # "open"
        BY <2>3, <3>6 DEF BreakerMode
      <4>2. Call' = "ordinary"
        BY <2>3, <3>1, <3>6 DEF Call
      <4> QED
        BY <3>2, <3>3, <3>4, <4>1, <4>2 DEF Promise!BreakerNext, Promise!Place
    <3> QED  BY <2>1, <3>5, <3>6 DEF Tiers
  <2> QED
    BY <1>3, <2>1, <2>2, <2>3 DEF CheckActs
<1>4. ASSUME NEW e \in Entities, Delivered(e) \/ NothingToSay(e) PROVE Delivering' /\ Refines
  <2>1. delivery.to = e /\ delivery' = Idle /\ strikes' = 0 /\ UNCHANGED <<strikeAge, signal>>
    BY <1>4 DEF Delivered, NothingToSay, world
  <2>2. Call # "none" /\ Call' = "none" /\ BreakerMode' = "closed"
    BY <2>1 DEF Call, BreakerMode, Idle
  <2>3. Delivering'
    BY <2>1 DEF Delivering
  <2> QED
    BY <2>2, <2>3 DEF Promise!BreakerNext, Promise!Succeed
<1>5. ASSUME NEW e \in Entities, DeliveryFails(e) PROVE Delivering' /\ Refines
  <2>1. /\ delivery.to = e /\ delivery' = Idle
        /\ strikes' = ClipTo(strikes + 1, MaxStrikes) /\ strikeAge' = 0 /\ UNCHANGED signal
    BY <1>5 DEF DeliveryFails, world
  <2>2. Call # "none" /\ Call' = "none"
    BY <2>1 DEF Call, Idle
  <2>3. Delivering'
    BY <2>1 DEF Delivering, ClipTo
  <2>4. strikes' >= SuspendAfter => BreakerMode' = "open"
    BY <2>1 DEF BreakerMode, Suspends, Delivering, ClipTo
  <2>5. BreakerMode' \in {"closed", "open"}
    BY <2>3, <2>4 DEF BreakerMode, Delivering
  <2>6. BreakerMode # "closed" => strikes' >= SuspendAfter
    BY <2>1 DEF BreakerMode, Delivering, ClipTo
  <2> QED
    BY <2>2, <2>3, <2>4, <2>5, <2>6 DEF Promise!BreakerNext, Promise!Fail
<1>6. ASSUME WatcherTick PROVE Delivering' /\ Refines
  <2>1. /\ delivery' = IF delivery = Idle THEN Idle ELSE [delivery EXCEPT !.took = @ + 1]
        /\ strikeAge' = ClipTo(strikeAge + 1, MaxCooloff) /\ UNCHANGED <<strikes, signal>>
    BY <1>6 DEF WatcherTick
  <2>2. Delivering'
    BY <2>1 DEF Delivering, ClipTo
  <2>3. Call' = Call
    BY <2>1 DEF Call, Delivering, Idle
  <2>4. BreakerMode' # BreakerMode => BreakerMode = "open" /\ BreakerMode' = "half"
    BY <2>1 DEF BreakerMode, Suspends, Delivering, ClipTo
  <2> QED
    BY <2>2, <2>3, <2>4 DEF Promise!BreakerNext, Promise!CoolOff, Promise!breakerVars
<1>7. CASE UNCHANGED vars
  <2>1. UNCHANGED <<delivery, strikes, strikeAge, signal>>
    BY <1>7 DEF vars, world, loop, stats
  <2> QED  BY <2>1, BreakerRests DEF Delivering, Idle
<1> QED
  BY <1>1, <1>2, <1>3, <1>4, <1>5, <1>6, <1>7 DEF WatcherNext, LoopStep

(* The refinement: whatever the entities, the intervals and the way in which
   deliveries fail, checkAll suspends and resumes them as the breaker does. *)
THEOREM WatcherIsABreaker == WatcherSpec => ObeysTheBreaker
BY BreakerInitially, BreakerStep, PTL DEF WatcherSpec, ObeysTheBreaker, Promise!BreakerSpec
-----------------------------------------------------------------------------
(* How long the watcher may take to come to a deadline. *)

(* What the entities of a round may take, and the bound after some events. *)
Work(E)  == Cardinality(E) * Timeout
Limit(n) == StaleImmediate + (n + 1) * LongestRound

LEMMA TimesAre ==
  /\ {BaseInterval, MinInterval, MaxInterval} \subseteq Nat \ {0} /\ MinInterval <= MaxInterval
  /\ Timeout \in Nat /\ StaleImmediate \in Nat /\ Cooldown \in Nat /\ MaxEvents \in Nat /\ SuspendAfter \in Nat \ {0}
  /\ LongestInterval \in Nat /\ BaseInterval <= LongestInterval /\ MaxInterval <= LongestInterval
  /\ Work(Entities) \in Nat /\ LongestRound = LongestInterval + Work(Entities) /\ LongestRound \in Nat
  /\ MaxWait \in Nat
<1>1. Cardinality(Entities) \in Nat
  BY WatcherAssumption, FS_CardinalityType
<1>2. LongestInterval \in Nat /\ BaseInterval <= LongestInterval /\ MaxInterval <= LongestInterval
  BY WatcherAssumption DEF LongestInterval
<1>3. Work(Entities) \in Nat
  BY <1>1, WatcherAssumption DEF Work
<1>4. LongestRound = LongestInterval + Work(Entities) /\ LongestRound \in Nat
  BY <1>2, <1>3 DEF LongestRound, Work
<1>5. MaxWait \in Nat
  <2>1. (MaxEvents + 1) * LongestRound \in Nat
    BY <1>4, WatcherAssumption
  <2> QED
    BY <2>1, WatcherAssumption DEF MaxWait
<1> QED
  BY <1>2, <1>3, <1>4, <1>5, WatcherAssumption

LEMMA WorkOfSome ==
  ASSUME NEW E \in SUBSET Entities
  PROVE  /\ Work(E) \in Nat /\ Work(E) <= Work(Entities)
         /\ \A e \in Entities \ E : Work(E) + Timeout <= Work(Entities)
         /\ \A e \in E : Work(E \ {e}) \in Nat /\ Work(E) = Work(E \ {e}) + Timeout
         /\ E = {} => Work(E) = 0
<1>1. IsFiniteSet(E) /\ Cardinality(E) \in Nat /\ IsFiniteSet(Entities) /\ Cardinality(Entities) \in Nat
  BY WatcherAssumption, FS_Subset, FS_CardinalityType
<1>2. Cardinality(E) <= Cardinality(Entities)
  BY <1>1, FS_Subset
<1>3. ASSUME NEW e \in Entities \ E PROVE Work(E) + Timeout <= Work(Entities)
  <2>1. E \cup {e} \in SUBSET Entities /\ Cardinality(E \cup {e}) = Cardinality(E) + 1
    BY <1>1, FS_AddElement
  <2>2. Cardinality(E) + 1 <= Cardinality(Entities)
    BY <1>1, <2>1, FS_Subset
  <2>3. PICK k \in Nat : Cardinality(Entities) = Cardinality(E) + 1 + k
    <3>1. Cardinality(Entities) - Cardinality(E) - 1 \in Nat
      BY <1>1, <2>2
    <3> QED
      BY <1>1, <3>1
  <2>4. (Cardinality(E) + 1 + k) * Timeout = Cardinality(E) * Timeout + Timeout + k * Timeout
    BY <1>1, WatcherAssumption
  <2>5. k * Timeout \in Nat /\ Cardinality(E) * Timeout \in Nat
    BY <1>1, WatcherAssumption
  <2> QED
    BY <2>3, <2>4, <2>5, WatcherAssumption DEF Work
<1>4. ASSUME NEW e \in E PROVE Work(E \ {e}) \in Nat /\ Work(E) = Work(E \ {e}) + Timeout
  <2>1. PICK k \in Nat : Cardinality(E \ {e}) = k /\ Cardinality(E) = k + 1
    <3>1. Cardinality(E \ {e}) = Cardinality(E) - 1 /\ IsFiniteSet(E \ {e})
      BY <1>1, FS_RemoveElement
    <3>2. Cardinality(E \ {e}) \in Nat
      BY <3>1, FS_CardinalityType
    <3> QED
      BY <1>1, <3>1, <3>2
  <2>2. (k + 1) * Timeout = k * Timeout + Timeout /\ k * Timeout \in Nat
    BY WatcherAssumption
  <2> QED
    BY <2>1, <2>2 DEF Work
<1>5. Work(E) \in Nat
  BY <1>1, WatcherAssumption DEF Work
<1>6. Work(E) <= Work(Entities)
  <2>1. CASE E = Entities
    BY <1>5, <2>1, WatcherAssumption DEF Work
  <2>2. CASE E # Entities
    BY <1>3, <1>5, <2>2, TimesAre
  <2> QED
    BY <2>1, <2>2
<1>7. E = {} => Work(E) = 0
  BY FS_EmptySet, WatcherAssumption DEF Work
<1> QED
  BY <1>3, <1>4, <1>5, <1>6, <1>7

LEMMA Limits ==
  ASSUME NEW n \in Nat
  PROVE  /\ Limit(n) \in Nat /\ Limit(n + 1) = Limit(n) + LongestRound
         /\ n # 0 => StaleImmediate + 2 * LongestRound <= Limit(n)
         /\ StaleImmediate <= Limit(n)
<1>1. LongestRound \in Nat /\ StaleImmediate \in Nat
  BY TimesAre
<1>2. (n + 1 + 1) * LongestRound = (n + 1) * LongestRound + LongestRound
  BY <1>1
<1>3. (n + 1) * LongestRound \in Nat
  BY <1>1
<1>4. ASSUME n # 0 PROVE 2 * LongestRound <= (n + 1) * LongestRound
  <2>1. PICK k \in Nat : n = k + 1
    <3>1. n - 1 \in Nat
      BY <1>4
    <3> QED
      BY <3>1
  <2>2. (k + 2) * LongestRound = k * LongestRound + 2 * LongestRound /\ k * LongestRound \in Nat
    BY <1>1
  <2>3. n + 1 = k + 2
    BY <2>1
  <2> QED
    BY <1>1, <2>2, <2>3
<1> QED
  BY <1>1, <1>2, <1>3, <1>4 DEF Limit

(* The time until an entity is checked, if no check fails: the rest of the delivery
   under way, the timeouts of those that come first, and an interval if the entity has
   had its turn. *)
Remaining == IF delivery = Idle THEN 0 ELSE Timeout - delivery.took
Ahead(e) ==
  IF stage = "wait" THEN (IF rang THEN 0 ELSE timerIn) + Work(Entities) - Timeout
  ELSE Work(left) + Remaining - Timeout + (IF e \in left THEN 0 ELSE LongestInterval + Work(Entities))

WaitTypes ==
  /\ config \in [adaptive : BOOLEAN, delivers : BOOLEAN]
  /\ signal \in [Entities -> Tiers \cup {"none"}]
  /\ acted \in [Entities -> [tier : Tiers, left : Nat]]
  /\ \A e \in Entities : acted[e].tier = "immediate" => acted[e].left <= StaleImmediate
  /\ stage \in {"wait", "round"} /\ left \subseteq Entities /\ rang \in BOOLEAN
  /\ delivery = Idle \/ delivery \in [to : Entities, tier : Tiers, took : 0 .. Timeout]
  /\ strikes \in Nat
  /\ untried \in [Entities -> Nat \cup {NotSet}] /\ events \in Nat

TimerRuns ==
  /\ stage = "wait" => delivery = Idle /\ (~ rang => timerIn \in 1 .. LongestInterval)
  /\ ~ config.adaptive => timerIn \in 1 .. BaseInterval

(* An immediate signal that was not tried is one that an act has spoken of lately, or
   one that the loop will come to in time. *)
ComesUp(e) ==
  untried[e] # NotSet =>
    /\ signal[e] = "immediate" /\ events # 0
    /\ IF acted[e].tier = "immediate" /\ acted[e].left # 0
       THEN untried[e] + acted[e].left <= StaleImmediate
       ELSE untried[e] + Ahead(e) <= Limit(events)

WaitInv == WaitTypes /\ TimerRuns /\ \A e \in Entities : ComesUp(e)

LEMMA RemainingIs == WaitTypes => Remaining \in 0 .. Timeout
BY TimesAre DEF WaitTypes, Remaining, Idle

(* Whatever the loop is at, it comes to each entity within two rounds. *)
LEMMA AheadIs ==
  WaitTypes /\ TimerRuns => \A e \in Entities : Ahead(e) \in Nat /\ Ahead(e) <= 2 * LongestRound
<1> SUFFICES ASSUME WaitTypes, TimerRuns, NEW e \in Entities
             PROVE  Ahead(e) \in Nat /\ Ahead(e) <= 2 * LongestRound
  OBVIOUS
<1>1. Timeout <= Work(Entities)
  <2>1. Work({}) = 0 /\ {} \in SUBSET Entities
    BY WorkOfSome
  <2> QED
    BY <2>1, WorkOfSome, TimesAre
<1>2. CASE stage = "wait"
  BY <1>1, <1>2, TimesAre DEF Ahead, TimerRuns
<1>3. CASE stage # "wait"
  <2>1. left \in SUBSET Entities
    BY DEF WaitTypes
  <2>2. Work(left) \in Nat /\ Work(left) <= Work(Entities) /\ Remaining \in 0 .. Timeout
    BY <2>1, WorkOfSome, RemainingIs
  <2>3. CASE e \in left
    <3>1. Timeout <= Work(left)
      <4>1. Work(left \ {e}) \in Nat /\ Work(left) = Work(left \ {e}) + Timeout
        BY <2>1, <2>3, WorkOfSome
      <4> QED
        BY <4>1, TimesAre
    <3> QED
      BY <1>1, <1>3, <2>2, <2>3, <3>1, TimesAre DEF Ahead
  <2>4. CASE e \notin left
    <3>1. Work(left) + Timeout <= Work(Entities)
      BY <2>1, <2>4, WorkOfSome
    <3> QED
      BY <1>1, <1>3, <2>2, <2>4, <3>1, TimesAre DEF Ahead
  <2> QED
    BY <2>3, <2>4
<1> QED
  BY <1>2, <1>3

LEMMA AheadIsNext ==
  (WaitTypes /\ TimerRuns => \A e \in Entities : Ahead(e) \in Nat /\ Ahead(e) <= 2 * LongestRound)'
BY AheadIs, PTL

LEMMA IntervalIs ==
  ASSUME NEW pace \in Paces, strikes \in Nat
  PROVE  NextInterval(pace) \in 1 .. MaxInterval
<1>1. \A n \in Nat : Clamp(n) \in 1 .. MaxInterval
  BY TimesAre DEF Clamp
<1>2. ClipTo(strikes, 5) \in 0 .. 5
  BY DEF ClipTo
<1>3. 2 ^ ClipTo(strikes, 5) \in Nat
  <2>1. 2 ^ 0 \in Nat /\ 2 ^ 1 \in Nat /\ 2 ^ 2 \in Nat /\ 2 ^ 3 \in Nat /\ 2 ^ 4 \in Nat /\ 2 ^ 5 \in Nat
    OBVIOUS
  <2>2. ClipTo(strikes, 5) \in {0, 1, 2, 3, 4, 5}
    BY <1>2
  <2> QED
    BY <2>1, <2>2
<1>4. SignalMultiplier(seen) \in Nat /\ pace \in Nat
  BY WatcherAssumption DEF SignalMultiplier
<1>5. \A recent \in {1, 2} :
        (BaseInterval * recent * pace * SignalMultiplier(seen) * 2 ^ ClipTo(strikes, 5)) \div 8 \in Nat
  <2> SUFFICES ASSUME NEW recent \in {1, 2}
               PROVE (BaseInterval * recent * pace * SignalMultiplier(seen) * 2 ^ ClipTo(strikes, 5)) \div 8 \in Nat
    OBVIOUS
  <2>1. \A a, b \in Nat : a * b \in Nat /\ a \div 8 \in Nat
    OBVIOUS
  <2>2. BaseInterval * recent * pace \in Nat
    BY <1>4, <2>1, TimesAre
  <2>3. BaseInterval * recent * pace * SignalMultiplier(seen) \in Nat
    BY <1>4, <2>1, <2>2
  <2>4. BaseInterval * recent * pace * SignalMultiplier(seen) * 2 ^ ClipTo(strikes, 5) \in Nat
    BY <1>3, <2>1, <2>3
  <2> QED
    BY <2>1, <2>4
<1> QED
  BY <1>1, <1>5 DEF NextInterval

(* What leaves an entity alone and does not put off its turn. *)
LEMMA ComesSooner ==
  ASSUME WaitInv, WaitTypes', TimerRuns', NEW e \in Entities, events' \in {events, events + 1},
         untried'[e] = untried[e], signal'[e] = signal[e], acted'[e] = acted[e], Ahead(e)' <= Ahead(e)
  PROVE  ComesUp(e)'
<1>1. Ahead(e) \in Nat /\ Ahead(e)' \in Nat
  <2>1. Ahead(e) \in Nat
    BY AheadIs DEF WaitInv
  <2>2. Ahead(e)' \in Nat
    BY AheadIsNext
  <2> QED
    BY <2>1, <2>2
<1>2. events \in Nat /\ Limit(events) \in Nat /\ Limit(events') \in Nat /\ Limit(events) <= Limit(events')
  <2>1. events \in Nat
    BY DEF WaitInv, WaitTypes
  <2> QED
    BY <2>1, Limits, TimesAre
<1>3. untried[e] \in Nat \/ untried[e] = NotSet
  BY DEF WaitInv, WaitTypes
<1>4. ComesUp(e)
  BY DEF WaitInv
<1> QED
  BY <1>1, <1>2, <1>3, <1>4 DEF ComesUp

LEMMA WaitStarts == WatcherInit => WaitInv
<1> SUFFICES ASSUME WatcherInit PROVE WaitInv
  OBVIOUS
<1>1. WaitTypes
  BY TimesAre DEF WatcherInit, WaitTypes, Tiers, Unacted, NotSet
<1>2. TimerRuns
  <2>1. CASE config.adaptive
    <3>1. PICK pace \in Paces : timerIn = NextInterval(pace)
      BY <2>1 DEF WatcherInit
    <3>2. timerIn \in 1 .. MaxInterval
      BY <1>1, <3>1, IntervalIs DEF WaitTypes
    <3> QED
      BY <2>1, <3>2, TimesAre DEF WatcherInit, TimerRuns
  <2>2. CASE ~ config.adaptive
    BY <2>2, TimesAre DEF WatcherInit, TimerRuns
  <2> QED
    BY <2>1, <2>2
<1>3. \A e \in Entities : ComesUp(e)
  BY DEF WatcherInit, ComesUp
<1> QED
  BY <1>1, <1>2, <1>3 DEF WaitInv

(* The signals and the receiver. *)
LEMMA WorldKeepsWait ==
  ASSUME WaitInv, NEW x \in Entities, NEW tier \in Tiers \cup {"none"},
         SignalChanges(x, tier) \/ ReceiverChanges(x)
  PROVE  WaitInv'
<1>1. /\ events' = events + 1 /\ UNCHANGED <<config, acted, stage, left, delivery, timerIn, rang, strikes>>
      /\ \A e \in Entities \ {x} : untried'[e] = untried[e] /\ signal'[e] = signal[e]
  BY DEF SignalChanges, ReceiverChanges, Counts, loop, bell, stats, WaitInv, WaitTypes
<1>2. WaitTypes'
  BY <1>1 DEF SignalChanges, ReceiverChanges, WaitInv, WaitTypes, Idle
<1>3. TimerRuns'
  BY <1>1 DEF WaitInv, TimerRuns, Idle
<1>4. \A e \in Entities : Ahead(e)' = Ahead(e) /\ Ahead(e) \in Nat /\ Ahead(e) <= 2 * LongestRound
  BY <1>1, AheadIs DEF Ahead, Remaining, Idle, WaitInv
<1>5. ASSUME NEW e \in Entities, untried'[e] = untried[e], signal'[e] = signal[e] PROVE ComesUp(e)'
  BY <1>1, <1>2, <1>3, <1>4, <1>5, ComesSooner
<1>6. CASE ReceiverChanges(x)
  BY <1>2, <1>3, <1>5, <1>6 DEF ReceiverChanges, WaitInv
<1>7. CASE SignalChanges(x, tier)
  <2>1. untried'[x] = (IF tier = "immediate" THEN 0 ELSE NotSet) /\ signal'[x] = tier
    BY <1>7 DEF SignalChanges, WaitInv, WaitTypes
  <2>2. events \in Nat /\ Limit(events') \in Nat /\ 2 * LongestRound <= Limit(events') /\ events' # 0
    BY <1>1, Limits, TimesAre DEF WaitInv, WaitTypes
  <2>3. acted[x].left \in Nat /\ (acted[x].tier = "immediate" => acted[x].left <= StaleImmediate)
    BY DEF WaitInv, WaitTypes
  <2>4. ComesUp(x)'
    BY <1>1, <1>4, <2>1, <2>2, <2>3, TimesAre DEF ComesUp
  <2>5. \A e \in Entities : ComesUp(e)'
    BY <1>1, <1>5, <2>4
  <2> QED
    BY <1>2, <1>3, <2>5 DEF WaitInv
<1> QED
  BY <1>6, <1>7

(* An entity's turn: the others come sooner. *)
LEMMA TurnOf ==
  ASSUME WaitInv, NEW x \in Entities, Checks(x), UNCHANGED <<stage, bell>>,
         delivery' = Idle \/ delivery' \in [to : Entities, tier : Tiers, took : {0}]
  PROVE  /\ \A e \in Entities \ {x} : Ahead(e)' <= Ahead(e)
         /\ delivery' = Idle => Ahead(x)' <= Ahead(x) + LongestRound
<1>1. left \in SUBSET Entities /\ x \in left /\ left' = left \ {x} /\ stage = "round" /\ stage' = "round" /\ delivery = Idle
  BY DEF Checks, WaitInv, WaitTypes
<1>2. Remaining = 0 /\ Remaining' \in 0 .. Timeout /\ (delivery' = Idle => Remaining' = 0)
  BY <1>1, TimesAre DEF Remaining, Idle
<1>3. Work(left) \in Nat /\ Work(left') \in Nat /\ Work(left) = Work(left') + Timeout
  BY <1>1, WorkOfSome
<1>4. ASSUME NEW e \in Entities \ {x} PROVE Ahead(e)' <= Ahead(e)
  BY <1>1, <1>2, <1>3, TimesAre DEF Ahead
<1>5. delivery' = Idle => Ahead(x)' <= Ahead(x) + LongestRound
  BY <1>1, <1>2, <1>3, TimesAre DEF Ahead
<1> QED
  BY <1>4, <1>5

LEMMA ChecksKeepWait ==
  ASSUME WaitInv, NEW x \in Entities, CheckFails(x) \/ CheckSkips(x) \/ CheckActs(x)
  PROVE  WaitInv'
<1>1. /\ Checks(x) /\ UNCHANGED <<config, signal, stage, bell, timerIn, rang, strikes>>
      /\ events' \in {events, events + 1}
      /\ \A e \in Entities \ {x} : untried'[e] = untried[e] /\ acted'[e] = acted[e]
  BY DEF CheckFails, CheckSkips, CheckActs, Counts, world, bell, stats, WaitInv, WaitTypes
<1>2. stage = "round" /\ delivery = Idle /\ left \subseteq Entities /\ left' = left \ {x}
  BY <1>1 DEF Checks, WaitInv, WaitTypes
<1>3. delivery' = Idle \/ delivery' \in [to : Entities, tier : Tiers, took : {0}]
  BY <1>2 DEF CheckFails, CheckSkips, CheckActs, WaitInv, WaitTypes
<1>4. WaitTypes'
  <2>1. acted' \in [Entities -> [tier : Tiers, left : Nat]]
    BY TimesAre DEF CheckFails, CheckSkips, CheckActs, world, WaitInv, WaitTypes
  <2>2. \A e \in Entities : acted'[e].tier = "immediate" => acted'[e].left <= StaleImmediate
    BY <1>1, TimesAre DEF CheckFails, CheckSkips, CheckActs, world, WaitInv, WaitTypes
  <2>3. untried' \in [Entities -> Nat \cup {NotSet}]
    BY DEF CheckFails, CheckSkips, CheckActs, WaitInv, WaitTypes
  <2>4. delivery' = Idle \/ delivery' \in [to : Entities, tier : Tiers, took : 0 .. Timeout]
    BY <1>3, TimesAre
  <2> QED
    BY <1>1, <1>2, <2>1, <2>2, <2>3, <2>4 DEF WaitInv, WaitTypes
<1>5. TimerRuns'
  BY <1>1, <1>2 DEF WaitInv, TimerRuns
<1>6. /\ \A e \in Entities \ {x} : Ahead(e)' <= Ahead(e)
      /\ delivery' = Idle => Ahead(x)' <= Ahead(x) + LongestRound
  BY <1>1, <1>3, TurnOf
<1>7. ASSUME NEW e \in Entities \ {x} PROVE ComesUp(e)'
  BY <1>1, <1>4, <1>5, <1>6, ComesSooner
<1>8. ComesUp(x)'
  <2>1. ComesUp(x) /\ untried[x] \in Nat \cup {NotSet} /\ signal[x] \in Tiers \cup {"none"}
        /\ acted[x].tier \in Tiers /\ acted[x].left \in Nat /\ events \in Nat
    BY DEF WaitInv, WaitTypes
  <2>2. CASE CheckFails(x)
    <3>1. UNCHANGED <<untried, acted>> /\ events' = events + 1 /\ delivery' = Idle
      BY <1>2, <2>2 DEF CheckFails, Counts, world
    <3>2. Limit(events) \in Nat /\ Limit(events') = Limit(events) + LongestRound
      BY <2>1, <3>1, Limits
    <3>3. Ahead(x) \in Nat /\ Ahead(x)' \in Nat
      BY <1>4, <1>5, AheadIs, AheadIsNext DEF WaitInv
    <3> QED
      BY <1>1, <1>6, <2>1, <3>1, <3>2, <3>3, TimesAre DEF ComesUp
  <2>3. CASE CheckSkips(x)
    <3>1. UNCHANGED <<untried, acted, events>> /\ ~ MustAct(x)
      BY <2>3 DEF CheckSkips, world
    <3>2. untried[x] # NotSet => acted[x].tier = "immediate" /\ acted[x].left # 0
      BY <2>1, <3>1 DEF ComesUp, MustAct, Rested, Tiers
    <3> QED
      BY <1>1, <2>1, <3>1, <3>2 DEF ComesUp
  <2>4. CASE CheckActs(x)
    <3>1. signal[x] = "immediate" => ~ Suspends(signal[x])
      BY DEF Suspends
    <3>2. untried'[x] = NotSet
      BY <2>1, <2>4, <3>1 DEF CheckActs, ComesUp, WaitInv, WaitTypes
    <3> QED
      BY <3>2 DEF ComesUp
  <2> QED
    BY <2>2, <2>3, <2>4
<1> QED
  BY <1>4, <1>5, <1>7, <1>8 DEF WaitInv

(* A delivery ends. *)
LEMMA EndsKeepWait ==
  ASSUME WaitInv, NEW x \in Entities, Delivered(x) \/ NothingToSay(x) \/ DeliveryFails(x)
  PROVE  WaitInv'
<1>1. delivery' = Idle /\ strikes' \in Nat /\ UNCHANGED <<config, signal, acted, stage, left, timerIn, rang, events, untried>>
  <2>1. delivery' = Idle /\ UNCHANGED <<config, signal, acted, stage, left, timerIn, rang, events, untried>>
    BY DEF Delivered, NothingToSay, DeliveryFails, world, bell
  <2>2. strikes' = 0 \/ strikes' = ClipTo(strikes + 1, MaxStrikes)
    BY DEF Delivered, NothingToSay, DeliveryFails
  <2>3. strikes \in Nat
    BY DEF WaitInv, WaitTypes
  <2> QED
    BY <2>1, <2>2, <2>3, BreakerBounds DEF ClipTo
<1>2. WaitTypes'
  BY <1>1 DEF WaitInv, WaitTypes
<1>3. TimerRuns'
  BY <1>1 DEF WaitInv, TimerRuns
<1>4. \A e \in Entities : Ahead(e)' <= Ahead(e)
  <2> SUFFICES ASSUME NEW e \in Entities PROVE Ahead(e)' <= Ahead(e)
    OBVIOUS
  <2>1. Remaining' = 0 /\ Remaining \in 0 .. Timeout
    BY <1>1, RemainingIs DEF Remaining, WaitInv
  <2>2. Work(left) \in Nat /\ Ahead(e) \in Nat
    BY WorkOfSome, AheadIs DEF WaitInv, WaitTypes
  <2>3. CASE stage = "wait"
    BY <1>1, <2>2, <2>3 DEF Ahead
  <2>4. CASE stage # "wait"
    BY <1>1, <2>1, <2>2, <2>4, TimesAre DEF Ahead
  <2> QED
    BY <2>3, <2>4
<1>5. ASSUME NEW e \in Entities PROVE ComesUp(e)'
  BY <1>1, <1>2, <1>3, <1>4, ComesSooner
<1> QED
  BY <1>2, <1>3, <1>5 DEF WaitInv

(* A round begins, and ends. *)
LEMMA RoundsKeepWait ==
  ASSUME WaitInv, BeginRound \/ \E pace \in Paces : EndRound(pace)
  PROVE  WaitInv'
<1>1. delivery = Idle /\ UNCHANGED <<config, signal, acted, delivery, strikes, events, untried>>
  BY DEF BeginRound, EndRound, world, stats, WaitInv, TimerRuns
<1>2. WaitTypes'
  BY <1>1 DEF BeginRound, EndRound, WaitInv, WaitTypes
<1>3. TimerRuns'
  <2>1. CASE BeginRound
    BY <1>1, <2>1 DEF BeginRound, WaitInv, TimerRuns
  <2>2. ASSUME NEW pace \in Paces, EndRound(pace) PROVE TimerRuns'
    <3>1. NextInterval(pace) \in 1 .. MaxInterval
      BY IntervalIs DEF WaitInv, WaitTypes
    <3>2. timerIn' \in 1 .. LongestInterval
      BY <2>2, <3>1, TimesAre DEF EndRound, WaitInv, WaitTypes, TimerRuns
    <3>3. ~ config.adaptive => timerIn' \in 1 .. BaseInterval
      BY <2>2 DEF EndRound, WaitInv, TimerRuns
    <3> QED
      BY <1>1, <3>2, <3>3 DEF TimerRuns
  <2> QED
    BY <2>1, <2>2
<1>4. \A e \in Entities : Ahead(e)' <= Ahead(e)
  <2> SUFFICES ASSUME NEW e \in Entities PROVE Ahead(e)' <= Ahead(e)
    OBVIOUS
  <2>1. Remaining = 0 /\ Remaining' = 0
    BY <1>1 DEF Remaining
  <2>2. CASE BeginRound
    BY <2>1, <2>2, TimesAre DEF BeginRound, Ahead
  <2>3. ASSUME NEW pace \in Paces, EndRound(pace) PROVE Ahead(e)' <= Ahead(e)
    <3>1. stage = "round" /\ stage' = "wait" /\ left = {}
      BY <2>3 DEF EndRound
    <3>2. Work(left) = 0
      BY <3>1, WorkOfSome
    <3>3. Ahead(e) = 0 + 0 - Timeout + LongestInterval + Work(Entities)
      BY <2>1, <3>1, <3>2, TimesAre DEF Ahead
    <3>4. ~ rang' => timerIn' \in 1 .. LongestInterval
      BY <1>3, <3>1 DEF TimerRuns
    <3>5. rang' \in BOOLEAN
      BY <1>2 DEF WaitTypes
    <3> QED
      BY <3>1, <3>3, <3>4, <3>5, TimesAre DEF Ahead
  <2> QED
    BY <2>2, <2>3
<1>5. ASSUME NEW e \in Entities PROVE ComesUp(e)'
  BY <1>1, <1>2, <1>3, <1>4, ComesSooner
<1> QED
  BY <1>2, <1>3, <1>5 DEF WaitInv

(* Time passes: what is ahead comes nearer, and what is left of an act gets less. *)
LEMMA TickKeepsWait ==
  ASSUME WaitInv, WatcherTick
  PROVE  WaitInv'
<1>1. UNCHANGED <<config, signal, stage, left, strikes, events>>
  BY DEF WatcherTick
<1>2. /\ stage = "wait" => delivery = Idle /\ delivery' = Idle /\ rang = FALSE /\ timerIn \in 1 .. LongestInterval
      /\ stage # "wait" => /\ delivery # Idle /\ delivery.took < Timeout /\ delivery \in [to : Entities, tier : Tiers, took : 0 .. Timeout]
                           /\ delivery' = [delivery EXCEPT !.took = @ + 1]
  BY DEF WatcherTick, WaitInv, WaitTypes, TimerRuns
<1>3. delivery' = Idle \/ delivery' \in [to : Entities, tier : Tiers, took : 0 .. Timeout]
  BY <1>2, TimesAre
<1>4. /\ acted' \in [Entities -> [tier : Tiers, left : Nat]]
      /\ \A e \in Entities : /\ acted[e].left \in Nat /\ acted'[e].tier = acted[e].tier
                             /\ acted'[e].left = IF acted[e].left = 0 THEN 0 ELSE acted[e].left - 1
  <2>1. acted' = [e \in Entities |-> [acted[e] EXCEPT !.left = IF acted[e].left = 0 THEN 0 ELSE acted[e].left - 1]]
    BY DEF WatcherTick
  <2>2. ASSUME NEW e \in Entities
        PROVE  /\ acted[e].left \in Nat /\ acted'[e] \in [tier : Tiers, left : Nat] /\ acted'[e].tier = acted[e].tier
               /\ acted'[e].left = IF acted[e].left = 0 THEN 0 ELSE acted[e].left - 1
    <3>1. acted[e] \in [tier : Tiers, left : Nat]
      BY DEF WaitInv, WaitTypes
    <3>2. acted'[e] = [acted[e] EXCEPT !.left = IF acted[e].left = 0 THEN 0 ELSE acted[e].left - 1]
      BY <2>1
    <3> QED
      BY <3>1, <3>2
  <2> QED
    BY <2>1, <2>2
<1>5. /\ untried' \in [Entities -> Nat \cup {NotSet}]
      /\ \A e \in Entities : IF untried[e] = NotSet THEN untried'[e] = NotSet
                             ELSE untried[e] \in Nat /\ untried'[e] \in Nat /\ untried'[e] <= untried[e] + 1
  BY TimesAre DEF WatcherTick, ClipTo, WaitInv, WaitTypes
<1>6. rang' \in BOOLEAN
  BY DEF WatcherTick, Passes, WaitInv, WaitTypes
<1>7. WaitTypes'
  <2>1. \A e \in Entities : acted'[e].tier = "immediate" => acted'[e].left <= StaleImmediate
    BY <1>4, TimesAre DEF WaitInv, WaitTypes
  <2> QED
    BY <1>1, <1>3, <1>4, <1>5, <1>6, <2>1 DEF WaitInv, WaitTypes
<1>8. TimerRuns'
  <2>1. CASE timerIn # 1
    <3>1. timerIn' = (IF timerIn = NotSet THEN NotSet ELSE timerIn - 1) /\ rang' = rang
      BY <2>1 DEF WatcherTick, Passes
    <3> QED
      BY <1>1, <1>2, <2>1, <3>1, TimesAre DEF WaitInv, TimerRuns, NotSet
  <2>2. CASE timerIn = 1
    <3>1. timerIn' = (IF config.adaptive THEN NotSet ELSE BaseInterval) /\ rang' = TRUE
      BY <2>2 DEF WatcherTick, Passes
    <3> QED
      BY <1>1, <1>2, <3>1, TimesAre DEF WaitInv, TimerRuns
  <2> QED
    BY <2>1, <2>2
<1>9. ASSUME NEW e \in Entities PROVE Ahead(e)' <= Ahead(e) - 1
  <2>1. CASE stage = "wait"
    <3>1. (IF rang' THEN 0 ELSE timerIn') = timerIn - 1
      BY <1>2, <2>1 DEF WatcherTick, Passes, NotSet
    <3> QED
      BY <1>1, <1>2, <2>1, <3>1, TimesAre DEF Ahead
  <2>2. CASE stage # "wait"
    <3>1. Remaining \in Nat /\ Remaining' = Remaining - 1
      BY <1>2, <2>2, TimesAre DEF Remaining, Idle
    <3>2. Work(left) \in Nat
      BY WorkOfSome DEF WaitInv, WaitTypes
    <3> QED
      BY <1>1, <2>2, <3>1, <3>2, TimesAre DEF Ahead
  <2> QED
    BY <2>1, <2>2
<1>10. ASSUME NEW e \in Entities PROVE ComesUp(e)'
  <2>1. Ahead(e) \in Nat /\ Ahead(e)' \in Nat /\ Ahead(e)' <= 2 * LongestRound
    BY <1>7, <1>8, AheadIs, AheadIsNext DEF WaitInv
  <2>2. /\ events \in Nat /\ Limit(events) \in Nat
        /\ events # 0 => StaleImmediate + 2 * LongestRound <= Limit(events)
    BY Limits DEF WaitInv, WaitTypes
  <2>3. ComesUp(e)
    BY DEF WaitInv
  <2>4. CASE untried[e] = NotSet
    BY <1>5, <2>4 DEF ComesUp
  <2>5. CASE untried[e] # NotSet /\ acted[e].tier = "immediate" /\ acted[e].left # 0
    BY <1>1, <1>4, <1>5, <2>1, <2>2, <2>3, <2>5, TimesAre DEF ComesUp
  <2>6. CASE untried[e] # NotSet /\ ~ (acted[e].tier = "immediate" /\ acted[e].left # 0)
    BY <1>1, <1>4, <1>5, <1>9, <2>1, <2>2, <2>3, <2>6 DEF ComesUp
  <2> QED
    BY <2>4, <2>5, <2>6
<1> QED
  BY <1>7, <1>8, <1>10 DEF WaitInv

LEMMA WaitKept == WaitInv /\ [WatcherNext]_vars => WaitInv'
<1> SUFFICES ASSUME WaitInv, [WatcherNext]_vars PROVE WaitInv'
  OBVIOUS
<1>1. CASE UNCHANGED vars
  BY <1>1 DEF vars, world, loop, bell, stats, WaitInv, WaitTypes, TimerRuns, ComesUp, Ahead, Remaining
<1> QED
  BY <1>1, WorldKeepsWait, ChecksKeepWait, EndsKeepWait, RoundsKeepWait, TickKeepsWait DEF WatcherNext, LoopStep

(* However deliveries fail, and whatever the intervals, an immediate signal is tried
   within the longest interval, the timeouts of a round and the time for which checks do
   not repeat an immediate act; a failing check costs it a round (watcher.go: checkAll). *)
THEOREM DeadlinesInTime == WatcherSpec => []DeadlinesAreTriedInTime
<1>1. WaitInv => DeadlinesAreTriedInTime
  <2> SUFFICES ASSUME WaitInv, NEW e \in Entities PROVE untried[e] <= Limit(events)
    BY DEF DeadlinesAreTriedInTime, Limit
  <2>1. /\ Limit(events) \in Nat /\ StaleImmediate <= Limit(events) /\ Ahead(e) \in Nat
        /\ untried[e] \in Nat \cup {NotSet} /\ acted[e].left \in Nat /\ ComesUp(e)
    BY Limits, AheadIs DEF WaitInv, WaitTypes
  <2> QED
    BY <2>1, TimesAre DEF ComesUp, NotSet
<1> QED
  BY <1>1, WaitStarts, WaitKept, PTL DEF WatcherSpec

-----------------------------------------------------------------------------
(* WatcherLife. *)

(* Types, and what a handler or a loop knows at each place.  A watcher that was
   made has a number up to made, and room is left for the starts under way. *)
Making == {c \in Handlers : Starting(c) /\ request[c].pc # "run"}

Requested == [op : {"none", "start", "stop", "watch", "unwatch"},
              pc : {"free", "read", "stop", "wait", "make", "run", "do"},
              w : {NoWatcher} \cup Watchers, ids : SUBSET Watchable]

LifeTypes ==
  /\ made \in 0 .. MaxWatchers /\ requests \in 0 .. MaxRequests
  /\ current \in {NoWatcher} \cup 1 .. made
  /\ watched \in [Watchers -> SUBSET Watchable]
  /\ loops \in [Loops -> [pc : {"gone", "wait", "round", "check"},
                          left : SUBSET (Watchable \X ({NoTeam} \cup Teams))]]
  /\ request \in [Handlers -> Requested]
  /\ closing \in [pc : {"up", "stop", "wait", "closed"}, w : {NoWatcher} \cup Watchers]
  /\ cancelled \subseteq 1 .. made

Room == made + Cardinality(Making) <= MaxWatchers

(* Who waits for a watcher's loops has cancelled it; when the wait is over none of
   them is left, and one that starts later finds the watcher cancelled. *)
LifePlaces ==
  /\ \A l \in Loops : /\ loops[l].pc = "gone" => loops[l] = Gone
                      /\ loops[l].pc # "gone" => l[1] <= made
                      /\ l[1] \in quiet => loops[l].pc # "check"
  /\ \A c \in Handlers :
       /\ request[c].op = "none" => request[c] = Free
       /\ request[c].pc \in {"stop", "run"} => current # NoWatcher
       /\ request[c].pc = "wait" => request[c].w \in cancelled
       /\ request[c].pc = "do" => request[c].w \in 1 .. made
  /\ closing.pc = "stop" => current # NoWatcher
  /\ quiet \subseteq cancelled

(* While starts do not overlap: there is one loop at most, of the current watcher,
   and none from the moment a start or Close has waited for it. *)
Nothing == \A l \in Loops : loops[l].pc = "gone"

OneAtATime ==
  ~overlapped =>
    /\ \A c, d \in Handlers : Starting(c) /\ Starting(d) => c = d
    /\ \A c \in Handlers : Starting(c) => closing.pc = "up"
    /\ \A l \in Loops : loops[l].pc # "gone" => l[1] = current
    /\ \A l, m \in Loops : loops[l].pc # "gone" /\ loops[m].pc # "gone" => l = m
    /\ \A c \in Handlers : Starting(c) =>
         /\ request[c].pc = "wait" => request[c].w = current
         /\ request[c].pc \in {"make", "run"} => Nothing
    /\ closing.pc = "wait" => closing.w = current
    /\ closing.pc = "closed" => Nothing

LifeInv == LifeTypes /\ Room /\ LifePlaces /\ OneAtATime

LEMMA LifeInitially == LifeInit => LifeInv
<1> SUFFICES ASSUME LifeInit PROVE LifeInv
  OBVIOUS
<1> USE WatcherLifeAssumption DEF LifeInit, Free, Gone
<1>1. LifeTypes
  BY DEF LifeTypes, Requested, Watchers
<1>2. Making = {}
  BY DEF Making, Starting
<1>3. Room
  BY <1>2, FS_EmptySet DEF Room
<1>4. LifePlaces
  BY DEF LifePlaces
<1>5. OneAtATime
  BY DEF OneAtATime, Starting, Nothing
<1> QED
  BY <1>1, <1>3, <1>4, <1>5 DEF LifeInv

(* The steps, taken apart. *)
LEMMA LifeCases ==
  ASSUME LifeNext, NEW P,
         \A c \in Handlers, op \in {"start", "stop", "watch", "unwatch"}, ids \in SUBSET Watchable :
            Begin(c, op, ids) => P,
         \A c \in Handlers : Handler(c) => P,
         \A l \in Loops : LoopBegins(l) \/ LoopReturns(l) \/ Loop(l) => P,
         CloseBegins \/ CloseStops \/ CloseReturns => P
  PROVE  P
<1>1. CASE \E c \in Handlers, ids \in SUBSET Watchable : Begin(c, "start", ids)
  BY <1>1
<1>2. CASE \E c \in Handlers : Begin(c, "stop", {})
  BY <1>2
<1>3. CASE \E c \in Handlers, e \in Watchable, op \in {"watch", "unwatch"} : Begin(c, op, {e})
  <2>1. PICK c \in Handlers, e \in Watchable, op \in {"watch", "unwatch"} : Begin(c, op, {e})
    BY <1>3
  <2>2. {e} \in SUBSET Watchable
    OBVIOUS
  <2> QED  BY <2>1, <2>2
<1> QED
  BY <1>1, <1>2, <1>3 DEF LifeNext

(* What an answer, or a step on to the next place, leaves of the request. *)
LEMMA HandlerMoves ==
  ASSUME request \in [Handlers -> Requested], NEW c \in Handlers
  PROVE  /\ Answer(c) => /\ request' \in [Handlers -> Requested]
                         /\ request'[c] = Free
                         /\ \A d \in Handlers \ {c} : request'[d] = request[d]
         /\ \A pc \in {"stop", "wait", "make", "run", "do"} :
              Goto(c, pc) =>
                /\ request' \in [Handlers -> Requested]
                /\ request'[c] = [request[c] EXCEPT !.pc = pc]
                /\ \A d \in Handlers \ {c} : request'[d] = request[d]
<1>1. Free \in Requested
  BY DEF Free, Requested
<1>2. \A pc \in {"stop", "wait", "make", "run", "do"} : [request[c] EXCEPT !.pc = pc] \in Requested
  BY DEF Requested
<1>3. ASSUME NEW pc \in {"stop", "wait", "make", "run", "do"}, Goto(c, pc)
      PROVE  request' = [request EXCEPT ![c] = [request[c] EXCEPT !.pc = pc]]
  BY <1>3 DEF Goto
<1> QED
  BY <1>1, <1>2, <1>3 DEF Answer

LEMMA RoomToMake ==
  ASSUME LifeTypes, Room, NEW c \in Handlers, StartMakes(c)
  PROVE  made + 1 \in 1 .. MaxWatchers /\ made + 1 # NoWatcher
<1>1. IsFiniteSet(Making) /\ c \in Making
  BY WatcherLifeAssumption, FS_Subset DEF Making, StartMakes
<1>2. Cardinality(Making) \in Nat /\ Cardinality(Making) # 0
  BY <1>1, FS_CardinalityType, FS_EmptySet
<1> QED
  BY <1>2, WatcherLifeAssumption DEF Room, LifeTypes

LEMMA TypesStep == LifeTypes /\ LifePlaces /\ Room /\ [LifeNext]_lifeVars => LifeTypes'
<1> SUFFICES ASSUME LifeTypes, LifePlaces, Room, [LifeNext]_lifeVars PROVE LifeTypes'
  OBVIOUS
<1> USE WatcherLifeAssumption DEF LifeTypes
<1>1. ASSUME NEW c \in Handlers, NEW op \in {"start", "stop", "watch", "unwatch"},
             NEW ids \in SUBSET Watchable, Begin(c, op, ids)
      PROVE  LifeTypes'
  BY <1>1 DEF Begin, Requested
<1>2. ASSUME NEW c \in Handlers, Handler(c) PROVE LifeTypes'
  <2> USE DEF Watchers
  <2>1. CASE StartReads(c)
    <3>1. Goto(c, "make") \/ Goto(c, "stop")
      BY <2>1 DEF StartReads
    <3> QED  BY <2>1, <3>1, HandlerMoves DEF StartReads
  <2>2. CASE StartStops(c)
    <3>1. request[c].pc = "stop" /\ current # NoWatcher
      BY <2>2 DEF StartStops, LifePlaces
    <3>2. [request[c] EXCEPT !.pc = "wait", !.w = current] \in Requested
      <4>1. request[c] \in Requested /\ current \in Watchers
        BY <3>1
      <4> QED  BY <4>1 DEF Requested
    <3>3. request' = [request EXCEPT ![c] = [request[c] EXCEPT !.pc = "wait", !.w = current]]
      BY <2>2 DEF StartStops
    <3> QED  BY <2>2, <3>1, <3>2, <3>3 DEF StartStops
  <2>3. CASE StopReturns(c)
    <3>1. Goto(c, "make") \/ Answer(c)
      BY <2>3 DEF StopReturns
    <3> QED  BY <2>3, <3>1, HandlerMoves DEF StopReturns
  <2>4. CASE StartMakes(c)
    <3>3. made + 1 \in 1 .. MaxWatchers
      BY <2>4, RoomToMake
    <3>4. request' \in [Handlers -> Requested]
      BY <2>4, HandlerMoves DEF StartMakes
    <3>5. request[c].ids \in SUBSET Watchable
      BY DEF Requested
    <3> QED  BY <2>4, <3>3, <3>4, <3>5 DEF StartMakes
  <2>5. CASE StartRuns(c)
    BY <2>5, HandlerMoves DEF StartRuns, Loops
  <2>6. CASE HandlerReads(c)
    <3>1. CASE current = NoWatcher
      BY <2>6, <3>1, HandlerMoves DEF HandlerReads
    <3>2. CASE current # NoWatcher
      <4>1. [request[c] EXCEPT !.w = current, !.pc = "do"] \in Requested
        <5>1. request[c] \in Requested /\ current \in Watchers
          BY <3>2
        <5> QED  BY <5>1 DEF Requested
      <4>2. request' = [request EXCEPT ![c] = [request[c] EXCEPT !.w = current, !.pc = "do"]]
        BY <2>6, <3>2 DEF HandlerReads
      <4> QED  BY <2>6, <4>1, <4>2 DEF HandlerReads
    <3> QED  BY <3>1, <3>2
  <2>7. CASE StopCancels(c)
    <3>1. request[c].w \in 1 .. made
      BY <2>7 DEF StopCancels, LifePlaces
    <3> QED  BY <2>7, <3>1, HandlerMoves DEF StopCancels
  <2>8. CASE Edit(c)
    <3>1. request[c].ids \in SUBSET Watchable
      BY DEF Requested
    <3> QED  BY <2>8, <3>1, HandlerMoves DEF Edit
  <2> QED
    BY <1>2, <2>1, <2>2, <2>3, <2>4, <2>5, <2>6, <2>7, <2>8 DEF Handler
<1>3. ASSUME NEW l \in Loops, LoopBegins(l) \/ LoopReturns(l) \/ Loop(l) PROVE LifeTypes'
  <2>1. loops' \in [Loops -> [pc : {"gone", "wait", "round", "check"},
                              left : SUBSET (Watchable \X ({NoTeam} \cup Teams))]]
    BY <1>3 DEF LoopBegins, LoopReturns, Loop, LoopChecks, LoopChecked, LoopEndsRound, Gone, Loops
  <2> QED
    BY <1>3, <2>1 DEF LoopBegins, LoopReturns, Loop, LoopChecks, LoopChecked, LoopEndsRound, LoopVarsOnly
<1>4. ASSUME CloseBegins \/ CloseStops \/ CloseReturns PROVE LifeTypes'
  BY <1>4 DEF CloseBegins, CloseStops, CloseReturns, LifePlaces, Watchers
<1>5. CASE UNCHANGED lifeVars
  BY <1>5 DEF lifeVars
<1> QED
  BY <1>1, <1>2, <1>3, <1>4, <1>5, LifeCases

LEMMA OthersStay ==
  ASSUME LifeTypes, NEW c \in Handlers,
         Handler(c) \/ \E op \in {"start", "stop", "watch", "unwatch"}, ids \in SUBSET Watchable : Begin(c, op, ids)
  PROVE  \A d \in Handlers \ {c} : request'[d] = request[d]
<1>1. request \in [Handlers -> Requested]
  BY DEF LifeTypes
<1>2. CASE StartReads(c) \/ StopReturns(c) \/ StartMakes(c) \/ StartRuns(c) \/ StopCancels(c) \/ Edit(c)
  <2>1. Answer(c) \/ \E pc \in {"stop", "wait", "make", "run", "do"} : Goto(c, pc)
    BY <1>2 DEF StartReads, StopReturns, StartMakes, StartRuns, StopCancels, Edit
  <2> QED  BY <1>1, <2>1, HandlerMoves
<1>3. CASE StartStops(c) \/ HandlerReads(c)
  BY <1>1, <1>3 DEF StartStops, HandlerReads, Answer
<1>4. CASE \E op \in {"start", "stop", "watch", "unwatch"}, ids \in SUBSET Watchable : Begin(c, op, ids)
  BY <1>1, <1>4 DEF Begin
<1> QED  BY <1>2, <1>3, <1>4 DEF Handler

(* Only a request that begins needs room. *)
LEMMA RoomStep == LifeTypes /\ Room /\ [LifeNext]_lifeVars => Room'
<1> SUFFICES ASSUME LifeTypes, Room, [LifeNext]_lifeVars PROVE Room'
  OBVIOUS
<1>1. /\ IsFiniteSet(Making) /\ Cardinality(Making) \in Nat
      /\ made \in Nat /\ MaxWatchers \in Nat /\ request \in [Handlers -> Requested]
  BY WatcherLifeAssumption, FS_Subset, FS_CardinalityType DEF Making, LifeTypes
<1>2. ASSUME Making' \subseteq Making, made' = made PROVE Room'
  <2>1. Cardinality(Making') \in Nat /\ Cardinality(Making') <= Cardinality(Making)
    BY <1>1, <1>2, FS_Subset, FS_CardinalityType
  <2> QED  BY <1>1, <1>2, <2>1 DEF Room
<1>3. ASSUME NEW c \in Handlers, NEW op \in {"start", "stop", "watch", "unwatch"},
             NEW ids \in SUBSET Watchable, Begin(c, op, ids)
      PROVE  Room'
  <2>1. made' = made /\ \A d \in Handlers \ {c} : request'[d] = request[d]
    BY <1>3, OthersStay DEF Begin
  <2>2. request'[c].op = op /\ request[c].op = "none"
    BY <1>1, <1>3 DEF Begin, Free
  <2>3. CASE op = "start"
    <3> DEFINE Starts == {d \in Handlers : Starting(d)}
    <3>1. made + Cardinality(Starts) < MaxWatchers
      BY <1>3, <2>3 DEF Begin
    <3>2. IsFiniteSet(Starts) /\ Making \subseteq Starts
      BY WatcherLifeAssumption, FS_Subset DEF Making
    <3>3. Cardinality(Starts) \in Nat /\ Cardinality(Making) <= Cardinality(Starts)
      BY <3>2, FS_Subset, FS_CardinalityType
    <3>4. c \notin Making /\ Making' \subseteq Making \cup {c}
      BY <2>1, <2>2 DEF Making, Starting
    <3>5. /\ IsFiniteSet(Making \cup {c})
          /\ Cardinality(Making \cup {c}) = Cardinality(Making) + 1
      BY <1>1, <3>4, FS_AddElement
    <3>6. Cardinality(Making') \in Nat /\ Cardinality(Making') <= Cardinality(Making) + 1
      BY <3>4, <3>5, FS_Subset, FS_CardinalityType
    <3> HIDE DEF Starts
    <3> QED  BY <1>1, <2>1, <3>1, <3>3, <3>6 DEF Room
  <2>4. CASE op # "start"
    BY <1>2, <2>1, <2>2, <2>4 DEF Making, Starting
  <2> QED  BY <2>3, <2>4
<1>4. ASSUME NEW c \in Handlers, Handler(c) PROVE Room'
  <2>1. \A d \in Handlers \ {c} : request'[d] = request[d]
    BY <1>4, OthersStay
  <2>2. CASE StartMakes(c)
    <3>1. c \in Making /\ request'[c].pc = "run"
      BY <1>1, <2>2, HandlerMoves DEF StartMakes, Making, Starting, Requested
    <3>2. Making' \subseteq Making \ {c}
      BY <2>1, <3>1 DEF Making, Starting
    <3>3. IsFiniteSet(Making \ {c}) /\ Cardinality(Making \ {c}) = Cardinality(Making) - 1
      BY <1>1, <3>1, FS_RemoveElement
    <3>4. Cardinality(Making') \in Nat /\ Cardinality(Making') <= Cardinality(Making) - 1
      BY <3>2, <3>3, FS_Subset, FS_CardinalityType
    <3>5. made' = made + 1
      BY <2>2 DEF StartMakes
    <3> QED  BY <1>1, <3>4, <3>5 DEF Room
  <2>3. CASE ~StartMakes(c)
    <3>1. made' = made
      BY <1>4, <2>3 DEF Handler, StartReads, StartStops, StopReturns, StartRuns, HandlerReads, StopCancels, Edit
    <3>2. c \in Making' => c \in Making
      <4>1. CASE StartReads(c) \/ StartStops(c)
        BY <4>1 DEF StartReads, StartStops, Making
      <4>2. CASE request'[c] = Free
        BY <4>2 DEF Making, Starting, Free
      <4>3. CASE StopReturns(c) /\ Starting(c)
        BY <4>3 DEF StopReturns, Making
      <4>4. CASE StopCancels(c)
        <5>1. request[c].op = "stop" /\ request'[c] = [request[c] EXCEPT !.pc = "wait"]
          BY <1>1, <4>4, HandlerMoves DEF StopCancels
        <5>2. request'[c].op = "stop"
          BY <1>1, <5>1 DEF Requested
        <5> QED  BY <5>2 DEF Making, Starting
      <4>5. CASE HandlerReads(c)
        <5>1. request[c] \in Requested /\ request[c].op # "start"
          BY <1>1, <4>5 DEF HandlerReads
        <5>2. request'[c] = Free \/ request'[c] = [request[c] EXCEPT !.w = current, !.pc = "do"]
          BY <1>1, <4>5 DEF HandlerReads, Answer
        <5>3. request'[c] = Free => request'[c].op # "start"
          BY DEF Free
        <5>4. [request[c] EXCEPT !.w = current, !.pc = "do"].op = request[c].op
          BY <5>1 DEF Requested
        <5> QED  BY <5>1, <5>2, <5>3, <5>4 DEF Making, Starting
      <4>6. StartRuns(c) \/ Edit(c) \/ (StopReturns(c) /\ ~Starting(c)) => request'[c] = Free
        BY <1>1, HandlerMoves DEF StartRuns, Edit, StopReturns
      <4> QED  BY <1>4, <2>3, <4>1, <4>2, <4>3, <4>4, <4>5, <4>6 DEF Handler
    <3>3. Making' \subseteq Making
      BY <2>1, <3>2 DEF Making, Starting
    <3> QED  BY <1>2, <3>1, <3>3
  <2> QED  BY <2>2, <2>3
<1>5. ASSUME UNCHANGED <<made, request>> PROVE Room'
  BY <1>2, <1>5 DEF Making, Starting
<1>6. ASSUME NEW l \in Loops, LoopBegins(l) \/ LoopReturns(l) \/ Loop(l) PROVE Room'
  BY <1>5, <1>6 DEF LoopBegins, LoopReturns, Loop, LoopChecks, LoopChecked, LoopEndsRound, LoopVarsOnly
<1>7. ASSUME CloseBegins \/ CloseStops \/ CloseReturns PROVE Room'
  BY <1>5, <1>7 DEF CloseBegins, CloseStops, CloseReturns
<1>8. CASE UNCHANGED lifeVars
  BY <1>5, <1>8 DEF lifeVars
<1> QED
  BY <1>3, <1>4, <1>6, <1>7, <1>8, LifeCases

(* Where each step of a handler leaves its request. *)
LEMMA RequestAfter ==
  ASSUME LifeTypes, NEW c \in Handlers
  PROVE  /\ StartReads(c) => /\ request'[c].op = "start"
                            /\ request'[c].pc = IF current = NoWatcher THEN "make" ELSE "stop"
         /\ StartStops(c) => /\ request'[c].op = "start" /\ request'[c].pc = "wait"
                            /\ request'[c].w = current
         /\ StopReturns(c) => IF Starting(c) THEN request'[c].op = "start" /\ request'[c].pc = "make"
                                             ELSE request'[c] = Free
         /\ StartMakes(c) => request'[c].op = "start" /\ request'[c].pc = "run"
         /\ HandlerReads(c) => \/ request'[c] = Free
                               \/ /\ current # NoWatcher
                                  /\ request'[c].op \notin {"none", "start"} /\ request'[c].pc = "do"
                                  /\ request'[c].w = current
         /\ StopCancels(c) => /\ request'[c].op = "stop" /\ request'[c].pc = "wait"
                             /\ request'[c].w = request[c].w
         /\ StartRuns(c) \/ Edit(c) => request'[c] = Free
<1>1. request \in [Handlers -> Requested] /\ request[c] \in Requested
  BY DEF LifeTypes
<1>2. \A p : /\ [request[c] EXCEPT !.pc = p].op = request[c].op
             /\ [request[c] EXCEPT !.pc = p].pc = p
             /\ [request[c] EXCEPT !.pc = p].w = request[c].w
  BY <1>1 DEF Requested
<1>3. \A p, w : /\ [request[c] EXCEPT !.pc = p, !.w = w].op = request[c].op
                /\ [request[c] EXCEPT !.pc = p, !.w = w].pc = p
                /\ [request[c] EXCEPT !.pc = p, !.w = w].w = w
                /\ [request[c] EXCEPT !.w = w, !.pc = p].op = request[c].op
                /\ [request[c] EXCEPT !.w = w, !.pc = p].pc = p
                /\ [request[c] EXCEPT !.w = w, !.pc = p].w = w
  BY <1>1 DEF Requested
<1>4. ASSUME NEW pc \in {"stop", "wait", "make", "run", "do"}, Goto(c, pc)
      PROVE  request'[c].op = request[c].op /\ request'[c].pc = pc /\ request'[c].w = request[c].w
  <2>1. request'[c] = [request[c] EXCEPT !.pc = pc]
    BY <1>1, <1>4, HandlerMoves
  <2> QED  BY <1>2, <2>1
<1>5. StartReads(c) => /\ request'[c].op = "start"
                       /\ request'[c].pc = IF current = NoWatcher THEN "make" ELSE "stop"
  BY <1>4 DEF StartReads, Starting
<1>6. StartStops(c) => /\ request'[c].op = "start" /\ request'[c].pc = "wait"
                       /\ request'[c].w = current
  BY <1>1, <1>3 DEF StartStops, Starting
<1>7. StopReturns(c) => IF Starting(c) THEN request'[c].op = "start" /\ request'[c].pc = "make"
                                       ELSE request'[c] = Free
  BY <1>1, <1>4, HandlerMoves DEF StopReturns, Starting
<1>8. StartMakes(c) => request'[c].op = "start" /\ request'[c].pc = "run"
  BY <1>4 DEF StartMakes, Starting
<1>9. HandlerReads(c) => \/ request'[c] = Free
                         \/ /\ current # NoWatcher
                            /\ request'[c].op \notin {"none", "start"} /\ request'[c].pc = "do"
                            /\ request'[c].w = current
  <2>1. SUFFICES ASSUME HandlerReads(c), current # NoWatcher
                 PROVE  /\ request'[c].op \notin {"none", "start"} /\ request'[c].pc = "do"
                        /\ request'[c].w = current
    BY <1>1 DEF HandlerReads, Answer
  <2>2. /\ request'[c] = [request[c] EXCEPT !.w = current, !.pc = "do"]
        /\ request[c].op \in {"stop", "watch", "unwatch"}
    BY <1>1, <2>1 DEF HandlerReads
  <2> QED  BY <2>2, <1>3
<1>10. StopCancels(c) => /\ request'[c].op = "stop" /\ request'[c].pc = "wait"
                         /\ request'[c].w = request[c].w
  BY <1>4 DEF StopCancels
<1>11. StartRuns(c) \/ Edit(c) => request'[c] = Free
  BY <1>1, HandlerMoves DEF StartRuns, Edit
<1> QED
  BY <1>5, <1>6, <1>7, <1>8, <1>9, <1>10, <1>11

LEMMA FreeAndGone == Free.op = "none" /\ Free.pc = "free" /\ Gone.pc = "gone"
BY DEF Free, Gone

LEMMA PlacesStep == LifeTypes /\ Room /\ LifePlaces /\ [LifeNext]_lifeVars => LifePlaces'
<1> SUFFICES ASSUME LifeTypes, Room, LifePlaces, [LifeNext]_lifeVars PROVE LifePlaces'
  OBVIOUS
<1>1. /\ request \in [Handlers -> Requested] /\ made \in Nat /\ cancelled \subseteq 1 .. made
      /\ current \in {NoWatcher} \cup 1 .. made /\ DOMAIN loops = Loops
      /\ \A l \in Loops : l[1] \in Watchers
  BY WatcherLifeAssumption DEF LifeTypes, Loops
<1>2. ASSUME NEW c \in Handlers, NEW op \in {"start", "stop", "watch", "unwatch"},
             NEW ids \in SUBSET Watchable, Begin(c, op, ids)
      PROVE  LifePlaces'
  <2>1. \A d \in Handlers \ {c} : request'[d] = request[d]
    BY <1>2, OthersStay
  <2>2. request'[c].op # "none" /\ request'[c].pc = "read"
    BY <1>1, <1>2 DEF Begin
  <2> QED  BY <1>2, <2>1, <2>2 DEF LifePlaces, Begin
<1>3. ASSUME NEW c \in Handlers, Handler(c) PROVE LifePlaces'
  <2>1. \A d \in Handlers \ {c} : request'[d] = request[d]
    BY <1>3, OthersStay
  <2>2. CASE StartReads(c)
    <3>1. /\ request'[c].op = "start" /\ request'[c].pc \in {"make", "stop"}
          /\ request'[c].pc = "stop" => current # NoWatcher
      BY <2>2, RequestAfter
    <3>2. UNCHANGED <<current, made, cancelled, loops, closing, quiet>>
      BY <2>2 DEF StartReads
    <3> QED  BY <2>1, <3>1, <3>2 DEF LifePlaces
  <2>3. CASE StartStops(c)
    <3>1. request'[c].op = "start" /\ request'[c].pc = "wait" /\ request'[c].w = current
      BY <2>3, RequestAfter
    <3>2. UNCHANGED <<current, made, loops, closing, quiet>> /\ cancelled' = cancelled \cup {current}
      BY <2>3 DEF StartStops
    <3> QED  BY <2>1, <3>1, <3>2 DEF LifePlaces
  <2>4. CASE StopReturns(c)
    <3>1. \/ request'[c] = Free
          \/ request'[c].op = "start" /\ request'[c].pc = "make"
      BY <2>4, RequestAfter
    <3>2. /\ UNCHANGED <<current, made, cancelled, loops, closing>>
          /\ quiet' = quiet \cup {request[c].w} /\ request[c].pc = "wait"
          /\ \A l \in Loops : l[1] = request[c].w => loops[l] = Gone
      BY <2>4 DEF StopReturns, Alive
    <3> QED  BY <2>1, <3>1, <3>2, FreeAndGone DEF LifePlaces
  <2>5. CASE StartMakes(c)
    <3>1. request'[c].op = "start" /\ request'[c].pc = "run"
      BY <2>5, RequestAfter
    <3>2. current' = made' /\ made' = made + 1 /\ UNCHANGED <<cancelled, loops, closing, quiet>>
      BY <2>5 DEF StartMakes
    <3>3. current' # NoWatcher
      BY <2>5, <3>2, RoomToMake
    <3>4. \A l \in Loops : l[1] <= made => l[1] <= made'
      BY <1>1, <3>2 DEF Watchers
    <3>5. \A d \in Handlers : request[d].w \in 1 .. made => request[d].w \in 1 .. made'
      BY <1>1, <3>2
    <3> QED  BY <2>1, <3>1, <3>2, <3>3, <3>4, <3>5 DEF LifePlaces
  <2>6. CASE StartRuns(c)
    <3>1. request'[c] = Free
      BY <2>6, RequestAfter
    <3>2. current \in 1 .. made
      BY <1>1, <2>6 DEF StartRuns, LifePlaces
    <3>3. UNCHANGED <<current, made, cancelled, closing, quiet>>
      BY <2>6 DEF StartRuns
    <3>4. \A l \in Loops : loops'[l] = loops[l] \/ (loops'[l].pc = "wait" /\ l[1] <= made)
      BY <1>1, <2>6, <3>2 DEF StartRuns
    <3> QED  BY <2>1, <3>1, <3>3, <3>4, FreeAndGone DEF LifePlaces
  <2>7. CASE HandlerReads(c)
    <3>1. \/ request'[c] = Free
          \/ /\ current # NoWatcher
             /\ request'[c].op # "none" /\ request'[c].pc = "do" /\ request'[c].w = current
      BY <2>7, RequestAfter
    <3>2. UNCHANGED <<current, made, cancelled, loops, closing, quiet>>
      BY <2>7 DEF HandlerReads
    <3> QED  BY <1>1, <2>1, <3>1, <3>2, FreeAndGone DEF LifePlaces
  <2>8. CASE StopCancels(c)
    <3>1. request'[c].op = "stop" /\ request'[c].pc = "wait" /\ request'[c].w = request[c].w
      BY <2>8, RequestAfter
    <3>2. UNCHANGED <<current, made, loops, closing, quiet>> /\ cancelled' = cancelled \cup {request[c].w}
      BY <2>8 DEF StopCancels
    <3> QED  BY <2>1, <3>1, <3>2 DEF LifePlaces
  <2>9. CASE Edit(c)
    <3>1. request'[c] = Free
      BY <2>9, RequestAfter
    <3>2. UNCHANGED <<current, made, cancelled, loops, closing, quiet>>
      BY <2>9 DEF Edit
    <3> QED  BY <2>1, <3>1, <3>2, FreeAndGone DEF LifePlaces
  <2> QED
    BY <1>3, <2>2, <2>3, <2>4, <2>5, <2>6, <2>7, <2>8, <2>9 DEF Handler
<1>4. ASSUME NEW l \in Loops, LoopBegins(l) \/ LoopReturns(l) \/ Loop(l) PROVE LifePlaces'
  <2>1. LoopVarsOnly /\ \A m \in Loops \ {l} : loops'[m] = loops[m]
    BY <1>1, <1>4 DEF LoopBegins, LoopReturns, Loop, LoopChecks, LoopChecked, LoopEndsRound
  <2>2. /\ loops[l].pc # "gone"
        /\ loops'[l] = Gone \/ loops'[l].pc # "gone"
        /\ loops'[l].pc = "check" => l[1] \notin cancelled
    <3>1. CASE LoopBegins(l) \/ LoopEndsRound(l)
      BY <1>1, <3>1 DEF LoopBegins, LoopEndsRound
    <3>2. CASE LoopReturns(l)
      BY <1>1, <3>2, FreeAndGone DEF LoopReturns
    <3>3. CASE LoopChecks(l)
      BY <1>1, <3>3 DEF LoopChecks
    <3>4. CASE LoopChecked(l)
      <4>1. loops[l] \in [pc : {"gone", "wait", "round", "check"},
                          left : SUBSET (Watchable \X ({NoTeam} \cup Teams))]
        BY DEF LifeTypes
      <4>2. loops'[l].pc = "round"
        BY <1>1, <3>4, <4>1 DEF LoopChecked
      <4> QED  BY <3>4, <4>2 DEF LoopChecked
    <3> QED  BY <1>4, <3>1, <3>2, <3>3, <3>4 DEF Loop
  <2> QED  BY <2>1, <2>2 DEF LifePlaces, LoopVarsOnly, Gone
<1>5. ASSUME CloseBegins \/ CloseStops \/ CloseReturns PROVE LifePlaces'
  BY <1>5 DEF CloseBegins, CloseStops, CloseReturns, LifePlaces, LifeTypes
<1>6. CASE UNCHANGED lifeVars
  BY <1>6 DEF lifeVars, LifePlaces
<1> QED
  BY <1>2, <1>3, <1>4, <1>5, <1>6, LifeCases

LEMMA AloneStep ==
  LifeTypes /\ LifePlaces /\ OneAtATime /\ [LifeNext]_lifeVars => OneAtATime'
<1> SUFFICES ASSUME LifeTypes, LifePlaces, OneAtATime, [LifeNext]_lifeVars, ~overlapped'
             PROVE  OneAtATime'
  BY DEF OneAtATime
<1>1. /\ request \in [Handlers -> Requested] /\ made \in Nat /\ NoWatcher \notin Watchers
      /\ current \in {NoWatcher} \cup 1 .. made /\ DOMAIN loops = Loops
      /\ \A l \in Loops : l[1] \in Watchers
  BY WatcherLifeAssumption DEF LifeTypes, Loops, Watchers
<1>2. ASSUME NEW c \in Handlers, NEW op \in {"start", "stop", "watch", "unwatch"},
             NEW ids \in SUBSET Watchable, Begin(c, op, ids)
      PROVE  OneAtATime'
  <2>1. \A d \in Handlers \ {c} : request'[d] = request[d]
    BY <1>2, OthersStay
  <2>2. request'[c].op = op /\ request'[c].pc = "read"
    BY <1>1, <1>2 DEF Begin
  <2>3. ~overlapped /\ closing.pc = "up" /\ (op = "start" => \A d \in Handlers : ~Starting(d))
    BY <1>2 DEF Begin
  <2>4. UNCHANGED <<loops, current, closing>>
    BY <1>2 DEF Begin
  <2> QED  BY <2>1, <2>2, <2>3, <2>4 DEF OneAtATime, Starting, Nothing
<1>3. ASSUME NEW c \in Handlers, Handler(c) PROVE OneAtATime'
  <2>1. ~overlapped /\ UNCHANGED closing /\ \A d \in Handlers \ {c} : request'[d] = request[d]
    <3>1. \A d \in Handlers \ {c} : request'[d] = request[d]
      BY <1>3, OthersStay
    <3> QED
      BY <1>3, <3>1
       DEF Handler, StartReads, StartStops, StopReturns, StartMakes, StartRuns, HandlerReads, StopCancels, Edit
  <2>2. CASE StartReads(c)
    <3>1. /\ Starting(c) /\ request'[c].op = "start" /\ request'[c].pc \in {"make", "stop"}
          /\ request'[c].pc = "make" => current = NoWatcher
      BY <2>2, RequestAfter DEF StartReads
    <3>2. UNCHANGED <<current, loops>>
      BY <2>2 DEF StartReads
    <3>3. current = NoWatcher => Nothing
      BY <1>1, <2>1 DEF OneAtATime, Nothing
    <3> QED  BY <2>1, <3>1, <3>2, <3>3 DEF OneAtATime, Starting, Nothing
  <2>3. CASE StartStops(c)
    <3>1. Starting(c) /\ request'[c].op = "start" /\ request'[c].pc = "wait" /\ request'[c].w = current
      BY <2>3, RequestAfter DEF StartStops
    <3>2. UNCHANGED <<current, loops>>
      BY <2>3 DEF StartStops
    <3> QED  BY <2>1, <3>1, <3>2 DEF OneAtATime, Starting, Nothing
  <2>4. CASE StopReturns(c)
    <3>1. \/ request'[c] = Free
          \/ Starting(c) /\ request'[c].op = "start" /\ request'[c].pc = "make"
      BY <2>4, RequestAfter
    <3>2. UNCHANGED <<current, loops>>
      BY <2>4 DEF StopReturns
    <3>3. Starting(c) => Nothing
      BY <2>1, <2>4 DEF OneAtATime, Nothing, StopReturns, Alive, Gone
    <3> QED  BY <2>1, <3>1, <3>2, <3>3 DEF OneAtATime, Starting, Nothing, Free
  <2>5. CASE StartMakes(c)
    <3>1. Starting(c) /\ request'[c].op = "start" /\ request'[c].pc = "run"
      BY <2>5, RequestAfter DEF StartMakes
    <3>2. UNCHANGED loops /\ request[c].pc = "make"
      BY <2>5 DEF StartMakes
    <3>3. Nothing /\ closing.pc = "up" /\ \A d \in Handlers \ {c} : ~Starting(d)
      BY <2>1, <3>1, <3>2 DEF OneAtATime
    <3> QED  BY <2>1, <3>1, <3>2, <3>3 DEF OneAtATime, Starting, Nothing
  <2>6. CASE StartRuns(c)
    <3>1. Nothing /\ closing.pc = "up" /\ \A d \in Handlers \ {c} : ~Starting(d)
      BY <2>1, <2>6 DEF OneAtATime, StartRuns
    <3>2. \A l \in Loops : loops'[l].pc # "gone" => l = <<current, c>>
      BY <1>1, <2>6, <3>1 DEF Nothing, StartRuns
    <3>3. request'[c] = Free /\ current' = current
      BY <2>6, RequestAfter DEF StartRuns
    <3>4. \A d \in Handlers : request'[d].op # "start"
      BY <2>1, <3>1, <3>3 DEF Starting, Free
    <3> QED  BY <2>1, <3>1, <3>2, <3>3, <3>4 DEF OneAtATime, Starting
  <2>7. CASE HandlerReads(c)
    <3>1. request'[c].op # "start" /\ UNCHANGED <<current, loops>>
      BY <2>7, RequestAfter DEF HandlerReads, Free
    <3> QED  BY <2>1, <3>1 DEF OneAtATime, Starting, Nothing
  <2>8. CASE StopCancels(c)
    <3>1. request'[c].op # "start" /\ UNCHANGED <<current, loops>>
      BY <2>8, RequestAfter DEF StopCancels
    <3> QED  BY <2>1, <3>1 DEF OneAtATime, Starting, Nothing
  <2>9. CASE Edit(c)
    <3>1. request'[c].op # "start"
      BY <2>9, RequestAfter, FreeAndGone
    <3>2. UNCHANGED <<current, loops>>
      BY <2>9 DEF Edit
    <3> QED  BY <3>2, <2>1, <3>1 DEF OneAtATime, Starting, Nothing
  <2> QED
    BY <1>3, <2>2, <2>3, <2>4, <2>5, <2>6, <2>7, <2>8, <2>9 DEF Handler
<1>4. ASSUME NEW l \in Loops, LoopBegins(l) \/ LoopReturns(l) \/ Loop(l) PROVE OneAtATime'
  <2>1. LoopVarsOnly /\ loops[l].pc # "gone" /\ \A m \in Loops \ {l} : loops'[m] = loops[m]
    BY <1>1, <1>4 DEF LoopBegins, LoopReturns, Loop, LoopChecks, LoopChecked, LoopEndsRound
  <2>2. \A m \in Loops : loops'[m].pc # "gone" => loops[m].pc # "gone"
    BY <2>1
  <2> QED  BY <2>1, <2>2 DEF OneAtATime, Starting, Nothing, LoopVarsOnly
<1>5. ASSUME CloseBegins PROVE OneAtATime'
  <2>1. ~overlapped /\ \A c \in Handlers : ~Starting(c)
    BY <1>5 DEF CloseBegins
  <2>2. closing'.pc = IF current = NoWatcher THEN "closed" ELSE "stop"
    BY <1>5 DEF CloseBegins, LifeTypes
  <2>3. current = NoWatcher => Nothing
    BY <1>1, <2>1 DEF OneAtATime, Nothing
  <2> QED  BY <1>5, <2>1, <2>2, <2>3 DEF OneAtATime, Starting, Nothing, CloseBegins
<1>6. ASSUME CloseStops PROVE OneAtATime'
  BY <1>6 DEF CloseStops, OneAtATime, Starting, Nothing
<1>7. ASSUME CloseReturns PROVE OneAtATime'
  <2>1. ~overlapped /\ closing.pc = "wait" /\ closing'.pc = "closed" /\ Nothing
    BY <1>7 DEF CloseReturns, OneAtATime, Alive, Nothing, Gone, LifeTypes
  <2> QED  BY <1>7, <2>1 DEF CloseReturns, OneAtATime, Starting, Nothing
<1>8. CASE UNCHANGED lifeVars
  BY <1>8 DEF lifeVars, OneAtATime, Starting, Nothing
<1> QED
  BY <1>2, <1>3, <1>4, <1>5, <1>6, <1>7, <1>8, LifeCases

LEMMA LifeInvariance == LifeSpec => []LifeInv
<1>1. LifeInv /\ [LifeNext]_lifeVars => LifeInv'
  BY TypesStep, RoomStep, PlacesStep, AloneStep DEF LifeInv
<1> QED
  BY LifeInitially, <1>1, PTL DEF LifeSpec

(* Watchers, requests and handlers keep their types, for any number of them (keyoku.go,
   StartWatcher, StopWatcher). *)
THEOREM LifeTypesHold == LifeSpec => []LifeTypeOK
<1>1. LifeInv => LifeTypeOK
  BY WatcherLifeAssumption DEF LifeInv, LifeTypes, LifePlaces, LifeTypeOK, Watchers
<1> QED
  BY <1>1, LifeInvariance, PTL

(* However many requests there are and whatever they ask: while starts have not
   overlapped each other or Close there is one loop at most, and it is the loop of
   k.watcher, which the next Stop will find (keyoku.go, StartWatcher). *)
THEOREM OneLoop == LifeSpec => []OneLoopUnlessStartsOverlap
<1>1. ASSUME LifeInv PROVE OneLoopUnlessStartsOverlap
  <2>1. SUFFICES ASSUME ~overlapped
                 PROVE  Cardinality(Running) <= 1 /\ \A l \in Running : l[1] = current
    BY DEF OneLoopUnlessStartsOverlap
  <2>2. \A l \in Running : loops[l].pc # "gone"
    BY <1>1 DEF Running, LifeInv, LifePlaces
  <2>3. \A l, m \in Running : l = m /\ l[1] = current
    BY <1>1, <2>1, <2>2 DEF LifeInv, OneAtATime, Running
  <2>4. Running = {} \/ \E l : Running = {l}
    BY <2>3
  <2>5. Cardinality(Running) \in {0, 1}
    BY <2>4, FS_EmptySet, FS_Singleton
  <2> QED  BY <2>3, <2>5
<1> QED
  BY <1>1, LifeInvariance, PTL

(* And whatever overlaps: nobody checks for a watcher whose Stop has come back; nor
   on a closed store, unless a start has overlapped (watcher.go, Stop). *)
THEOREM StopMeansQuiet == LifeSpec => []QuietAfterStop
<1>1. LifeInv => QuietAfterStop
  BY DEF LifeInv, LifePlaces, OneAtATime, Nothing, QuietAfterStop
<1> QED
  BY <1>1, LifeInvariance, PTL
==============================================================================
