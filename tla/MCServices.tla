------------------------------- MODULE MCServices -------------------------------
(***************************************************************************)
(* The parts of the process that run beside the requests and share no       *)
(* state with each other: a behaviour moves one of them, chosen at the      *)
(* start, and the others rest.                                              *)
(***************************************************************************)
EXTENDS JobScheduler, Watcher, WatcherLife, EventStream, Budget, AgentState, ScheduleLife

CONSTANT Parts   \* the parts that behaviours may move

VARIABLE part

services == <<part, schedVars, vars, lifeVars, streamVars, budgetVars, agentVars, timeVars>>

(* October 2023, which begins on a Sunday, to May 2025: a leap and a common
   February, and every pair of lengths that neighbouring months have. *)
Lengths    == <<31, 30, 31, 31, 29, 31, 30, 31, 30, 31, 31, 30, 31, 30, 31, 31, 28, 31, 30, 31>>
CivilFirst == [m \in 0 .. 20 |-> FoldLeft(LAMBDA x, y : x + y, 0, SubSeq(Lengths, 1, m))]

CronTags ==
  {[type |-> "interval", every |-> 1], [type |-> "interval", every |-> 14],
   [type |-> "daily", slot |-> 0], [type |-> "weekdays", slot |-> 1],
   [type |-> "once", at |-> 100]}
  \cup [type : {"weekly"}, day : {0, 6}, slot : {1}]
  \cup [type : {"monthly"}, day : {1, 29, 30, 31}, slot : {0, 1}]

(* Tokens in units of 150: an extraction (600 estimated, 400 and up used) and a
   look at an importance (150). *)
MCKinds == {[estimate |-> 4, least |-> 3, most |-> 5], [estimate |-> 1, least |-> 1, most |-> 1]}

ServicesInit ==
  /\ part \in Parts
  /\ SchedulerInit /\ WatcherInit /\ LifeInit /\ StreamInit /\ BudgetInit /\ AgentInit /\ TimesInit
  /\ part # "watcher" => config = [adaptive |-> TRUE, delivers |-> TRUE]
  /\ part # "schedule" => cron = [type |-> "once", at |-> 100]

(* The parts other than the one that moves rest. *)
Rest ==
  /\ UNCHANGED part
  /\ part # "jobs"     => UNCHANGED schedVars
  /\ part # "watcher"  => UNCHANGED vars
  /\ part # "life"     => UNCHANGED lifeVars
  /\ part # "stream"   => UNCHANGED streamVars
  /\ part # "budget"   => UNCHANGED budgetVars
  /\ part # "agent"    => UNCHANGED agentVars
  /\ part # "schedule" => UNCHANGED timeVars

ServicesNext ==
  /\ Rest
  /\ \/ part = "jobs"     /\ SchedulerNext
     \/ part = "watcher"  /\ WatcherNext
     \/ part = "life"     /\ LifeNext
     \/ part = "stream"   /\ StreamNext
     \/ part = "budget"   /\ BudgetNext
     \/ part = "agent"    /\ AgentNext
     \/ part = "schedule" /\ TimesNext

(* The fairness of each part (FairSchedulerSpec, FairWatcherSpec, FairStreamSpec), of
   behaviours that move it. *)
ServicesFairness ==
  /\ \A t \in Jobs :
       /\ WF_schedVars(part = "jobs" /\ Tick(t))
       /\ WF_schedVars(part = "jobs" /\ TimerStep(t))
       /\ WF_schedVars(part = "jobs" /\ RunNowLaunch(t))
       /\ WF_schedVars(part = "jobs" /\ Finish(t))
       /\ WF_schedVars(part = "jobs" /\ Done(t))
  /\ WF_schedVars(part = "jobs" /\ Stop /\ stopper # "up")
  /\ WF_schedVars(part = "jobs" /\ CloseStore)
  /\ WF_vars(part = "watcher" /\ WatcherTick)
  /\ WF_vars(part = "watcher" /\ LoopStep)
  /\ WF_streamVars(part = "stream" /\ ShutdownTimesOut)
  /\ WF_streamVars(part = "stream" /\ Drained)

ServicesSpec == ServicesInit /\ [][ServicesNext]_services /\ ServicesFairness

(* JobsKeepRunning, of the behaviours that move the scheduler. *)
ScheduledJobsKeepRunning == part = "jobs" => JobsKeepRunning
=============================================================================
