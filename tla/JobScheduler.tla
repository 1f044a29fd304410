--------------------------- MODULE JobScheduler ---------------------------
(***************************************************************************)
(* jobs.Scheduler: one timer goroutine per scheduled job type, a goroutine *)
(* for every run of a job, RunNow for a run that a request asks for, and   *)
(* Stop, which Keyoku.Close calls before it closes the store.              *)
(*                                                                         *)
(* s.running, under s.mu, keeps two runs of a type apart.  s.wg, a counter *)
(* that is not under s.mu, is what Stop waits for.                         *)
(***************************************************************************)
EXTENDS Integers, FiniteSets, Functions

CONSTANTS
  Jobs,       \* the job types that have a processor
  Scheduled,  \* those that have an enabled schedule
  MaxRuns     \* bound: goroutines of one type alive at a time

ASSUME SchedulerAssumption ==
  /\ Scheduled \subseteq Jobs /\ IsFiniteSet(Jobs)
  /\ MaxRuns \in Nat \ {0}

VARIABLES
  running,  \* s.running
  timer,    \* runTimer: "wait" (in its select), "claimed" (after tryStart), "quit", "none"
  tick,     \* the types whose ticker channel holds a tick (it holds one at most)
  claimed,  \* the types that a RunNow call has claimed and not yet launched
  exec,     \* per type, the goroutines in executeJob
  leaving,  \* per type, the goroutines between finish and wg.Done
  wg,       \* the counter of s.wg
  stopper,  \* Close: "up", "cancelled", "waiting", "graceful", "timedOut", "closed"
  late      \* history: the types that RunNow launched after Stop was done waiting

schedVars == <<running, timer, tick, claimed, exec, leaving, wg, stopper, late>>

SchedulerTypeOK ==
  /\ running \subseteq Jobs
  /\ timer \in [Jobs -> {"none", "wait", "claimed", "quit"}]
  /\ tick \subseteq Scheduled
  /\ claimed \subseteq Jobs
  /\ exec \in [Jobs -> Nat]
  /\ leaving \in [Jobs -> Nat]
  /\ wg \in Int
  /\ stopper \in {"up", "cancelled", "waiting", "graceful", "timedOut", "closed"}
  /\ late \subseteq Jobs

(* After Start: a ticker and a timer goroutine for each schedule. *)
SchedulerInit ==
  /\ running = {}
  /\ timer = [t \in Jobs |-> IF t \in Scheduled THEN "wait" ELSE "none"]
  /\ tick = {}
  /\ claimed = {}
  /\ exec = [t \in Jobs |-> 0]
  /\ leaving = [t \in Jobs |-> 0]
  /\ wg = Cardinality(Scheduled)
  /\ stopper = "up"
  /\ late = {}

Cancelled == stopper # "up"

-----------------------------------------------------------------------------
(* The timers. *)

(* The ticker fires; a tick that the channel has no room for is dropped. *)
Tick(t) ==
  /\ t \in Scheduled
  /\ stopper \in {"up", "cancelled"}
  /\ tick' = tick \cup {t}
  /\ UNCHANGED <<running, timer, claimed, exec, leaving, wg, stopper, late>>

(* A slip: the timer returns where it should wait for the next tick. *)
TakeTickOrReturn(t) ==
  /\ timer[t] = "wait"
  /\ t \in tick
  /\ tick' = tick \ {t}
  /\ IF t \in running
     THEN /\ timer' = [timer EXCEPT ![t] = "quit"]
          /\ wg' = wg - 1
          /\ UNCHANGED running
     ELSE /\ running' = running \cup {t}
          /\ timer' = [timer EXCEPT ![t] = "claimed"]
          /\ UNCHANGED wg
  /\ UNCHANGED <<claimed, exec, leaving, stopper, late>>

(* The select takes a tick, even when the context is cancelled too: it starts
   a run, or skips it when a run of the type is under way. *)
TakeTick(t) ==
  /\ timer[t] = "wait"
  /\ t \in tick
  /\ tick' = tick \ {t}
  /\ IF t \in running
     THEN UNCHANGED <<running, timer>>
     ELSE /\ running' = running \cup {t}
          /\ timer' = [timer EXCEPT ![t] = "claimed"]
  /\ UNCHANGED <<claimed, exec, leaving, wg, stopper, late>>

Launch(t) ==
  /\ exec[t] + leaving[t] < MaxRuns
  /\ wg' = wg + 1
  /\ exec' = [exec EXCEPT ![t] = @ + 1]

(* A slip: a goroutine that the wait group does not count. *)
TimerLaunchUncounted(t) ==
  /\ timer[t] = "claimed"
  /\ exec[t] + leaving[t] < MaxRuns
  /\ exec' = [exec EXCEPT ![t] = @ + 1]
  /\ timer' = [timer EXCEPT ![t] = "wait"]
  /\ UNCHANGED <<running, tick, claimed, leaving, wg, stopper, late>>

TimerLaunch(t) ==
  /\ timer[t] = "claimed"
  /\ Launch(t)
  /\ timer' = [timer EXCEPT ![t] = "wait"]
  /\ UNCHANGED <<running, tick, claimed, leaving, stopper, late>>

TimerQuit(t) ==
  /\ timer[t] = "wait"
  /\ Cancelled
  /\ timer' = [timer EXCEPT ![t] = "quit"]
  /\ wg' = wg - 1
  /\ UNCHANGED <<running, tick, claimed, exec, leaving, stopper, late>>

-----------------------------------------------------------------------------
(* RunNow: tryStart, then wg.Add and the goroutine.  It does not look at the
   context; when a run of the type is under way it returns an error. *)

(* A slip: s.running is not looked at. *)
RunNowClaimsBusy(t) ==
  /\ running' = running \cup {t}
  /\ claimed' = claimed \cup {t}
  /\ UNCHANGED <<timer, tick, exec, leaving, wg, stopper, late>>

RunNowClaim(t) ==
  /\ t \notin running
  /\ running' = running \cup {t}
  /\ claimed' = claimed \cup {t}
  /\ UNCHANGED <<timer, tick, exec, leaving, wg, stopper, late>>

RunNowLaunch(t) ==
  /\ t \in claimed
  /\ Launch(t)
  /\ claimed' = claimed \ {t}
  /\ late' = IF stopper \in {"graceful", "timedOut", "closed"} THEN late \cup {t} ELSE late
  /\ UNCHANGED <<running, timer, tick, leaving, stopper>>

-----------------------------------------------------------------------------
(* A run: Process returns, finish, wg.Done. *)

Finish(t) ==
  /\ exec[t] > 0
  /\ exec' = [exec EXCEPT ![t] = @ - 1]
  /\ leaving' = [leaving EXCEPT ![t] = @ + 1]
  /\ running' = running \ {t}
  /\ UNCHANGED <<timer, tick, claimed, wg, stopper, late>>

Done(t) ==
  /\ leaving[t] > 0
  /\ leaving' = [leaving EXCEPT ![t] = @ - 1]
  /\ wg' = wg - 1
  /\ late' = IF exec[t] + leaving[t] = 1 THEN late \ {t} ELSE late
  /\ UNCHANGED <<running, timer, tick, claimed, exec, stopper>>

-----------------------------------------------------------------------------
(* Stop, and the end of Close. *)

Cancel ==
  /\ stopper = "up"
  /\ stopper' = "cancelled"
  /\ UNCHANGED <<running, timer, tick, claimed, exec, leaving, wg, late>>

(* Every ticker is stopped; what is in its channel stays there. *)
StopTickers ==
  /\ stopper = "cancelled"
  /\ stopper' = "waiting"
  /\ UNCHANGED <<running, timer, tick, claimed, exec, leaving, wg, late>>

WaitReturns ==
  /\ stopper = "waiting"
  /\ wg = 0
  /\ stopper' = "graceful"
  /\ UNCHANGED <<running, timer, tick, claimed, exec, leaving, wg, late>>

(* 60 seconds. *)
WaitTimesOut ==
  /\ stopper = "waiting"
  /\ stopper' = "timedOut"
  /\ UNCHANGED <<running, timer, tick, claimed, exec, leaving, wg, late>>

CloseStore ==
  /\ stopper \in {"graceful", "timedOut"}
  /\ stopper' = "closed"
  /\ UNCHANGED <<running, timer, tick, claimed, exec, leaving, wg, late>>

-----------------------------------------------------------------------------
TimerStep(t) == TakeTick(t) \/ TimerLaunch(t) \/ TimerQuit(t)
RunNow(t)    == RunNowClaim(t) \/ RunNowLaunch(t)
RunStep(t)   == Finish(t) \/ Done(t)
Stop         == Cancel \/ StopTickers \/ WaitReturns \/ WaitTimesOut

SchedulerNext ==
  \/ \E t \in Jobs : Tick(t) \/ TimerStep(t) \/ RunNow(t) \/ RunStep(t)
  \/ Stop
  \/ CloseStore

SchedulerSpec == SchedulerInit /\ [][SchedulerNext]_schedVars

(* Tickers fire, goroutines are scheduled, Process returns in the end, and
   Stop goes on once it was called (whether it is called is not certain). *)
FairSchedulerSpec ==
  /\ SchedulerSpec
  /\ \A t \in Jobs :
       /\ WF_schedVars(Tick(t))
       /\ WF_schedVars(TimerStep(t))
       /\ WF_schedVars(RunNowLaunch(t))
       /\ WF_schedVars(Finish(t))
       /\ WF_schedVars(Done(t))
  /\ WF_schedVars(Stop /\ stopper # "up")
  /\ WF_schedVars(CloseStore)

-----------------------------------------------------------------------------
(* Properties. *)

(* Two runs of a job type never overlap: not two ticks, not a tick and a
   RunNow, not a run that is about to start and one that is not over.  A type
   in s.running has exactly one owner: a run, a timer or a RunNow call. *)
OneRunPerType ==
  \A t \in Jobs :
    /\ exec[t] <= 1
    /\ exec[t] = 1 => t \in running /\ timer[t] # "claimed" /\ t \notin claimed
    /\ timer[t] = "claimed" => t \in running /\ t \notin claimed
    /\ t \in claimed => t \in running

(* No type stays claimed by a run that is over: it could never run again. *)
NoLostClaim ==
  \A t \in running : exec[t] > 0 \/ timer[t] = "claimed" \/ t \in claimed

(* The counter counts the goroutines that Stop has to wait for, so it never
   goes below zero, where WaitGroup panics. *)
WaitGroupCounts ==
  wg = Cardinality({t \in Jobs : timer[t] \in {"wait", "claimed"}})
       + FoldFunction(+, 0, exec) + FoldFunction(+, 0, leaving)

(* When Stop is done waiting without having timed out, every timer has quit and
   every run is over, but for the runs that RunNow launched later: it does not
   look at the context, and a store that is closed does not hold it back. *)
GracefulStopIsQuiet ==
  stopper = "graceful" =>
    \A t \in Jobs :
      /\ timer[t] \in {"none", "quit"}
      /\ exec[t] + leaving[t] > 0 => t \in late

(* Every scheduled job runs again and again until the scheduler is stopped. *)
JobsKeepRunning == \A t \in Scheduled : []<>(exec[t] > 0 \/ Cancelled)

(* Once Stop was called every timer goroutine returns, though each has to win
   against ticks in its select and may have a run to launch first. *)
TimersQuit == Cancelled ~> \A t \in Jobs : timer[t] \in {"none", "quit"}
=============================================================================
