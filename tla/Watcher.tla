-------------------------------- MODULE Watcher --------------------------------
(***************************************************************************)
(* The loop of one watcher: it waits, checks every watched entity, and     *)
(* delivers what a check calls for.  A check is what Heartbeat promises of *)
(* one: it acts on an immediate signal that no immediate act has just      *)
(* spoken of; an ordinary one whose cooldown is over it may pass over as   *)
(* well, and for good (the filter of surfaced memories, the stale rule and *)
(* the comparison of topics see to that).  The act is recorded before the  *)
(* delivery is tried.                                                      *)
(*                                                                         *)
(* Time passes in units while the loop waits or delivers; its other steps  *)
(* take none.                                                              *)
(***************************************************************************)
EXTENDS Integers, FiniteSets, FiniteSetsExt

CONSTANTS
  Entities,        \* the watched entities
  Nobody,          \* no entity
  BaseInterval, MinInterval, MaxInterval,
  Paces,           \* the multipliers of the hours that rounds meet, in halves
  Densities,       \* how many signals a check may find: "few", "many"
  RecentFor,       \* how long a delivery makes rounds more frequent
  SuspendAfter,    \* failures in a row that suspend deliveries (3)
  MaxCooloff,      \* the longest suspension (6)
  Timeout,         \* of a delivery
  Cooldown,        \* how long a check does not repeat an ordinary act,
  StaleImmediate,  \* and an immediate one
  MaxEvents        \* bound on changes of signals and receivers, failing checks and reads

ASSUME WatcherAssumption ==
  /\ Nobody \notin Entities /\ IsFiniteSet(Entities)
  /\ {BaseInterval, MinInterval, MaxInterval, SuspendAfter, MaxCooloff} \subseteq Nat \ {0}
  /\ {RecentFor, Timeout, Cooldown, StaleImmediate, MaxEvents} \subseteq Nat
  /\ MinInterval <= MaxInterval
  /\ Paces \subseteq {1, 2, 3, 6} /\ Densities \subseteq {"few", "many"}

(* Failures and ages are kept up to where no rule tells them from greater ones. *)
MaxStrikes == SuspendAfter - 1 + MaxCooloff
ClipTo(n, bound) == IF n < bound THEN n ELSE bound

(* The longest time between two rounds, adaptive or at a fixed interval, which
   may be longer than the bound of the adaptive ones; and with a round. *)
LongestInterval == IF BaseInterval > MaxInterval THEN BaseInterval ELSE MaxInterval
LongestRound    == LongestInterval + Cardinality(Entities) * Timeout
MaxWait         == 1 + StaleImmediate + (MaxEvents + 1) * LongestRound

Tiers == {"ordinary", "immediate"}
Unacted == [tier |-> "ordinary", left |-> 0]
NotSet == -1

VARIABLES
  config,    \* whether intervals are adapted or fixed, and whether acts are delivered
  signal,    \* the tier of each entity's signals, or "none"
  deaf,      \* the entities whose messages the receiver does not take
  acted,     \* the record of each entity's last act: its tier, the cooldown left
  stage,     \* "wait" or "round"
  left,      \* the entities that the round has still to check
  delivery,  \* the delivery under way: its entity, tier and duration so far
  timerIn,   \* the time until the timer or ticker fires; NotSet: it does not
  rang,      \* it has fired and was not yet heard
  strikes,   \* deliveryFailures
  strikeAge, \* the time since lastDeliveryFailureAt
  actAge,    \* the time since lastActTime
  seen,      \* the number of signals of the last result
  events,    \* how many of the things that MaxEvents bounds have happened
  untried    \* history: for how long each entity's immediate signal was not tried

world == <<config, signal, deaf, acted>>
loop  == <<stage, left, delivery>>
bell == <<timerIn, rang>>
stats == <<strikes, strikeAge, actAge, seen>>
vars  == <<world, loop, bell, stats, events, untried>>

Idle == [to |-> Nobody, tier |-> "ordinary", took |-> 0]

-----------------------------------------------------------------------------
(* computeNextInterval, in eighths of the base interval.  (No result has a high
   memory velocity.) *)
SignalMultiplier(density) == CASE density = "many" -> 1 [] density = "zero" -> 3 [] OTHER -> 2

Clamp(n) ==
  LET raised == IF n < MinInterval THEN MinInterval ELSE n
  IN IF raised > MaxInterval THEN MaxInterval ELSE raised

NextInterval(pace) ==
  LET recent == IF actAge < RecentFor THEN 1 ELSE 2
  IN Clamp((BaseInterval * recent * pace * SignalMultiplier(seen) * 2 ^ ClipTo(strikes, 5)) \div 8)

WatcherInit ==
  /\ config \in [adaptive : BOOLEAN, delivers : BOOLEAN]
  /\ signal = [e \in Entities |-> "none"]
  /\ deaf = {}
  /\ acted = [e \in Entities |-> Unacted]
  /\ stage = "wait" /\ left = {} /\ delivery = Idle
  /\ strikes = 0 /\ strikeAge = MaxCooloff /\ actAge = RecentFor /\ seen = "unknown"
  /\ timerIn \in (IF config.adaptive THEN {NextInterval(pace) : pace \in Paces} ELSE {BaseInterval})
  /\ rang = FALSE
  /\ events = 0
  /\ untried = [e \in Entities |-> NotSet]

-----------------------------------------------------------------------------
(* The entities' memories, and the receiver of the messages. *)
Counts == events < MaxEvents /\ events' = events + 1

SignalChanges(e, tier) ==
  /\ tier # signal[e]
  /\ Counts
  /\ signal' = [signal EXCEPT ![e] = tier]
  /\ untried' = [untried EXCEPT ![e] = IF tier = "immediate" THEN 0 ELSE NotSet]
  /\ UNCHANGED <<config, deaf, acted, loop, bell, stats>>

ReceiverChanges(e) ==
  /\ Counts
  /\ deaf' = IF e \in deaf THEN deaf \ {e} ELSE deaf \cup {e}
  /\ UNCHANGED <<config, signal, acted, loop, bell, stats, untried>>

(* Time passes while the loop waits, and while the command of a delivery runs.
   A fixed ticker goes on during a round, and drops a tick that nobody took. *)
Passes ==
  IF timerIn # 1 THEN timerIn' = (IF timerIn = NotSet THEN NotSet ELSE timerIn - 1) /\ UNCHANGED rang
  ELSE timerIn' = (IF config.adaptive THEN NotSet ELSE BaseInterval) /\ rang' = TRUE

WatcherTick ==
  /\ \/ stage = "wait" /\ ~rang
     \/ delivery # Idle /\ delivery.took < Timeout
  /\ Passes
  /\ delivery' = IF delivery = Idle THEN Idle ELSE [delivery EXCEPT !.took = @ + 1]
  /\ acted' = [e \in Entities |-> [acted[e] EXCEPT !.left = IF @ = 0 THEN 0 ELSE @ - 1]]
  /\ strikeAge' = ClipTo(strikeAge + 1, MaxCooloff)
  /\ actAge' = ClipTo(actAge + 1, RecentFor)
  /\ untried' = [e \in Entities |-> IF untried[e] = NotSet THEN NotSet ELSE ClipTo(untried[e] + 1, MaxWait)]
  /\ UNCHANGED <<config, signal, deaf, stage, left, strikes, seen, events>>

-----------------------------------------------------------------------------
(* checkAll *)
BeginRound ==
  /\ stage = "wait" /\ rang
  /\ stage' = "round" /\ left' = Entities /\ rang' = FALSE
  /\ UNCHANGED <<world, delivery, timerIn, stats, events, untried>>

Checks(e) ==
  /\ stage = "round" /\ delivery = Idle /\ e \in left
  /\ left' = left \ {e}

CheckFails(e) ==
  /\ Checks(e)
  /\ Counts
  /\ UNCHANGED <<world, stage, delivery, bell, stats, untried>>

(* What HeartbeatCheck promises: an act is not repeated for its cooldown, but an
   ordinary one does not hold an immediate one back. *)
Rested(e) == acted[e].left = 0 \/ (signal[e] = "immediate" /\ acted[e].tier = "ordinary")
MustAct(e) == signal[e] = "immediate" /\ Rested(e)

CheckSkips(e) ==
  /\ Checks(e)
  /\ ~MustAct(e)
  /\ seen' \in (IF signal[e] = "none" THEN {"zero"} ELSE Densities)
  /\ UNCHANGED <<world, stage, delivery, bell, strikes, strikeAge, actAge, events, untried>>

(* Slip: urgent signals are suspended as well. *)
SuspendsAll(tier) ==
  strikes >= SuspendAfter /\ strikeAge < ClipTo(strikes - (SuspendAfter - 1), MaxCooloff)

(* Slip: no retry. *)
SuspendsForGood(tier) == strikes >= SuspendAfter /\ tier # "immediate"

(* Deliveries are suspended after three failures in a row, for an hour and one
   more for each further failure; immediate signals get through. *)
Suspends(tier) ==
  /\ strikes >= SuspendAfter /\ tier # "immediate"
  /\ strikeAge < ClipTo(strikes - (SuspendAfter - 1), MaxCooloff)

(* The act is recorded and its events are emitted, then it is delivered or not.
   Without a deliverer the events are all there is.  A check that fails to read
   the last act knows of no cooldown. *)
CheckActs(e) ==
  /\ Checks(e)
  /\ signal[e] # "none"
  /\ \/ Rested(e) /\ UNCHANGED events
     \/ Counts
  /\ seen' \in Densities
  /\ acted' = [acted EXCEPT ![e] =
       [tier |-> signal[e], left |-> IF signal[e] = "immediate" THEN StaleImmediate ELSE Cooldown]]
  /\ IF config.delivers /\ Suspends(signal[e])
     THEN UNCHANGED <<delivery, untried>>
     ELSE /\ delivery' = IF config.delivers THEN [to |-> e, tier |-> signal[e], took |-> 0] ELSE Idle
          /\ untried' = [untried EXCEPT ![e] = NotSet]
  /\ UNCHANGED <<config, signal, deaf, stage, bell, strikes, strikeAge, actAge>>

(* Deliver returns: the command has taken the message, or there was nothing to
   say (the analysis found nothing worth acting on). *)
Delivered(e) ==
  /\ delivery.to = e /\ e \in Entities
  /\ e \notin deaf
  /\ delivery' = Idle
  /\ strikes' = 0 /\ actAge' = 0
  /\ UNCHANGED <<world, stage, left, bell, strikeAge, seen, events, untried>>

NothingToSay(e) ==
  /\ delivery.to = e /\ e \in deaf /\ delivery.took = 0
  /\ delivery' = Idle
  /\ strikes' = 0 /\ actAge' = 0
  /\ UNCHANGED <<world, stage, left, bell, strikeAge, seen, events, untried>>

(* Slip: only the failure that suspends deliveries is dated. *)
DeliveryFailsUndated(e) ==
  /\ delivery.to = e /\ e \in deaf
  /\ delivery' = Idle
  /\ strikes' = ClipTo(strikes + 1, MaxStrikes)
  /\ strikeAge' = IF strikes < SuspendAfter THEN 0 ELSE strikeAge
  /\ UNCHANGED <<world, stage, left, bell, actAge, seen, events, untried>>

(* The command fails, at once or when the timeout is over. *)
DeliveryFails(e) ==
  /\ delivery.to = e /\ e \in deaf
  /\ delivery' = Idle
  /\ strikes' = ClipTo(strikes + 1, MaxStrikes)
  /\ strikeAge' = 0
  /\ UNCHANGED <<world, stage, left, bell, actAge, seen, events, untried>>

(* Back to run, which computes the next interval; a ticker runs already. *)
EndRound(pace) ==
  /\ stage = "round" /\ left = {} /\ delivery = Idle
  /\ stage' = "wait"
  /\ timerIn' = IF config.adaptive THEN NextInterval(pace) ELSE timerIn
  /\ UNCHANGED <<world, left, delivery, rang, stats, events, untried>>

LoopStep ==
  \/ BeginRound
  \/ \E e \in Entities : CheckSkips(e) \/ CheckActs(e) \/ Delivered(e) \/ DeliveryFails(e)
  \/ \E pace \in Paces : EndRound(pace)

WatcherNext ==
  \/ \E e \in Entities : \/ \E tier \in Tiers \cup {"none"} : SignalChanges(e, tier)
                         \/ ReceiverChanges(e) \/ CheckFails(e) \/ NothingToSay(e)
  \/ WatcherTick
  \/ LoopStep

WatcherSpec == WatcherInit /\ [][WatcherNext]_vars

(* Time passes, and the loop's goroutine is scheduled; the command returns or is
   killed at the timeout. *)
FairWatcherSpec == WatcherSpec /\ WF_vars(WatcherTick) /\ WF_vars(LoopStep)

-----------------------------------------------------------------------------
(* Properties. *)

WatcherTypeOK ==
  /\ signal \in [Entities -> Tiers \cup {"none"}] /\ deaf \subseteq Entities
  /\ acted \in [Entities -> [tier : Tiers, left : 0 .. Max({Cooldown, StaleImmediate})]]
  /\ stage \in {"wait", "round"} /\ left \subseteq Entities /\ rang \in BOOLEAN
  /\ delivery \in [to : Entities \cup {Nobody}, tier : Tiers, took : 0 .. Timeout]
  /\ timerIn \in Nat \cup {NotSet}
  /\ strikes \in 0 .. MaxStrikes /\ strikeAge \in 0 .. MaxCooloff /\ actAge \in 0 .. RecentFor
  /\ seen \in {"unknown", "zero", "few", "many"} /\ untried \in [Entities -> NotSet .. MaxWait]
  /\ config \in [adaptive : BOOLEAN, delivers : BOOLEAN] /\ events \in 0 .. MaxEvents

(* However its deliveries have failed, the watcher tries to deliver an immediate
   signal within its longest interval, the timeouts of a round and the time for
   which checks do not repeat an immediate act; a failing check costs it a round
   (watcher.go, checkAll: "Critical/immediate signals (deadlines) always get
   through", and the backoff of computeNextInterval). *)
DeadlinesAreTriedInTime ==
  \A e \in Entities :
    untried[e] <= StaleImmediate + (events + 1) * LongestRound

(* Once the receiver takes the messages again, an entity is delivered to again and
   again if checks act on its signals again and again, for no suspension and no
   backoff is for good; and if an immediate signal of its stays, they do, for it
   is not silenced, whatever the others' messages meet with (watcher.go, checkAll:
   an act is recorded before its delivery has failed). *)
DeliveriesResume ==
  \A e \in Entities :
    /\ <>[](config.delivers /\ deaf = {}) /\ []<><<CheckActs(e)>>_vars
         => []<><<Delivered(e)>>_vars
    /\ <>[](config.delivers /\ e \notin deaf /\ signal[e] = "immediate")
         => []<><<Delivered(e)>>_vars

(* The first of any signals, while another's messages still fail.  The code does
   not keep this: failures are counted for all entities together, and the immediate
   signals of one, tried in spite of the suspension, prolong it for the others. *)
OthersDoNotSuspend ==
  \A e \in Entities :
    <>[](config.delivers /\ e \notin deaf) /\ []<><<CheckActs(e)>>_vars
      => []<><<Delivered(e)>>_vars

(* The deliveries obey the circuit breaker: half open once the cooloff is over. *)
BreakerMode ==
  IF strikes < SuspendAfter THEN "closed" ELSE IF Suspends("ordinary") THEN "open" ELSE "half"

Call ==
  IF delivery = Idle THEN "none" ELSE IF delivery.tier = "immediate" THEN "urgent" ELSE "ordinary"

Promise == INSTANCE Breaker WITH mode <- BreakerMode, calling <- Call

(* Every behaviour of the loop is one of the breaker: deliveries are suspended and
   resumed by failures, successes and time alone (watcher.go, checkAll). *)
ObeysTheBreaker == Promise!BreakerSpec
=============================================================================
