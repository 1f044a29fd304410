-------------------------------- MODULE Breaker --------------------------------
(***************************************************************************)
(* What the watcher promises of its deliveries: a circuit breaker.  After  *)
(* failures in a row it opens, and only urgent calls are made; some time   *)
(* later one ordinary call may try again, and only a call that comes       *)
(* through closes it.                                                      *)
(***************************************************************************)
VARIABLES
  mode,    \* "closed", "open", or "half" open
  calling  \* the call that is being made: "none", "ordinary" or "urgent"

breakerVars == <<mode, calling>>

BreakerInit == mode = "closed" /\ calling = "none"

Place ==
  /\ calling = "none"
  /\ \/ calling' = "urgent"
     \/ mode # "open" /\ calling' = "ordinary"
  /\ UNCHANGED mode

Succeed ==
  /\ calling # "none"
  /\ calling' = "none" /\ mode' = "closed"

Fail ==
  /\ calling # "none"
  /\ calling' = "none"
  /\ mode' \in (IF mode = "closed" THEN {"closed", "open"} ELSE {"open"})

CoolOff ==
  /\ mode = "open"
  /\ mode' = "half"
  /\ UNCHANGED calling

BreakerNext == Place \/ Succeed \/ Fail \/ CoolOff

BreakerSpec == BreakerInit /\ [][BreakerNext]_breakerVars
=============================================================================
