--------------------------- MODULE HeartbeatDecision ---------------------------
(***************************************************************************)
(* heartbeat_decide.go: what a check decides about the signals it has      *)
(* found (evaluateShouldAct up to the topic check), as operators.          *)
(*                                                                         *)
(* Scores are left out: the stability of memories weighs neither way, and  *)
(* no tag moves a tier.  Scheduled tasks are in the module Schedules.      *)
(***************************************************************************)
EXTENDS Naturals, FiniteSets, FiniteSetsExt

CONSTANTS
  Signals,    \* what a check can find: memories, conflicts, gaps, ...
  Kind,       \* the kind of each
  NoPrint,    \* the empty fingerprint
  CooldownNormal, CooldownElevated,  \* of the autonomy, in units of time
  StaleImmediate  \* how long an immediate signal is not repeated (30 minutes)

Tiers == <<"low", "normal", "elevated", "immediate">>
Rank(tier) == CHOOSE k \in 1 .. 4 : Tiers[k] = tier

Kinds == {"pending_work", "goal_progress", "knowledge", "deadlines", "conflicts",
          "continuity", "sentiment", "patterns"}

(* signalTierMap; the other kinds behave as one of these does. *)
SignalTier(k) ==
  CASE k = "deadlines" -> "immediate"
    [] k \in {"conflicts", "continuity"} -> "elevated"
    [] k \in {"pending_work", "goal_progress", "knowledge"} -> "normal"
    [] k \in {"sentiment", "patterns"} -> "low"

ASSUME DecisionAssumption ==
  /\ Kind \in [Signals -> Kinds]
  /\ IsFiniteSet(Signals)
  /\ {CooldownNormal, CooldownElevated, StaleImmediate} \subseteq Nat

OfKind(view, k)  == {s \in view : Kind[s] = k}
KindsOf(view)    == {Kind[s] : s \in view}

(* computeSignalFingerprint: a behavioural pattern leaves no print. *)
Fingerprint(view) == {s \in view : Kind[s] # "patterns"}

(* extractTopicEntities: every memory mentions an entity of its own. *)
Topics(view) == {s \in view : Kind[s] \notin {"continuity", "knowledge", "sentiment", "patterns"}}

(* collectSignalMemoryIDs: the signals whose memories count as surfaced. *)
Surfacing(view) == {s \in view : Kind[s] \in {"pending_work", "deadlines", "goal_progress"}}

(* buildSummary names the time that is left or gone by: it is never the same. *)
IsRestless(view) == KindsOf(view) \cap {"deadlines", "continuity"} # {}

(* Slip: pending work is kept when all of it was surfaced, as deadlines are. *)
FilterSurfacedSoftly(view, recent) ==
  view \ (LET soft(k) == IF OfKind(view, k) \subseteq recent THEN {} ELSE OfKind(view, k) \cap recent
          IN soft("pending_work") \cup soft("deadlines"))

(* The filter of surfaced memories.  Deadlines are kept when all were surfaced. *)
FilterSurfaced(view, recent) ==
  LET deadlines == OfKind(view, "deadlines")
  IN view \ ((OfKind(view, "pending_work") \cap recent)
             \cup (IF deadlines \subseteq recent THEN {} ELSE deadlines \cap recent))

-----------------------------------------------------------------------------
(* boostSignalFreshness *)
TierOf(view, fresh, k) ==
  LET rank    == Rank(SignalTier(k))
      boosted == k \in {"pending_work", "goal_progress", "knowledge"} /\ OfKind(view, k) \cap fresh # {}
  IN IF boosted THEN rank + 1 ELSE rank

(* The kinds that are heard during a conversation: the elevated ones and above. *)
Heard(view, fresh, talking) ==
  {k \in KindsOf(view) : talking => TierOf(view, fresh, k) >= Rank("elevated")}

HighestOf(view, fresh, kinds) == Max({TierOf(view, fresh, k) : k \in kinds} \cup {Rank("low")})

Weight(rank) == CASE rank = 1 -> 1 [] rank = 2 -> 3 [] rank = 3 -> 5 [] rank = 4 -> 10

(* threshold is the autonomy's. *)
MeetsConfluence(view, fresh, kinds, threshold) ==
  MapThenSumSet(LAMBDA k : Weight(TierOf(view, fresh, k)), kinds) >= threshold

MinTier(period) ==
  CASE period \in {"morning", "working"} -> "low"
    [] period = "evening"    -> "normal"
    [] period = "late_night" -> "elevated"
    [] period = "quiet"      -> "immediate"

(* In halves, as the response multiplier is: the product counts quarters. *)
PeriodMultiplier(period) ==
  CASE period = "morning" -> 1 [] period = "working" -> 2 [] period = "evening" -> 3
    [] period \in {"late_night", "quiet"} -> 6

(* The cooldown still runs: by the tier, the hour and how the user responds. *)
Cools(age, rank, period, penalty) ==
  age * 4 < (IF rank = Rank("elevated") THEN CooldownElevated ELSE CooldownNormal)
            * PeriodMultiplier(period) * penalty

(* Slip: the same immediate signals are never repeated. *)
RepeatsAtOnceNever(in) == in.last.print = Fingerprint(in.view)

(* Step 8: the same immediate signals, acted on a short time ago. *)
RepeatsAtOnce(in) == in.last.print = Fingerprint(in.view) /\ in.last.age < StaleImmediate

(* evaluateShouldAct up to step 12.  in is what the check has found (view,
   fresh, critical), the autonomy's threshold, the hour and the user (period,
   typical, talking, penalty), and the last act (print, age).  "topics" goes on to
   compare topics; "nudge", to consider a nudge. *)
Verdict(in) ==
  LET plain   == HighestOf(in.view, {}, KindsOf(in.view))
      heard   == Heard(in.view, in.fresh, in.talking)
      highest == HighestOf(in.view, in.fresh, heard)
      same    == in.last.print = Fingerprint(in.view)
  IN IF in.critical                                      THEN "act_deadline_critical"
     ELSE IF plain < Rank(MinTier(in.period))            THEN "suppress_time_period"
     ELSE IF ~in.typical /\ plain < Rank("elevated")     THEN "suppress_rhythm"
     ELSE IF heard = {} /\ in.view # {}                  THEN "suppress_conversation_low"
     ELSE IF in.view = {}           THEN IF in.talking THEN "no_signals" ELSE "nudge"
     ELSE IF highest = Rank("immediate")
          THEN IF RepeatsAtOnce(in) THEN "suppress_stale" ELSE "act"
     ELSE IF highest # Rank("elevated") /\ MeetsConfluence(in.view, in.fresh, heard, in.threshold)
          THEN "act_confluence"
     ELSE IF highest = Rank("low")                       THEN "suppress_low_no_confluence"
     ELSE IF Cools(in.last.age, highest, in.period, in.penalty) THEN "suppress_cooldown"
     ELSE IF same /\ in.last.age < 2 * CooldownNormal    THEN "suppress_stale"
     ELSE IF same /\ in.talking                          THEN "silent_stale"
     ELSE "topics"

(* The verdicts that are recorded together with the print of the signals. *)
Noted == {"suppress_stale", "suppress_low_no_confluence", "suppress_cooldown"}

=============================================================================
