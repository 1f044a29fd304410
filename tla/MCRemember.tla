---- MODULE MCRemember ----
(* Memories are told and recalled: overlapping calls of Add, overlapping queries, and
   the tiered retriever with its cache.  A behaviour moves one of the three, each of
   which has rows of its own, and the others rest.

   Two calls of Add over three facts: a plan, an event that completes it and a
   rewording of the plan.  The three are related; the event is near enough to the
   plan to be taken for it by findTargetMemory, the rewording is a near-duplicate. *)
EXTENDS Remember, Query, Tiers, TLC
CONSTANTS plan, event, rewording, c1, c2
VARIABLE part

MCPlans == {plan}
MCCompletions == {event}
MCLevel == plan :> (plan :> 4 @@ event :> 2 @@ rewording :> 3)
        @@ event :> (plan :> 2 @@ event :> 4 @@ rewording :> 1)
        @@ rewording :> (plan :> 3 @@ event :> 1 @@ rewording :> 4)
MCSim == [p \in Facts \X Facts |-> MCLevel[p[1]][p[2]]]
MCCalls == Permutations(Calls)

MCTextOf   == <<1, 2>>
MCSubjects == {[near |-> {1, 2}, worded |-> {}], [near |-> {1}, worded |-> {2}]}

(* The second memory is nearer than the first, and worth less. *)
MCNearness == {<<1, 3>>}
MCWorth    == <<2, 1>>

RememberRecallInit ==
  /\ part \in {"remember", "query", "tiers"}
  /\ RememberInit /\ QueryInit /\ TiersInit

RememberRecallNext ==
  /\ UNCHANGED part
  /\ \/ part = "remember" /\ RememberNext /\ UNCHANGED <<queryVars, tiersVars>>
     \/ part = "query" /\ QueryNext /\ UNCHANGED <<rememberVars, tiersVars>>
     \/ part = "tiers" /\ TiersNext /\ UNCHANGED <<rememberVars, queryVars>>

RememberRecallSpec ==
  RememberRecallInit /\ [][RememberRecallNext]_<<part, rememberVars, queryVars, tiersVars>>
====
