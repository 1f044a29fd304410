----------------------------- MODULE MCSchedules -----------------------------
EXTENDS Schedules, TLC

(* October, November, ... 2023, which is more than the clock here sees. *)
CivilFirst == <<31, 61, 92, 123>> @@ (0 :> 0)
CronTags   == {[type |-> "once", at |-> 1], [type |-> "daily", slot |-> 0]}

Perms == Permutations(Callers)

(* Contents that match each other. *)
OneText == {{"tea"}}
=============================================================================
