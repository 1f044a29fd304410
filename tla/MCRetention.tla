---- MODULE MCRetention ----
(* Two entities: the first has two memories, so that one can be deleted while
   the other keeps the entity known to the jobs.  Pages of one row. *)
EXTENDS RetentionJobs, TLC
CONSTANTS m1, m2, m3, e1, e2
MCOwner == m1 :> e1 @@ m2 :> e1 @@ m3 :> e2
====
