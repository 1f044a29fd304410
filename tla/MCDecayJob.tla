---- MODULE MCDecayJob ----
(* Two memories, the older one 1; with a page of one row the second memory is
   reached only through the offset. *)
EXTENDS DecayJob
====
