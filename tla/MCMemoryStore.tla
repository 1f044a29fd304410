---- MODULE MCMemoryStore ----
(* The storage.  A behaviour moves one part, and the others rest: the store with all
   its writes; the consolidation job over the same rows; or the migration of the file.
   Three memories: enough for one that is kept, one that is deleted and one that comes
   back, around one or more restarts; for a merge, a primary, one to delete, and one
   more that lives through it. *)
EXTENDS Consolidation, Migration, TLC

CONSTANTS m1, m2, m3, w1, w2, w3, w4, c1, c2, c3

VARIABLE part

(* A text is a single word, which the text-based merge drops, or three others, which it
   adds. *)
MCContents == {{w1}, {w2, w3, w4}}
MCAdded    == <<c1, c2, c3>>
IdSymmetry == Permutations(Ids)

mergeVars == <<content, cron, jobVars, wanted, excused, requests>>

StorageInit ==
  /\ part \in {"store", "consolidation", "migration"}
  /\ ConsolidationInit /\ MigrationInit
  /\ part # "migration" => ~db.memories.exists

StorageNext ==
  /\ UNCHANGED part
  /\ \/ part = "store" /\ StoreNext /\ UNCHANGED <<mergeVars, migrationVars>>
     \/ part = "consolidation" /\ ConsolidationNext /\ UNCHANGED migrationVars
     \/ part = "migration" /\ MigrationNext /\ UNCHANGED consVars

StorageSpec == StorageInit /\ [][StorageNext]_<<part, consVars, migrationVars>>
====
