---- MODULE MCMemoryRestart ----
(* The store without its jobs: memories are stored and deleted, the process is
   stopped, killed and started again.  Two memories: one written before the
   index was saved and one after; nothing is written while Close is under way. *)
EXTENDS MemoryStore

RestartNext ==
  \/ phase = "open" /\ \E i \in Ids : CreateMemory(i) \/ SoftDelete(i)
  \/ StopOrStart
RestartSpec == StoreInit /\ [][RestartNext]_storeVars

(* docs/troubleshooting.md says of a crash that the "WAL is replayed on
   recovery", and of the index that it is rebuilt from the embeddings when its
   file cannot be used: after a start, every active memory can be found.  NewSQLite
   takes an old file as it is: what was stored after the last clean Close stays
   in the table and is out of the index. *)
ActiveIsSearchable ==
  phase = "open" => \A i \in Ids : state[i] = "active" => i \in index
====
