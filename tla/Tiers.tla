---------------------------------- MODULE Tiers ----------------------------------
(***************************************************************************)
(* The three tiers of retrieval for one entity: a hot cache of copies, the  *)
(* bounded index, and the rows with their words; and the two that hold the  *)
(* index and the file to their bounds, EnforceHNSWBounds and the eviction    *)
(* job.  Cache, index and rows have locks of their own, and nothing spans   *)
(* two of them.                                                             *)
(***************************************************************************)
EXTENDS Integers, Sequences, FiniteSets, SequencesExt, FiniteSetsExt

CONSTANTS
  Searchers,     \* requests under way
  Items,         \* memories, in the order of their rows
  Nearness,      \* what may be asked: how near each memory is, 0 .. 3
  Worth,         \* rank and importance of each, all different
  Evictors,      \* who holds the index to its bound: "retriever" (EnforceHNSWBounds), "job"
  CacheSize, MaxIndexed, BatchLimit,
  MostFound,     \* limit of a search
  MaxSearches, MaxAgings   \* bounds on the searches and on the steps of the other jobs

(* Degrees of similarity: minScore, FTSFallbackThreshold, HotCacheThreshold. *)
Least    == 1
Fallback == 2
Hit      == 3

ASSUME TiersAssumption ==
  /\ IsFiniteSet(Items) /\ Items = 1 .. Cardinality(Items) /\ Evictors \subseteq {"retriever", "job"}
  /\ Nearness \subseteq [Items -> 0 .. 3] /\ Worth \in [Items -> Nat]
  /\ {CacheSize, BatchLimit, MostFound} \subseteq Nat \ {0} /\ MaxIndexed \in Nat
  /\ MaxSearches \in Nat /\ MaxAgings \in Nat

VARIABLES
  row,       \* state of each memory's row, "none" before it is stored
  indexed,   \* the ids in the index
  hot,       \* the cache: ids, most recently used first
  tiered,    \* what each searcher is at
  evictor,   \* what each evictor is at
  toTell,    \* calls of OnMemoryCreated and OnMemoryDeleted to come: <<"created", i>> ...
  searches, agings,
  missed     \* history: memories of which a copy was on its way to the cache when it was
             \* told that they are gone, of which it was not told, or found by a word alone

tiersVars == <<row, indexed, hot, tiered, evictor, toTell, searches, agings, missed>>

NoSearch   == [pc |-> "idle", near |-> <<>>, found |-> <<>>, todo |-> <<>>]
NoEviction == [pc |-> "idle", excess |-> 0, list |-> <<>>]

TiersInit ==
  /\ row = [i \in Items |-> "none"] /\ indexed = {} /\ hot = <<>>
  /\ tiered = [s \in Searchers |-> NoSearch]
  /\ evictor = [p \in Evictors |-> NoEviction]
  /\ toTell = {} /\ searches = 0 /\ agings = 0 /\ missed = {}

StoredItems       == {i \in Items : row[i] \in {"active", "stale", "archived"}}
Eligible     == {i \in Items : row[i] \in {"active", "stale"}}
FirstOf(s)   == SubSeq(s, 1, Min({Len(s), MostFound}))

(* The orders of S in which nothing comes before what precedes it. *)
Orders(S, Precedes(_, _)) ==
  {s \in SetToSeqs(S) : \A m, n \in DOMAIN s : m < n => ~Precedes(s[n], s[m])}

Nearest(S, near) == Orders(S, LAMBDA i, j : near[i] > near[j])
ById(S)          == Orders(S, LAMBDA i, j : i < j)

-----------------------------------------------------------------------------
(* The cache (lru.go); each operation holds its lock. *)

PlaceOf(c, i) == CHOOSE n \in DOMAIN c : c[n] = i

(* Slip: a sole entry is kept. *)
DropUnlessSole(c, i) ==
  IF Contains(c, i) /\ Len(c) > 1 THEN RemoveAt(c, PlaceOf(c, i)) ELSE c

Drop(c, i) == IF Contains(c, i) THEN RemoveAt(c, PlaceOf(c, i)) ELSE c

(* A memory that is cached moves to the front; for a new one the last gives way. *)
Put(c, i) ==
  <<i>> \o (IF Contains(c, i) \/ Len(c) < CacheSize THEN Drop(c, i) ELSE Front(c))

Touch(i) ==
  /\ Contains(hot, i) /\ hot' = Put(hot, i)
  /\ UNCHANGED <<row, indexed, tiered, evictor, toTell, searches, agings, missed>>

-----------------------------------------------------------------------------
(* A search (tiered_retriever.go). *)

(* Tier 1: a cached memory that is near enough ends the search, and no row is read. *)
SearchCache(s, near) ==
  LET cached == {i \in Range(hot) : near[i] >= Least}
  IN /\ tiered[s].pc = "idle" /\ searches < MaxSearches /\ searches' = searches + 1
     /\ \E best \in Nearest(cached, near) : tiered' = [tiered EXCEPT ![s] =
          [NoSearch EXCEPT !.near = near,
             !.pc    = IF \E i \in cached : near[i] >= Hit THEN "answered" ELSE "index",
             !.found = IF \E i \in cached : near[i] >= Hit THEN FirstOf(best) ELSE <<>>]]
     /\ UNCHANGED <<row, indexed, hot, evictor, toTell, agings, missed>>

(* Tier 2: results come in the order of the rows, and the limit cuts them in it. *)
SearchIndex(s) ==
  /\ tiered[s].pc = "index"
  /\ \E results \in ById({i \in indexed \cap Eligible : tiered[s].near[i] >= Least}) :
       tiered' = [tiered EXCEPT ![s] =
            [@ EXCEPT !.pc = "promote", !.found = FirstOf(results), !.todo = FirstOf(results)]]
  /\ UNCHANGED <<row, indexed, hot, evictor, toTell, searches, agings, missed>>

(* Copies enter the cache one by one; of those of tier 2 only what is near enough. *)
Promote(s) ==
  LET i == Head(tiered[s].todo)
  IN /\ tiered[s].todo # <<>>
     /\ hot' = IF tiered[s].pc = "promote" /\ tiered[s].near[i] < Fallback THEN hot ELSE Put(hot, i)
     /\ tiered' = [tiered EXCEPT ![s].todo = Tail(@)]
     /\ UNCHANGED <<row, indexed, evictor, toTell, searches, agings, missed>>

(* The first result is taken for the best. *)
GoodEnough(s) == tiered[s].found # <<>> /\ tiered[s].near[Head(tiered[s].found)] >= Fallback

(* mergeResults: each memory once, nearest first. *)
MergeResults(a, b, near) == Nearest(Range(a) \cup Range(b), near)

(* Tier 3, if the caller has words: the rows that hold them, in any order and whether
   they are in the index or not; all that are near at all are promoted. *)
SearchWords(s) ==
  LET near == tiered[s].near
  IN /\ tiered[s].pc = "promote" /\ tiered[s].todo = <<>> /\ ~GoodEnough(s)
     /\ \E W \in SUBSET {i \in Eligible : near[i] >= Least} : \E words \in SetToSeqs(W) :
          /\ Len(words) <= MostFound
          /\ \E merged \in MergeResults(tiered[s].found, words, near) :
               tiered' = [tiered EXCEPT ![s] =
                 [@ EXCEPT !.pc = "promoteWords", !.found = FirstOf(merged), !.todo = words]]
          /\ missed' = missed \cup (W \ indexed)
     /\ UNCHANGED <<row, indexed, hot, evictor, toTell, searches, agings>>

(* The caller is done with its answer, or passes it to OnMemoryAccessed first. *)
Accessed(s) ==
  /\ tiered[s].pc \in {"answered", "promote", "promoteWords"} /\ tiered[s].todo = <<>>
  /\ tiered' = [tiered EXCEPT ![s] = [NoSearch EXCEPT !.pc = "accessed", !.todo = tiered[s].found]]
  /\ UNCHANGED <<row, indexed, hot, evictor, toTell, searches, agings, missed>>

Done(s) ==
  /\ tiered[s].pc \in {"answered", "promote", "promoteWords", "accessed"} /\ tiered[s].todo = <<>>
  /\ tiered' = [tiered EXCEPT ![s] = NoSearch]
  /\ UNCHANGED <<row, indexed, hot, evictor, toTell, searches, agings, missed>>

-----------------------------------------------------------------------------
(* The writers of memories, who tell the cache afterwards, and the other jobs, which
   do not know it. *)

(* A copy of i that may enter the cache later. *)
OnItsWay(i) == \/ <<"created", i>> \in toTell
               \/ \E s \in Searchers : i \in Range(tiered[s].found) \cup Range(tiered[s].todo)

(* i leaves the index, and the cache is not told. *)
LeavesUntold(i) ==
  /\ indexed' = indexed \ {i}
  /\ missed' = IF OnItsWay(i) \/ Contains(hot, i) THEN missed \cup {i} ELSE missed

(* The cache is told that i is gone. *)
Told(i) ==
  /\ hot' = Drop(hot, i)
  /\ missed' = IF OnItsWay(i) THEN missed \cup {i} ELSE missed

CreateItem(i) ==
  /\ row[i] = "none" /\ \A j \in Items : j < i => row[j] # "none"
  /\ row' = [row EXCEPT ![i] = "active"]
  /\ indexed' = indexed \cup {i}
  /\ toTell' = toTell \cup {<<"created", i>>}
  /\ UNCHANGED <<hot, tiered, evictor, searches, agings, missed>>

OnMemoryCreated(i) ==
  /\ <<"created", i>> \in toTell /\ toTell' = toTell \ {<<"created", i>>}
  /\ hot' = Put(hot, i)
  /\ UNCHANGED <<row, indexed, tiered, evictor, searches, agings, missed>>

(* For good or not: a deleted row is found by nobody. *)
DeleteItem(i) ==
  /\ i \in StoredItems
  /\ row' = [row EXCEPT ![i] = "deleted"]
  /\ indexed' = indexed \ {i}
  /\ toTell' = toTell \cup {<<"deleted", i>>}
  /\ UNCHANGED <<hot, tiered, evictor, searches, agings, missed>>

OnMemoryDeleted(i) ==
  /\ <<"deleted", i>> \in toTell /\ toTell' = toTell \ {<<"deleted", i>>}
  /\ Told(i)
  /\ UNCHANGED <<row, indexed, tiered, evictor, searches, agings>>

(* Decay and archival; with its state an archived memory loses its vector. *)
AgeItem(i) ==
  /\ agings < MaxAgings /\ agings' = agings + 1
  /\ \/ /\ row[i] = "active"
        /\ row' = [row EXCEPT ![i] = "stale"]
        /\ UNCHANGED <<indexed, missed>>
     \/ /\ row[i] \in {"active", "stale"}
        /\ row' = [row EXCEPT ![i] = "archived"]
        /\ LeavesUntold(i)
  /\ UNCHANGED <<hot, tiered, evictor, toTell, searches>>

-----------------------------------------------------------------------------
(* Eviction: EnforceHNSWBounds ("retriever") and the job, which goes on to the file. *)

Ascending(S) == Orders(S, LAMBDA i, j : Worth[i] < Worth[j])

(* The size is read, and the ids later. *)
MeasureIndex(p) ==
  LET excess == Cardinality(indexed) - MaxIndexed
  IN /\ evictor[p].pc = "idle"
     /\ excess > 0 \/ p = "job"
     /\ evictor' = [evictor EXCEPT ![p] =
          [@ EXCEPT !.pc = IF excess > 0 THEN "rank" ELSE "file",
                    !.excess = Max({0, Min({excess, BatchLimit})})]]
     /\ UNCHANGED <<row, indexed, hot, tiered, toTell, searches, agings, missed>>

RankIndexed(p) ==
  /\ evictor[p].pc = "rank"
  /\ \E list \in Ascending(indexed) :
       evictor' = [evictor EXCEPT ![p] = [@ EXCEPT !.pc = "evict", !.list = list]]
  /\ UNCHANGED <<row, indexed, hot, tiered, toTell, searches, agings, missed>>

(* RemoveFromHNSW succeeds for a vector that is gone, which counts as one evicted. *)
EvictNext(p) ==
  /\ evictor[p].pc = "evict" /\ evictor[p].excess > 0 /\ evictor[p].list # <<>>
  /\ indexed' = indexed \ {Head(evictor[p].list)}
  /\ evictor' = [evictor EXCEPT ![p] = [evictor[p] EXCEPT !.pc = "tell", !.excess = @ - 1]]
  /\ UNCHANGED <<row, hot, tiered, toTell, searches, agings, missed>>

(* t.cache.Remove, or the job's onEvicted. *)
TellEvicted(p) ==
  /\ evictor[p].pc = "tell"
  /\ Told(Head(evictor[p].list))
  /\ evictor' = [evictor EXCEPT ![p] = [evictor[p] EXCEPT !.pc = "evict", !.list = Tail(@)]]
  /\ UNCHANGED <<row, indexed, tiered, toTell, searches, agings>>

EvictionEnds(p) ==
  /\ evictor[p].pc = "evict" /\ (evictor[p].excess = 0 \/ evictor[p].list = <<>>)
  /\ evictor' = [evictor EXCEPT ![p] =
       IF p = "job" THEN [NoEviction EXCEPT !.pc = "file"] ELSE NoEviction]
  /\ UNCHANGED <<row, indexed, hot, tiered, toTell, searches, agings, missed>>

(* If the file is too large the least important of the archived and stale rows are to
   be deleted. *)
MeasureFile ==
  /\ evictor["job"].pc = "file"
  /\ \E tooLarge \in BOOLEAN, least \in Ascending({i \in Items : row[i] \in {"archived", "stale"}}) :
       evictor' = [evictor EXCEPT !["job"] =
            IF tooLarge /\ least # <<>>
            THEN [NoEviction EXCEPT !.pc = "delete", !.list = SubSeq(least, 1, Min({Len(least), BatchLimit}))]
            ELSE NoEviction]
  /\ UNCHANGED <<row, indexed, hot, tiered, toTell, searches, agings, missed>>

(* Each of the list, whatever its state is by now.  No callback is made.  The size that is
   read after every tenth is still too large: SQLite keeps the pages of deleted rows. *)
DeleteNext ==
  LET list == evictor["job"].list
  IN /\ evictor["job"].pc = "delete"
     /\ row' = [row EXCEPT ![Head(list)] = "deleted"]
     /\ LeavesUntold(Head(list))
     /\ evictor' = [evictor EXCEPT !["job"] =
          IF Len(list) = 1 THEN NoEviction ELSE [@ EXCEPT !.list = Tail(list)]]
     /\ UNCHANGED <<hot, tiered, toTell, searches, agings>>

TiersNext ==
  \/ \E s \in Searchers :
       \/ \E near \in Nearness : SearchCache(s, near)
       \/ SearchIndex(s) \/ Promote(s) \/ SearchWords(s) \/ Accessed(s) \/ Done(s)
  \/ \E i \in Items :
       \/ Touch(i) \/ CreateItem(i) \/ OnMemoryCreated(i) \/ DeleteItem(i) \/ OnMemoryDeleted(i)
       \/ AgeItem(i)
  \/ \E p \in Evictors :
       MeasureIndex(p) \/ RankIndexed(p) \/ EvictNext(p) \/ TellEvicted(p) \/ EvictionEnds(p)
  \/ "job" \in Evictors /\ (MeasureFile \/ DeleteNext)

TiersSpec == TiersInit /\ [][TiersNext]_tiersVars

-----------------------------------------------------------------------------
(* Properties. *)

TiersTypeOK ==
  /\ row \in [Items -> {"none", "active", "stale", "archived", "deleted"}]
  /\ indexed \subseteq StoredItems
  /\ Range(hot) \subseteq Items /\ IsInjective(hot) /\ Len(hot) <= CacheSize
  /\ \A s \in Searchers : tiered[s].pc \in {"idle", "index", "promote", "promoteWords", "answered", "accessed"}
  /\ \A p \in Evictors : /\ evictor[p].pc \in {"idle", "rank", "evict", "tell", "file", "delete"}
                         /\ evictor[p].excess \in 0 .. BatchLimit
  /\ missed \subseteq Items

BeingTold(i) ==
  \/ <<"deleted", i>> \in toTell
  \/ \E p \in Evictors : evictor[p].pc = "tell" /\ Head(evictor[p].list) = i

(* The cache, whose answers are given without a look at the rows, holds memories of the
   index: one that was deleted or evicted is gone from it once it has been told, unless a
   copy was on its way to the cache then, or a job took it that does not tell
   (tiered_retriever.go, OnMemoryDeleted, EnforceHNSWBounds; eviction_processor.go). *)
CacheFollowsTheIndex == \A i \in Range(hot) \ indexed : BeingTold(i) \/ i \in missed

(* Nothing that was deleted is answered from the cache.  The code does not keep this. *)
DeletedAreNotServed == \A i \in Range(hot) : row[i] = "deleted" => BeingTold(i)
=============================================================================
