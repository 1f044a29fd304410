-------------------------------- MODULE Knowledge --------------------------------
(***************************************************************************)
(* The entities and relationships of one owner, as overlapping calls that   *)
(* remember find or create them and as DeleteAll sweeps them away.  Every   *)
(* step is one statement of the database; none holds a lock across two, and *)
(* no foreign key is enforced, SQLite's default, which the program keeps.   *)
(***************************************************************************)
EXTENDS Integers, Sequences, FiniteSets

CONSTANTS
  Adders,      \* goroutines, each storing what it got from one memory at a time
  Kin,         \* pairs of names whose embeddings are within the threshold
  Extractions, \* what the model gets from a memory: [mentioned, related], sequences of
               \* [name, type] and of [from, to, relation, confidence]
  Nobody,      \* nil
  MaxIds,      \* bounds on the rows of the two tables together,
  MaxMemories  \* and on the memories

ASSUME KnowledgeAssumption ==
  /\ MaxIds \in Nat /\ MaxMemories \in Nat
  /\ Nobody \notin 1 .. MaxIds
  /\ \A x \in Extractions :
       /\ x.mentioned \in Seq({x.mentioned[i] : i \in 1 .. Len(x.mentioned)})
       /\ x.related \in Seq({x.related[i] : i \in 1 .. Len(x.related)})
       /\ \A i \in 1 .. Len(x.related) : x.related[i].confidence \in Nat

VARIABLES
  entities,       \* rows: [id, name, type]
  relationships,  \* rows: [id, source, target, relation, strength, count]
  mentions,       \* rows: <<entity, memory>>
  evidence,       \* rows: <<relationship, memory>>
  lastId,
  work,           \* what each adder is at
  memoriesSeen,   \* how many memories were begun
  sweep,          \* what DeleteAll deletes next; "idle" if it does not run
  raced,          \* history: two adders were at work together,
  swept,          \* DeleteAll was while an adder was,
  failed          \* a statement failed

knowledgeVars == <<entities, relationships, mentions, evidence, lastId, work, memoriesSeen,
                   sweep, raced, swept, failed>>

rows == <<entities, relationships, mentions, evidence, lastId>>

Resting == [at |-> "rest", memory |-> 0, mentioned |-> <<>>, related |-> <<>>,
            source |-> Nobody, target |-> Nobody, strength |-> 0]

KnowledgeInit ==
  /\ entities = {} /\ relationships = {} /\ mentions = {} /\ evidence = {} /\ lastId = 0
  /\ work = [a \in Adders |-> Resting]
  /\ memoriesSeen = 0 /\ sweep = "idle"
  /\ raced = FALSE /\ swept = FALSE /\ failed = FALSE

Busy     == {a \in Adders : work[a] # Resting}
Named(n) == {e \in entities : e.name = n}
Alike(n) == {e \in entities : e.name = n \/ {<<n, e.name>>, <<e.name, n>>} \cap Kin # {}}

(* Two entities may be related in several ways, each with a row of its own. *)
Linked(s, t, relation) ==
  {r \in relationships : r.source = s /\ r.target = t /\ r.relation = relation}

(* Where work goes on when what came before is done. *)
Begun(w) ==
  CASE w.mentioned # <<>> -> [w EXCEPT !.at = "exact"]
    [] w.mentioned = <<>> /\ w.related # <<>> -> [w EXCEPT !.at = "source"]
    [] OTHER -> Resting
MentionDone(w)  == Begun([w EXCEPT !.mentioned = Tail(@)])
RelationDone(w) == Begun([w EXCEPT !.related = Tail(@), !.source = Nobody, !.target = Nobody,
                                   !.strength = 0])

Mentioned(a) == Head(work[a].mentioned)
Related(a)   == Head(work[a].related)

Goes(a, w) == work' = [work EXCEPT ![a] = w]

-----------------------------------------------------------------------------
(* processNewMemory has created the memory. *)
BeginMemory(a, x) ==
  /\ work[a] = Resting /\ memoriesSeen < MaxMemories /\ memoriesSeen' = memoriesSeen + 1
  /\ Goes(a, Begun([Resting EXCEPT !.memory = memoriesSeen', !.mentioned = x.mentioned,
                                   !.related = x.related]))
  /\ raced' = (raced \/ Busy # {})
  /\ swept' = (swept \/ sweep # "idle")
  /\ UNCHANGED <<rows, sweep, failed>>

-----------------------------------------------------------------------------
(* Entities.  ResolveEntity: by name and type, by name or alias of any type, by
   what is alike; nothing in the program adds an alias.  A lookup that fails counts
   as one that finds nothing. *)
LooksUp(a, where, found, otherwise) ==
  /\ work[a].at = where
  /\ \/ /\ \/ \E e \in found : Goes(a, [work[a] EXCEPT !.at = "mention", !.source = e.id])
           \/ found = {} /\ Goes(a, [work[a] EXCEPT !.at = otherwise])
        /\ UNCHANGED failed
     \/ Goes(a, [work[a] EXCEPT !.at = otherwise]) /\ failed' = TRUE
  /\ UNCHANGED <<rows, memoriesSeen, sweep, raced, swept>>

FindsExact(a) ==
  LooksUp(a, "exact", {e \in Named(Mentioned(a).name) : e.type = Mentioned(a).type}, "alias")

(* Slip: the lookup by alias asks for the type too. *)
FindsAliasOfType(a) ==
  LooksUp(a, "alias", {e \in Named(Mentioned(a).name) : e.type = Mentioned(a).type}, "create")

FindsAlias(a) == LooksUp(a, "alias", Named(Mentioned(a).name), "alike")

FindsAlike(a) == LooksUp(a, "alike", Alike(Mentioned(a).name), "create")

(* No constraint is on the names: an insertion fails for other reasons only. *)
CreatesEntity(a) ==
  /\ work[a].at = "create" /\ lastId < MaxIds
  /\ \/ /\ lastId' = lastId + 1
        /\ entities' = entities \cup
             {[id |-> lastId', name |-> Mentioned(a).name, type |-> Mentioned(a).type]}
        /\ Goes(a, [work[a] EXCEPT !.at = "mention", !.source = lastId'])
        /\ UNCHANGED failed
     \/ Goes(a, MentionDone(work[a])) /\ failed' = TRUE /\ UNCHANGED <<entities, lastId>>
  /\ UNCHANGED <<relationships, mentions, evidence, memoriesSeen, sweep, raced, swept>>

(* An error of this insertion is dropped. *)
Mentions(a) ==
  /\ work[a].at = "mention"
  /\ mentions' \in {mentions, mentions \cup {<<work[a].source, work[a].memory>>}}
  /\ Goes(a, MentionDone([work[a] EXCEPT !.source = Nobody]))
  /\ UNCHANGED <<entities, relationships, evidence, lastId, memoriesSeen, sweep, raced, swept, failed>>

-----------------------------------------------------------------------------
(* Relationships.  Each end is looked up by name, whatever its type; without one of
   them the next relationship follows.  Errors are dropped: a lookup that fails finds
   nothing, a write that fails leaves its row. *)
FindsSource(a) ==
  /\ work[a].at = "source"
  /\ \E e \in {x.id : x \in Named(Related(a).from)} \cup {Nobody} :
       /\ Goes(a, [work[a] EXCEPT !.at = "target", !.source = e])
  /\ UNCHANGED <<rows, memoriesSeen, sweep, raced, swept, failed>>

FindsTarget(a) ==
  /\ work[a].at = "target"
  /\ \E e \in {x.id : x \in Named(Related(a).to)} \cup {Nobody} :
       /\ IF Nobody \in {e, work[a].source} THEN Goes(a, RelationDone(work[a]))
          ELSE Goes(a, [work[a] EXCEPT !.at = "find", !.target = e])
  /\ UNCHANGED <<rows, memoriesSeen, sweep, raced, swept, failed>>

(* Of the row that is found source then holds the id. *)
FindsRelationship(a) ==
  /\ work[a].at = "find"
  /\ LET same == Linked(work[a].source, work[a].target, Related(a).relation)
     IN \/ /\ \E r \in same :
                Goes(a, [work[a] EXCEPT !.at = "strengthen", !.source = r.id, !.strength = r.strength])
           /\ UNCHANGED failed
        \/ Goes(a, [work[a] EXCEPT !.at = "relate"]) /\ failed' = (failed \/ same # {})
  /\ UNCHANGED <<rows, memoriesSeen, sweep, raced, swept>>

(* Slip: any new confidence moves the strength. *)
StrengthensAlways(a) ==
  /\ work[a].at = "strengthen"
  /\ relationships' =
       {IF r.id = work[a].source
        THEN [r EXCEPT !.strength = (work[a].strength + Related(a).confidence) \div 2]
        ELSE r : r \in relationships}
  /\ Goes(a, [work[a] EXCEPT !.at = "count"])
  /\ UNCHANGED <<entities, mentions, evidence, lastId, memoriesSeen, sweep, raced, swept, failed>>

(* The strength moves half the way to a confidence that is above the one that was
   read.  The evidence follows. *)
Strengthens(a) ==
  /\ work[a].at = "strengthen"
  /\ \/ UNCHANGED relationships
     \/ /\ Related(a).confidence > work[a].strength
        /\ relationships' =
             {IF r.id = work[a].source
              THEN [r EXCEPT !.strength = (work[a].strength + Related(a).confidence) \div 2]
              ELSE r : r \in relationships}
  /\ Goes(a, [work[a] EXCEPT !.at = "count"])
  /\ UNCHANGED <<entities, mentions, evidence, lastId, memoriesSeen, sweep, raced, swept, failed>>

(* CreateRelationshipEvidence and IncrementRelationshipEvidence. *)
CountsEvidence(a) ==
  /\ work[a].at = "count"
  /\ evidence' \in {evidence, evidence \cup {<<work[a].source, work[a].memory>>}}
  /\ relationships' \in {relationships,
                         {IF r.id = work[a].source THEN [r EXCEPT !.count = @ + 1] ELSE r :
                            r \in relationships}}
  /\ Goes(a, RelationDone(work[a]))
  /\ UNCHANGED <<entities, mentions, lastId, memoriesSeen, sweep, raced, swept, failed>>

(* A new relationship; its first evidence is not counted. *)
Relates(a) ==
  /\ work[a].at = "relate" /\ lastId < MaxIds
  /\ \/ /\ lastId' = lastId + 1
        /\ relationships' = relationships \cup
             {[id |-> lastId', source |-> work[a].source, target |-> work[a].target,
               relation |-> Related(a).relation, strength |-> Related(a).confidence, count |-> 0]}
        /\ evidence' \in {evidence, evidence \cup {<<lastId', work[a].memory>>}}
        /\ UNCHANGED failed
     \/ failed' = TRUE /\ UNCHANGED <<relationships, evidence, lastId>>
  /\ Goes(a, RelationDone(work[a]))
  /\ UNCHANGED <<entities, mentions, memoriesSeen, sweep, raced, swept>>

-----------------------------------------------------------------------------
(* DeleteAll: relationships, then entities; mentions and evidence stay.  The memories
   follow, which is not a matter of these tables. *)
DeleteAll ==
  /\ sweep = "idle" /\ sweep' = "relationships"
  /\ swept' = (swept \/ Busy # {})
  /\ UNCHANGED <<rows, work, memoriesSeen, raced, failed>>

(* Slip: the entities go first. *)
SweepEntitiesFirst ==
  /\ \/ sweep = "relationships" /\ sweep' = "entities" /\ entities' = {} /\ UNCHANGED relationships
     \/ sweep = "entities" /\ sweep' = "idle" /\ relationships' = {} /\ UNCHANGED entities
  /\ UNCHANGED <<mentions, evidence, lastId, work, memoriesSeen, raced, swept, failed>>

Sweep ==
  /\ \/ sweep = "relationships" /\ sweep' = "entities" /\ relationships' = {} /\ UNCHANGED entities
     \/ sweep = "entities" /\ sweep' = "idle" /\ entities' = {} /\ UNCHANGED relationships
  /\ UNCHANGED <<mentions, evidence, lastId, work, memoriesSeen, raced, swept, failed>>

KnowledgeNext ==
  \/ \E a \in Adders :
       \/ \E x \in Extractions : BeginMemory(a, x)
       \/ FindsExact(a) \/ FindsAlias(a) \/ FindsAlike(a) \/ CreatesEntity(a) \/ Mentions(a)
       \/ FindsSource(a) \/ FindsTarget(a) \/ FindsRelationship(a)
       \/ Strengthens(a) \/ CountsEvidence(a) \/ Relates(a)
  \/ DeleteAll \/ Sweep

KnowledgeSpec == KnowledgeInit /\ [][KnowledgeNext]_knowledgeVars

-----------------------------------------------------------------------------
(* Properties. *)

KnowledgeTypeOK ==
  /\ lastId \in 0 .. MaxIds
  /\ {e.id : e \in entities} \cup {r.id : r \in relationships} \subseteq 1 .. lastId
  /\ mentions \subseteq (1 .. lastId) \X (1 .. MaxMemories)
  /\ evidence \subseteq (1 .. lastId) \X (1 .. MaxMemories)
  /\ \A a \in Adders : {work[a].source, work[a].target} \subseteq 1 .. lastId \cup {Nobody}
  /\ memoriesSeen \in 0 .. MaxMemories
  /\ sweep \in {"idle", "relationships", "entities"}

(* No two entities have a name in common, of whatever types they are, and no two
   relationships their ends and relation, though no constraint says so, unless calls
   overlapped or a lookup failed (entity.go, ResolveEntity; engine_entity_ops.go,
   detectAndStoreRelationships). *)
RowsAreUnique ==
  raced \/ swept \/ failed \/
  /\ \A e, f \in entities : e.name = f.name => e = f
  /\ \A r, s \in relationships :
       r.source = s.source /\ r.target = s.target /\ r.relation = s.relation => r = s

(* A relationship never weakens unless a strength that was read is written after
   another was (engine_entity_ops.go, detectAndStoreRelationships). *)
StrengthOnlyGrows ==
  [][raced \/ \A r \in relationships, s \in relationships' : r.id = s.id => s.strength >= r.strength]_knowledgeVars

(* Both ends of a relationship exist at every moment, unless DeleteAll ran while a
   memory was stored (engine_lifecycle.go, "Delete relationships first"). *)
EndsExist ==
  swept \/ \A r \in relationships : {r.source, r.target} \subseteq {e.id : e \in entities}
=============================================================================
