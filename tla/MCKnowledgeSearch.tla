---------------------------- MODULE MCKnowledgeSearch ----------------------------
(***************************************************************************)
(* What the engine knows and how it is searched: the entities and           *)
(* relationships that calls write, the searches of their graph, and the     *)
(* vector index.  A behaviour moves one of the three, and the others rest.  *)
(***************************************************************************)
EXTENDS Knowledge, GraphSearch, Hnsw

CONSTANTS ann, bob, anna, person, place,   \* names and types of entities
          knows, manages                   \* and types of relationships

VARIABLE part

all == <<part, knowledgeVars, searchVars, hnswVars>>

MCKin == {<<ann, anna>>}
(* Confidences are sixteenths. *)
MCExtractions ==
  LET link(relation, c) == [from |-> ann, to |-> bob, relation |-> relation, confidence |-> c]
  IN {[mentioned |-> <<[name |-> ann, type |-> person], [name |-> bob, type |-> person]>>,
       related   |-> <<link(knows, 8)>>],
      [mentioned |-> <<[name |-> ann, type |-> place]>>,
       related   |-> <<link(knows, 4), link(manages, 4)>>],
      [mentioned |-> <<[name |-> anna, type |-> person]>>,
       related   |-> <<link(knows, 16)>>]}

MCVertices == 1 .. 5
MCLinks    == {l \in MCVertices \X MCVertices : l[1] < l[2]}
(* Every undirected graph on five entities with at most five links. *)
MCShapes   == UNION {kSubset(n, MCLinks) : n \in 0 .. 5}
MCAsked    == {[kind |-> "path", from |-> 1, to |-> 5], [kind |-> "path", from |-> 1, to |-> 1],
               [kind |-> "traverse", from |-> 1, to |-> 1]}

MCIds    == 1 .. 4
MCPoints == 1 .. 5
(* The first vector is near to all others, which are far from each other; no two
   distances are the same. *)
MCMetric ==
  [p \in MCPoints \X MCPoints |->
     LET a == Min({p[1], p[2]})
         b == Max({p[1], p[2]})
     IN IF a = b THEN 0 ELSE IF a = 1 THEN b ELSE 10 * a + b]
(* The third id is added with either of two vectors, or is given the other later. *)
MCVectorsOf == [id \in MCIds |-> IF id = 3 THEN {3, 5} ELSE {id}]
(* No row is left, rows that a removal did not reach, and rows that are in no index. *)
MCTables ==
  LET row(id, v) == [id |-> id, vector |-> v]
  IN {<<>>, <<row(1, 1), row(2, 2)>>, <<row(2, 2), row(3, 5), row(1, 1)>>,
      <<row(4, 4), row(1, 1), row(3, 3), row(2, 2)>>}

KnowledgeSearchInit ==
  /\ part \in {"knowledge", "search", "index"}
  /\ KnowledgeInit /\ SearchInit /\ HnswInit
  /\ part # "search" => graph = {} /\ search.kind = "traverse"

(* The parts other than the one that moves rest. *)
OthersRest ==
  /\ UNCHANGED part
  /\ part # "knowledge" => UNCHANGED knowledgeVars
  /\ part # "search"    => UNCHANGED searchVars
  /\ part # "index"     => UNCHANGED hnswVars

KnowledgeSearchNext ==
  /\ OthersRest
  /\ \/ part = "knowledge" /\ KnowledgeNext
     \/ part = "search"    /\ SearchNext
     \/ part = "index"     /\ HnswNext

KnowledgeSearchSpec == KnowledgeSearchInit /\ [][KnowledgeSearchNext]_all
=============================================================================
