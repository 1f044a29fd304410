----------------------------------- MODULE Hnsw -----------------------------------
(***************************************************************************)
(* The vector index: a layered graph of proximity links, searched greedily  *)
(* from one entry point, and its file.  Every operation holds the index's   *)
(* lock from one end to the other.  A node's number is its place in a list  *)
(* that removal leaves a hole in.                                           *)
(***************************************************************************)
EXTENDS Integers, Sequences, FiniteSets, SequencesExt, FiniteSetsExt

CONSTANTS
  Ids,             \* of memories; they come in order
  Points,          \* vectors
  Metric,        \* between two of them: a function on pairs
  VectorsOf,       \* the vectors that an id may be added with
  Nil,             \* the vector of a removed node
  M, EfConstruction, EfSearch,
  Levels,          \* random levels of new nodes
  Tables,          \* rows that the database may hold, as a rebuild reads them
  MaxRemoved, MaxRestarts   \* bounds on removals and on restarts

Rows == [id : Ids, vector : Points]

ASSUME HnswAssumption ==
  /\ IsFiniteSet(Ids) /\ Ids = 1 .. Cardinality(Ids) /\ Nil \notin Points
  /\ Metric \in [Points \X Points -> Nat]
  /\ VectorsOf \in [Ids -> SUBSET Points]
  /\ {M, EfConstruction, EfSearch} \subseteq Nat \ {0}
  /\ Tables \subseteq Seq(Rows)
  /\ \A table \in Tables : \A i, j \in DOMAIN table : table[i].id = table[j].id => i = j
  /\ Levels \subseteq Nat /\ MaxRemoved \in Nat /\ MaxRestarts \in Nat

VARIABLES
  nodes,     \* [id, vector, layers]; layers[l + 1] holds the links of layer l
  maxLvl,
  entryIx,   \* 0: none
  added,     \* the last id that was given out
  removed, restarts,
  read,      \* history: the rows that the last rebuild read
  cut        \* history: a link was dropped, a node removed, a vector replaced

hnswVars == <<nodes, maxLvl, entryIx, added, removed, restarts, read, cut>>

HnswInit ==
  /\ nodes = <<>> /\ maxLvl = 0 /\ entryIx = 0
  /\ added = 0 /\ removed = 0 /\ restarts = 0 /\ read = {} /\ cut = FALSE

Live(ns)    == {ix \in DOMAIN ns : ns[ix].vector # Nil}
LiveIds(ns) == {ns[ix].id : ix \in Live(ns)}
IndexOf(id) == CHOOSE ix \in Live(nodes) : nodes[ix].id = id

Dist(ns, v, ix)    == Metric[v, ns[ix].vector]
Closest(ns, v, S)  == CHOOSE ix \in S : \A jx \in S : Dist(ns, v, ix) <= Dist(ns, v, jx)
Farthest(ns, v, S) == CHOOSE ix \in S : \A jx \in S : Dist(ns, v, jx) <= Dist(ns, v, ix)

(* The first n of S, the closest to v first. *)
Nearest(ns, v, S, n) ==
  LET After(s) == Append(s, Closest(ns, v, S \ ToSet(s)))
      sorted[i \in 0 .. Cardinality(S)] == IF i = 0 THEN <<>> ELSE After(sorted[i - 1])
  IN sorted[Min({n, Cardinality(S)})]

LinksAt(ns, ix, l) == IF l < Len(ns[ix].layers) THEN ns[ix].layers[l + 1] ELSE <<>>

-----------------------------------------------------------------------------
(* A node that a search meets is a result if it lives and is among the ef closest. *)
Meet(ns, v, ef, s, ix) ==
  IF ix \notin DOMAIN ns \/ ix \in s.visited THEN s
  ELSE IF /\ ns[ix].vector # Nil
          /\ \/ Cardinality(s.results) < ef
             \/ Dist(ns, v, ix) < Dist(ns, v, Farthest(ns, v, s.results))
  THEN [visited |-> s.visited \cup {ix}, open |-> s.open \cup {ix},
        results |-> (IF Cardinality(s.results) < ef THEN s.results
                     ELSE s.results \ {Farthest(ns, v, s.results)}) \cup {ix}]
  ELSE [s EXCEPT !.visited = @ \cup {ix}]

MeetAll(ns, v, ef, s, links) ==
  LET met[i \in 0 .. Len(links)] == IF i = 0 THEN s ELSE Meet(ns, v, ef, met[i - 1], links[i])
  IN met[Len(links)]

(* The closest of what is open is expanded until it is farther than the worst of ef
   results. *)
Expand(ns, v, ef, l, s) ==
  IF s.open = {} THEN s
  ELSE LET c == Closest(ns, v, s.open)
       IN IF /\ Dist(ns, v, c) > Dist(ns, v, Farthest(ns, v, s.results))
             /\ Cardinality(s.results) >= ef
          THEN [s EXCEPT !.open = {}]
          ELSE MeetAll(ns, v, ef, [s EXCEPT !.open = @ \ {c}], LinksAt(ns, c, l))

(* What a search finds from an entry; every round closes a node. *)
Explored(ns, v, entry, ef, l) ==
  LET start == [visited |-> {entry}, open |-> {entry}, results |-> {entry}]
      run[i \in 0 .. Len(ns)] == IF i = 0 THEN start ELSE Expand(ns, v, ef, l, run[i - 1])
  IN run[Len(ns)].results

SearchLayer(ns, v, entry, ef, l) ==
  IF entry \notin Live(ns) THEN <<>> ELSE Nearest(ns, v, Explored(ns, v, entry, ef, l), ef)

(* The layers from high down to low, as a sequence. *)
Downwards(high, low) == IF high < low THEN <<>> ELSE [i \in 1 .. high - low + 1 |-> high - i + 1]

Lower(ns, v, ep, l) ==
  LET found == SearchLayer(ns, v, ep, 1, l) IN IF found = <<>> THEN ep ELSE found[1]

(* From the entry point through the layers from the top to one above low. *)
Descend(ns, entry, top, v, low) ==
  LET way == Downwards(top, low + 1)
      at[i \in 0 .. Len(way)] == IF i = 0 THEN entry ELSE Lower(ns, v, at[i - 1], way[i])
  IN at[Len(way)]

Start(v) == Descend(nodes, entryIx, maxLvl, v, 0)

Search(v, k) ==
  IF entryIx = 0 THEN <<>>
  ELSE LET found == SearchLayer(nodes, v, Start(v), Max({EfSearch, k}), 0)
       IN SubSeq(found, 1, Min({k, Len(found)}))

-----------------------------------------------------------------------------
PruneConnections(ns, ix, links) == Nearest(ns, ns[ix].vector, ToSet(links) \cap Live(ns), M)

(* Slip: the neighbour does not get a link back. *)
LinkForward(ns, ix, jx, l) == ns

WithLinks(ns, ix, l, links) == [ns EXCEPT ![ix].layers[l + 1] = links]

(* One neighbour's link back, if it has the layer; a list of more than 2M is pruned
   to the M closest. *)
LinkBack(ns, ix, jx, l) ==
  IF l >= Len(ns[jx].layers) THEN ns
  ELSE LET links == Append(ns[jx].layers[l + 1], ix)
       IN WithLinks(ns, jx, l, IF Len(links) > 2 * M THEN PruneConnections(ns, jx, links) ELSE links)

LinkAll(ns, ix, neighbours, l) ==
  LET linked[i \in 0 .. Len(neighbours)] ==
        IF i = 0 THEN WithLinks(ns, ix, l, neighbours) ELSE LinkBack(linked[i - 1], ix, neighbours[i], l)
  IN linked[Len(neighbours)]

(* The new node ix is linked on layer l; s is the list of nodes and the entry point. *)
LinkLayer(s, ix, l) ==
  LET found == SearchLayer(s.ns, s.ns[ix].vector, s.ep, EfConstruction, l)
  IN [ns |-> LinkAll(s.ns, ix, SubSeq(found, 1, Min({M, Len(found)})), l),
      ep |-> IF found = <<>> THEN s.ep ELSE found[1]]

LinkLayers(s, ix, way) ==
  LET linked[i \in 0 .. Len(way)] == IF i = 0 THEN s ELSE LinkLayer(linked[i - 1], ix, way[i])
  IN linked[Len(way)]

(* The index ix with a new node: what Add does to an id that it has not. *)
Inserted(ix, id, v, lvl) ==
  LET ns   == Append(ix.nodes, [id |-> id, vector |-> v, layers |-> [l \in 1 .. lvl + 1 |-> <<>>]])
      from == [ns |-> ns, ep |-> Descend(ns, ix.entry, ix.top, v, lvl)]
  IN IF ix.entry = 0
     THEN [nodes |-> ns, entry |-> Len(ns), top |-> lvl]
     ELSE [nodes |-> LinkLayers(from, Len(ns), Downwards(Min({lvl, ix.top}), 0)).ns,
           top   |-> Max({lvl, ix.top}),
           entry |-> IF lvl > ix.top THEN Len(ns) ELSE ix.entry]

Becomes(ix) == nodes' = ix.nodes /\ entryIx' = ix.entry /\ maxLvl' = ix.top

LinkDropped == \E ix \in DOMAIN nodes : \E l \in DOMAIN nodes[ix].layers :
                 ~(ToSet(nodes[ix].layers[l]) \subseteq ToSet(nodes'[ix].layers[l]))

(* Ids are new, or come back after a removal. *)
Add(id, v, lvl) ==
  /\ id <= added + 1 /\ id \notin LiveIds(nodes)
  /\ added' = Max({added, id})
  /\ Becomes(Inserted([nodes |-> nodes, entry |-> entryIx, top |-> maxLvl], id, v, lvl))
  /\ cut' = (cut \/ LinkDropped)
  /\ UNCHANGED <<removed, restarts, read>>

(* An id that is there keeps its links. *)
Replace(id, v) ==
  /\ id \in LiveIds(nodes) /\ v # nodes[IndexOf(id)].vector
  /\ nodes' = [nodes EXCEPT ![IndexOf(id)].vector = v]
  /\ cut' = TRUE
  /\ UNCHANGED <<maxLvl, entryIx, added, removed, restarts, read>>

(* Slip: the entry point stays. *)
EntryWithoutChange(ns, ix) == entryIx

(* The first node that is left, of whatever level. *)
EntryWithout(ns, ix) ==
  IF ix # entryIx THEN entryIx ELSE IF Live(ns) = {} THEN 0 ELSE Min(Live(ns))

(* The elements of s that are in S, in their order. *)
Only(s, S) ==
  LET only[i \in 0 .. Len(s)] ==
        IF i = 0 THEN <<>> ELSE IF s[i] \in S THEN Append(only[i - 1], s[i]) ELSE only[i - 1]
  IN only[Len(s)]

(* Only the nodes that it links to are asked to drop their links to it. *)
Unlinked(ix) ==
  [jx \in DOMAIN nodes |->
     IF jx = ix THEN [nodes[jx] EXCEPT !.vector = Nil, !.layers = <<>>]
     ELSE [nodes[jx] EXCEPT !.layers =
             [l \in DOMAIN @ |->
                IF jx \in ToSet(LinksAt(nodes, ix, l - 1))
                THEN Only(@[l], ToSet(@[l]) \ {ix}) ELSE @[l]]]]

RemoveVector(id) ==
  /\ id \in LiveIds(nodes) /\ removed < MaxRemoved /\ removed' = removed + 1
  /\ nodes' = Unlinked(IndexOf(id))
  /\ entryIx' = EntryWithout(nodes', IndexOf(id))
  /\ cut' = TRUE
  /\ UNCHANGED <<maxLvl, added, restarts, read>>

-----------------------------------------------------------------------------
(* The file.  Save writes the nodes that live, one after the other, but the entry
   point and the links by the numbers they had among all. *)
Empty == [nodes |-> <<>>, entry |-> 0, top |-> 0]

Saved == Only(nodes, {nodes[ix] : ix \in Live(nodes)})

(* Slip: the last node is out of range. *)
LoadsShort(ns) ==
  /\ entryIx < Len(ns)
  /\ \A ix \in DOMAIN ns : \A l \in DOMAIN ns[ix].layers :
       ToSet(ns[ix].layers[l]) \subseteq 1 .. Len(ns) - 1

(* What Load accepts; of an empty file it reads no more. *)
Loads(ns) ==
  ns # <<>> =>
    /\ entryIx \in 1 .. Len(ns)
    /\ \A ix \in DOMAIN ns : \A l \in DOMAIN ns[ix].layers :
         ToSet(ns[ix].layers[l]) \subseteq 1 .. Len(ns) /\ Len(ns[ix].layers[l]) <= 4 * Len(ns)

Rebuilt(table, lvls) ==
  LET built[i \in 0 .. Len(table)] ==
        IF i = 0 THEN Empty ELSE Inserted(built[i - 1], table[i].id, table[i].vector, lvls[i])
  IN built[Len(table)]

LoadFile ==
  /\ Loads(Saved)
  /\ Becomes(IF Saved = <<>> THEN Empty ELSE [nodes |-> Saved, entry |-> entryIx, top |-> maxLvl])
  /\ cut' = (cut /\ Saved # <<>>) /\ read' = read

(* The rows of the states that a rebuild takes are not the index: a row that an update
   archived is in the index only, one that the tier job evicted in the table only.  They
   are added to a new index, which draws new levels. *)
RebuildIndex ==
  /\ ~Loads(Saved)
  /\ \E table \in Tables :
       /\ \A i \in DOMAIN table : table[i].id <= added
       /\ \E lvls \in [DOMAIN table -> Levels] : Becomes(Rebuilt(table, lvls))
       /\ read' = ToSet(table)
  /\ cut' = TRUE

(* Close and a start. *)
Restart ==
  /\ restarts < MaxRestarts /\ restarts' = restarts + 1
  /\ LoadFile \/ RebuildIndex
  /\ UNCHANGED <<added, removed>>

HnswNext ==
  \/ \E id \in Ids : \/ \E v \in VectorsOf[id] : Replace(id, v) \/ \E lvl \in Levels : Add(id, v, lvl)
                     \/ RemoveVector(id)
  \/ Restart

HnswSpec == HnswInit /\ [][HnswNext]_hnswVars

-----------------------------------------------------------------------------
(* Properties. *)

HnswTypeOK ==
  /\ \A ix \in DOMAIN nodes :
       /\ nodes[ix].id \in Ids /\ nodes[ix].vector \in Points \cup {Nil}
       /\ Len(nodes[ix].layers) <= maxLvl + 1
       /\ \A l \in DOMAIN nodes[ix].layers : nodes[ix].layers[l] \in Seq(Nat \ {0})
  /\ maxLvl \in Levels \cup {0} /\ entryIx \in DOMAIN nodes \cup {0}
  /\ added \in Ids \cup {0} /\ removed \in 0 .. MaxRemoved /\ restarts \in 0 .. MaxRestarts
  /\ read \subseteq Rows /\ cut \in BOOLEAN

Closed(A) == \A ix \in A : ToSet(LinksAt(nodes, ix, 0)) \cap Live(nodes) \subseteq A

(* What a search can reach over the links of the lowest layer. *)
Reached(from) ==
  {ix \in Live(nodes) : \A A \in SUBSET Live(nodes) : from \in A /\ Closed(A) => ix \in A}

(* A search that asks for no more than it considers returns exactly the nearest of
   what it can reach from where the upper layers lead it, and it can reach every
   vector unless a link was dropped, a vector replaced or a node removed (hnsw.go,
   Search, searchLayer, Add). *)
SearchIsExact ==
  entryIx # 0 =>
    \A v \in Points :
      /\ Len(nodes) <= EfSearch => Search(v, 2) = Nearest(nodes, v, Reached(Start(v)), 2)
      /\ ~cut => Reached(Start(v)) = Live(nodes)

(* As long as there are vectors a search has an answer, and all that it returns live,
   whatever was removed, and after a restart too (hnsw.go, Remove, "Update entry point
   if needed"). *)
AnswersWhileThereAreVectors ==
  Live(nodes) # {} =>
    \A v \in Points : Search(v, 1) # <<>> /\ ToSet(Search(v, EfSearch)) \subseteq Live(nodes)

VectorOf(ns) == {[id |-> ns[ix].id, vector |-> ns[ix].vector] : ix \in Live(ns)}

(* After a restart the index holds every id and vector that it held, or, if it could not
   load its file, exactly the rows that the table gave, and never some of both; and an
   index without holes comes back as it was (hnsw.go, Save, Load; sqlite.go, NewSQLite;
   sqlite_recovery.go, "Rebuild into a fresh index instance"). *)
RestartKeepsTheVectors ==
  [][restarts' # restarts =>
       /\ VectorOf(nodes') \in {VectorOf(nodes), read'}
       /\ Live(nodes) = DOMAIN nodes => nodes' = nodes /\ entryIx' = entryIx]_hnswVars

LinkedIds(ns) ==
  UNION {{<<ns[ix].id, ns[jx].id>> : jx \in ToSet(LinksAt(ns, ix, 0)) \cap Live(ns)} : ix \in Live(ns)}

(* "Load restores the index from a binary file."  The code does not once nodes were
   removed: the file has the links by numbers that the loaded list does not have. *)
LoadRestoresTheLinks ==
  [][restarts' # restarts /\ Loads(Saved) => LinkedIds(nodes') = LinkedIds(nodes)]_hnswVars

NewestIsFound == Len(nodes) \in Reached(Start(nodes[Len(nodes)].vector))

(* A vector that was just added is found.  The code does not keep this: the nearest
   node may drop its link to the new one at once (hnsw.go, pruneConnections). *)
NewVectorsAreFound == [][added' # added => NewestIsFound']_hnswVars
=============================================================================
