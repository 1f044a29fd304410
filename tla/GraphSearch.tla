------------------------------- MODULE GraphSearch -------------------------------
(***************************************************************************)
(* The breadth-first searches of the graph engine: FindPath, and            *)
(* TraverseFrom with its limits.  Each expansion reads the links of one     *)
(* entity from the database, and goes on without those that it fails to     *)
(* read; between two of them others add and remove links.                   *)
(***************************************************************************)
EXTENDS Integers, Sequences, FiniteSets, SequencesExt, FiniteSetsExt

CONSTANTS
  Vertices,    \* entities of one owner
  Links,       \* the relationships there may be, pairs <<source, target>>
  Shapes,      \* graphs that a search may begin in, sets of links
  Asked,       \* what is searched: [kind, from, to]
  MaxDepth,    \* of a traversal that names none (5)
  MaxResults,  \* nodes at which a traversal stops (100)
  MaxChanges,  \* bound on the changes of the graph during a search
  MaxMissed    \* bound on the expansions with a failing read

ASSUME GraphSearchAssumption ==
  /\ IsFiniteSet(Vertices)
  /\ Asked \subseteq [kind : {"path", "traverse"}, from : Vertices, to : Vertices]
  /\ Links \subseteq Vertices \X Vertices /\ \A l \in Links : l[1] # l[2]
  /\ Shapes \subseteq SUBSET Links
  /\ MaxDepth \in Nat \ {0} /\ MaxResults \in Nat \ {0} /\ MaxChanges \in Nat
  /\ MaxMissed \in Nat

VARIABLES
  graph,     \* the relationships that are strong enough and whose other end exists
  search,    \* what is asked
  phase,     \* "off", "on", "found", "none" or "done"
  queue,
  parent,    \* of every entity that was visited; the start is its own
  answer,    \* FindPath's
  changes,   \* how many times the graph changed during the search
  missed,    \* history: how many expansions did not get all links of their entity
  seen       \* history: every link that a read of the search returned

searchVars == <<graph, search, phase, queue, parent, answer, changes, missed, seen>>

SearchInit ==
  /\ graph \in Shapes /\ search \in Asked
  /\ phase = "off" /\ queue = <<>> /\ parent = <<>> /\ answer = <<>>
  /\ changes = 0 /\ missed = 0 /\ seen = {}

Visited == DOMAIN parent

(* getEdges in both directions. *)
LinksOf(e)    == {l \in graph : e \in {l[1], l[2]}}
Across(e, links) == {f \in Vertices : {<<e, f>>, <<f, e>>} \cap links # {}}
Neighbours(e) == Across(e, graph)

(* From the start to e along the parents. *)
PathTo[e \in Visited] == IF parent[e] = e THEN <<e>> ELSE Append(PathTo[parent[e]], e)

Depth(e) == Len(PathTo[e]) - 1

-----------------------------------------------------------------------------
(* An entity is its own path. *)
StartSearch ==
  /\ phase = "off"
  /\ IF search.kind = "path" /\ search.from = search.to
     THEN phase' = "found" /\ answer' = <<search.from>>
     ELSE phase' = "on" /\ UNCHANGED answer
  /\ queue' = <<search.from>>
  /\ parent' = [e \in {search.from} |-> e]
  /\ UNCHANGED <<graph, search, changes, missed, seen>>

(* Slip: what was found last is expanded first. *)
VisitDepthFirst(from, found, queued) ==
  /\ parent' = [f \in Visited \cup found |-> IF f \in Visited THEN parent[f] ELSE from]
  /\ \E s \in SetToSeqs(queued \ Visited) : queue' = s \o Tail(queue)

(* The rows come in any order. *)
Visit(from, found, queued) ==
  /\ parent' = [f \in Visited \cup found |-> IF f \in Visited THEN parent[f] ELSE from]
  /\ \E s \in SetToSeqs(queued \ Visited) : queue' = Tail(queue) \o s

(* An expansion gets the links of its entity: none if the read of the relationships
   fails, and not those whose other end it fails to read. *)
ReadLinks(e, got) ==
  /\ got \subseteq LinksOf(e)
  /\ \/ got = LinksOf(e) /\ UNCHANGED missed
     \/ got # LinksOf(e) /\ missed < MaxMissed /\ missed' = missed + 1
  /\ seen' = seen \cup got

ExpandPath ==
  /\ search.kind = "path" /\ phase = "on" /\ queue # <<>>
  /\ \E got \in SUBSET LinksOf(Head(queue)) :
       LET found == Across(Head(queue), got)
       IN /\ ReadLinks(Head(queue), got)
          /\ IF search.to \in found
             THEN /\ phase' = "found"
                  /\ answer' = Append(PathTo[Head(queue)], search.to)
                  /\ UNCHANGED <<queue, parent>>
             ELSE Visit(Head(queue), found, found) /\ UNCHANGED <<phase, answer>>
  /\ UNCHANGED <<graph, search, changes>>

NoPath ==
  /\ search.kind = "path" /\ phase = "on" /\ queue = <<>>
  /\ phase' = "none"
  /\ UNCHANGED <<graph, search, queue, parent, answer, changes, missed, seen>>

(* The nodes are counted between expansions; those of the last depth are not queued. *)
ExpandTraversal ==
  /\ search.kind = "traverse" /\ phase = "on"
  /\ queue # <<>> /\ Cardinality(Visited) < MaxResults
  /\ \E got \in SUBSET LinksOf(Head(queue)) :
       LET found == Across(Head(queue), got)
       IN /\ ReadLinks(Head(queue), got)
          /\ Visit(Head(queue), found, IF Depth(Head(queue)) + 1 < MaxDepth THEN found ELSE {})
  /\ UNCHANGED <<graph, search, phase, answer, changes>>

TraversalEnds ==
  /\ search.kind = "traverse" /\ phase = "on"
  /\ queue = <<>> \/ Cardinality(Visited) >= MaxResults
  /\ phase' = "done"
  /\ UNCHANGED <<graph, search, queue, parent, answer, changes, missed, seen>>

(* Memories that are stored meanwhile, and DeleteAll. *)
GraphChanges ==
  /\ phase = "on" /\ changes < MaxChanges /\ changes' = changes + 1
  /\ \E l \in Links : graph' = IF l \in graph THEN graph \ {l} ELSE graph \cup {l}
  /\ UNCHANGED <<search, phase, queue, parent, answer, missed, seen>>

SearchStep == StartSearch \/ ExpandPath \/ NoPath \/ ExpandTraversal \/ TraversalEnds
SearchNext == SearchStep \/ GraphChanges

SearchSpec == SearchInit /\ [][SearchNext]_searchVars

-----------------------------------------------------------------------------
(* Properties. *)

SearchTypeOK ==
  /\ graph \subseteq Links /\ search \in Asked
  /\ phase \in {"off", "on", "found", "none", "done"}
  /\ queue \in Seq(Vertices) /\ answer \in Seq(Vertices)
  /\ Visited \subseteq Vertices /\ \A e \in Visited : parent[e] \in Visited
  /\ changes \in 0 .. MaxChanges /\ missed \in 0 .. MaxMissed /\ seen \subseteq Links

(* The entities within n links of the start, by definition. *)
Within[n \in 0 .. Cardinality(Vertices)] ==
  IF n = 0 THEN {search.from} ELSE Within[n - 1] \cup UNION {Neighbours(e) : e \in Within[n - 1]}
Distance(e) == Min({n \in 0 .. Cardinality(Vertices) : e \in Within[n]})

(* If the graph stays as it is and no read fails, FindPath's answer is a shortest path,
   it finds none only if there is none, and a traversal that is not cut off at MaxResults
   holds exactly the entities within MaxDepth, each at its distance (graph.go, "finds the
   shortest path", TraverseFrom).  A search goes on after a read that failed, so it may
   then answer with a longer path, with none, or with fewer entities, but never with a
   distance that is too short.  Whatever others do meanwhile, every step of a path is a
   link that the search has read. *)
SearchesAreTrue ==
  /\ changes = 0 /\ missed = 0 =>
       /\ phase = "found" => Len(answer) - 1 = Distance(search.to)
       /\ phase = "none" => search.to \notin Within[Cardinality(Vertices)]
       /\ phase = "done" =>
            /\ \A e \in Visited : Depth(e) = Distance(e)
            /\ Cardinality(Visited) < MaxResults =>
                 Visited = Within[Min({MaxDepth, Cardinality(Vertices)})]
  /\ changes = 0 =>
       /\ phase = "found" => Len(answer) - 1 >= Distance(search.to)
       /\ phase = "done" => \A e \in Visited : Depth(e) >= Distance(e)
  /\ phase = "found" =>
       /\ answer[1] = search.from /\ Last(answer) = search.to
       /\ \A i \in 2 .. Len(answer) :
            {<<answer[i - 1], answer[i]>>, <<answer[i], answer[i - 1]>>} \cap seen # {}
=============================================================================
