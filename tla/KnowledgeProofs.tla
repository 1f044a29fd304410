----------------------------- MODULE KnowledgeProofs -----------------------------
(***************************************************************************)
(* What holds of entities and relationships, for any number of callers, any *)
(* extractions and any statements that fail; what the searches of their     *)
(* graph answer, for any graph, limits and changes meanwhile; and what the  *)
(* vector index finds, for any vectors, distances, levels and parameters.   *)
(***************************************************************************)
EXTENDS Knowledge, GraphSearch, Hnsw, FiniteSetTheorems, SequenceTheorems, WellFoundedInduction,
        TLAPS

-----------------------------------------------------------------------------
(* Knowledge: types. *)
AllMentions  == UNION {{x.mentioned[i] : i \in 1 .. Len(x.mentioned)} : x \in Extractions}
AllRelations == UNION {{x.related[i] : i \in 1 .. Len(x.related)} : x \in Extractions}

OfMentions  == {"exact", "alias", "alike", "create", "mention"}
OfRelations == {"source", "target", "find", "strengthen", "count", "relate"}

Works == [at : {"rest"} \cup OfMentions \cup OfRelations, memory : Nat,
          mentioned : Seq(AllMentions), related : Seq(AllRelations),
          source : 1 .. MaxIds \cup {Nobody}, target : 1 .. MaxIds \cup {Nobody}, strength : Nat]

Relations == {r.relation : r \in AllRelations}

RelationshipRows == [id : 1 .. MaxIds, source : 1 .. MaxIds, target : 1 .. MaxIds,
                     relation : Relations, strength : Nat, count : Nat]

(* What an adder is at comes with what it needs for it. *)
Fits(w) ==
  /\ w \in Works
  /\ w.at \in OfMentions => w.mentioned # <<>>
  /\ w.at \in OfRelations => w.related # <<>>
  /\ w.at \in {"mention", "strengthen"} => w.source # Nobody
  /\ w.at \in {"find", "relate"} => Nobody \notin {w.source, w.target}

KnowledgeTypes ==
  /\ lastId \in 0 .. MaxIds /\ memoriesSeen \in Nat
  /\ \A e \in entities : e.id \in 1 .. lastId
  /\ relationships \subseteq RelationshipRows
  /\ \A r \in relationships : r.id \in 1 .. lastId
  /\ \A r, s \in relationships : r.id = s.id => r = s
  /\ work \in [Adders -> Works] /\ \A a \in Adders : Fits(work[a])

LEMMA ExtractionsTyped ==
  /\ \A x \in Extractions : x.mentioned \in Seq(AllMentions) /\ x.related \in Seq(AllRelations)
  /\ \A r \in AllRelations : r.confidence \in Nat
<1>1. ASSUME NEW x \in Extractions PROVE x.mentioned \in Seq(AllMentions) /\ x.related \in Seq(AllRelations)
  <2>1. /\ {x.mentioned[i] : i \in 1 .. Len(x.mentioned)} \subseteq AllMentions
        /\ {x.related[i] : i \in 1 .. Len(x.related)} \subseteq AllRelations
    BY DEF AllMentions, AllRelations
  <2>2. \A S, T : S \subseteq T => Seq(S) \subseteq Seq(T)
    OBVIOUS
  <2>3. /\ Seq({x.mentioned[i] : i \in 1 .. Len(x.mentioned)}) \subseteq Seq(AllMentions)
        /\ Seq({x.related[i] : i \in 1 .. Len(x.related)}) \subseteq Seq(AllRelations)
    BY <2>1, <2>2
  <2> QED  BY <2>3, KnowledgeAssumption
<1>2. ASSUME NEW r \in AllRelations PROVE r.confidence \in Nat
  BY KnowledgeAssumption DEF AllRelations
<1> QED
  BY <1>1, <1>2

(* Where work goes when a part of it is done. *)
LEMMA WhereItGoes ==
  ASSUME NEW w \in Works
  PROVE  /\ Begun(w) \in {Resting, [w EXCEPT !.at = "exact"], [w EXCEPT !.at = "source"]}
         /\ Fits(Begun(w))
         /\ Begun(w).at \in {"rest", "exact", "source"}
<1>1. Fits(Resting) /\ Resting.at = "rest"
  BY DEF Resting, Works, Fits, OfMentions, OfRelations
<1>2. w.mentioned # <<>> => /\ Fits([w EXCEPT !.at = "exact"])
                           /\ [w EXCEPT !.at = "exact"].at = "exact"
  BY DEF Works, Fits, OfMentions, OfRelations
<1>3. w.related # <<>> => /\ Fits([w EXCEPT !.at = "source"])
                         /\ [w EXCEPT !.at = "source"].at = "source"
  BY DEF Works, Fits, OfMentions, OfRelations
<1>5. CASE w.mentioned # <<>>
  BY <1>2, <1>5 DEF Begun
<1>6. CASE w.mentioned = <<>> /\ w.related # <<>>
  BY <1>3, <1>6 DEF Begun
<1>7. CASE w.mentioned = <<>> /\ w.related = <<>>
  BY <1>1, <1>7 DEF Begun
<1> QED
  BY <1>5, <1>6, <1>7

(* The ends of what is done. *)
LEMMA PartsDone ==
  ASSUME NEW w, Fits(w)
  PROVE  /\ w.at \in OfMentions => Fits(MentionDone(w)) /\ MentionDone(w).at \in {"rest", "exact", "source"}
         /\ w.at \in OfRelations => Fits(RelationDone(w)) /\ RelationDone(w).at \in {"rest", "exact", "source"}
<1>1. ASSUME w.at \in OfMentions
      PROVE  [w EXCEPT !.mentioned = Tail(@)] \in Works
  <2>1. w.mentioned \in Seq(AllMentions) /\ w.mentioned # <<>>
    BY <1>1 DEF Fits, Works
  <2>2. Tail(w.mentioned) \in Seq(AllMentions)
    BY <2>1
  <2> QED  BY <2>2 DEF Fits, Works
<1>2. ASSUME w.at \in OfRelations
      PROVE  [w EXCEPT !.related = Tail(@), !.source = Nobody, !.target = Nobody, !.strength = 0] \in Works
  <2>1. w.related \in Seq(AllRelations) /\ w.related # <<>>
    BY <1>2 DEF Fits, Works
  <2>2. Tail(w.related) \in Seq(AllRelations)
    BY <2>1
  <2> QED  BY <2>2 DEF Fits, Works
<1> QED
  BY <1>1, <1>2, WhereItGoes DEF MentionDone, RelationDone

(* An adder that goes on leaves the others where they are. *)
LEMMA WorkAfter ==
  ASSUME work \in [Adders -> Works], \A a \in Adders : Fits(work[a]),
         NEW a \in Adders, NEW w, Fits(w), Goes(a, w)
  PROVE  /\ work' \in [Adders -> Works] /\ \A b \in Adders : Fits(work'[b])
         /\ work'[a] = w
         /\ \A b \in Adders \ {a} : work'[b] = work[b]
<1>1. w \in Works
  BY DEF Fits
<1>2. /\ work' \in [Adders -> Works] /\ work'[a] = w
      /\ \A b \in Adders \ {a} : work'[b] = work[b]
  BY <1>1 DEF Goes
<1>3. ASSUME NEW b \in Adders PROVE Fits(work'[b])
  BY <1>2
<1> QED
  BY <1>2, <1>3

(* Every step of an adder but the two insertions of rows. *)
LEMMA AdderFits ==
  ASSUME KnowledgeTypes, NEW a \in Adders
  PROVE  /\ \A x \in Extractions : BeginMemory(a, x) => \E w : Fits(w) /\ Goes(a, w)
         /\ FindsExact(a) \/ FindsAlias(a) \/ FindsAlike(a) \/ CreatesEntity(a) \/ Mentions(a)
            \/ FindsSource(a) \/ FindsTarget(a) \/ FindsRelationship(a) \/ Strengthens(a)
            \/ CountsEvidence(a) \/ Relates(a) => \E w : Fits(w) /\ Goes(a, w)
<1> DEFINE old == work[a]
<1>0. /\ Fits(old) /\ old \in Works
      /\ lastId \in 0 .. MaxIds /\ MaxIds \in Nat /\ Nobody \notin 1 .. MaxIds
      /\ \A e \in entities : e.id \in 1 .. MaxIds
      /\ \A r \in relationships : r.id \in 1 .. MaxIds /\ r.strength \in Nat
  BY KnowledgeAssumption DEF KnowledgeTypes, Fits, RelationshipRows
<1>1. ASSUME NEW x \in Extractions, BeginMemory(a, x) PROVE \E w : Fits(w) /\ Goes(a, w)
  <2> DEFINE w == [Resting EXCEPT !.memory = memoriesSeen', !.mentioned = x.mentioned, !.related = x.related]
  <2>0. memoriesSeen' \in Nat /\ x.mentioned \in Seq(AllMentions) /\ x.related \in Seq(AllRelations)
    BY <1>1, ExtractionsTyped DEF BeginMemory, KnowledgeTypes
  <2>1. w \in Works
    BY <2>0 DEF Resting, Works
  <2>2. Goes(a, Begun(w))
    BY <1>1 DEF BeginMemory
  <2> HIDE DEF w
  <2> QED  BY <2>1, <2>2, WhereItGoes
<1>2. ASSUME FindsExact(a) \/ FindsAlias(a) \/ FindsAlike(a)
      PROVE  \E w : Fits(w) /\ Goes(a, w)
  <2>1. old.at \in {"exact", "alias", "alike"}
    BY <1>2 DEF FindsExact, FindsAlias, FindsAlike, LooksUp
  <2>2. \/ \E e \in entities : Goes(a, [old EXCEPT !.at = "mention", !.source = e.id])
        \/ \E at \in {"alias", "alike", "create"} : Goes(a, [old EXCEPT !.at = at])
    BY <1>2 DEF FindsExact, FindsAlias, FindsAlike, LooksUp, Named, Alike
  <2>3. ASSUME NEW e \in entities PROVE Fits([old EXCEPT !.at = "mention", !.source = e.id])
    BY <1>0, <2>1 DEF Fits, Works, OfMentions, OfRelations
  <2>4. ASSUME NEW at \in {"alias", "alike", "create"} PROVE Fits([old EXCEPT !.at = at])
    BY <1>0, <2>1 DEF Fits, Works, OfMentions, OfRelations
  <2> QED  BY <2>2, <2>3, <2>4
<1>3. ASSUME CreatesEntity(a) PROVE \E w : Fits(w) /\ Goes(a, w)
  <2>1. old.at = "create"
    BY <1>3 DEF CreatesEntity
  <2>2. Fits(MentionDone(old))
    BY <1>0, <2>1, PartsDone DEF OfMentions
  <2>3. lastId + 1 \in 1 .. MaxIds
    BY <1>0, <1>3 DEF CreatesEntity
  <2>4. Fits([old EXCEPT !.at = "mention", !.source = lastId + 1])
    BY <1>0, <2>1, <2>3 DEF Fits, Works, OfMentions, OfRelations
  <2> QED  BY <1>3, <2>2, <2>4 DEF CreatesEntity
<1>4. ASSUME Mentions(a) PROVE \E w : Fits(w) /\ Goes(a, w)
  <2> DEFINE w == [old EXCEPT !.source = Nobody]
  <2>0. old.at = "mention"
    BY <1>4 DEF Mentions
  <2>1. w \in Works /\ w.at = "mention" /\ w.mentioned # <<>>
    BY <1>0, <2>0 DEF Fits, Works, OfMentions
  <2>2. [w EXCEPT !.mentioned = Tail(@)] \in Works
    <3>1. w.mentioned \in Seq(AllMentions) /\ w.mentioned # <<>>
      BY <2>1 DEF Works
    <3>2. Tail(w.mentioned) \in Seq(AllMentions)
      BY <3>1
    <3> HIDE DEF w
    <3> QED  BY <2>1, <3>2 DEF Works
  <2>3. Fits(MentionDone(w))
    BY <2>2, WhereItGoes DEF MentionDone
  <2> QED  BY <1>4, <2>3 DEF Mentions
<1>5. ASSUME FindsSource(a) PROVE \E w : Fits(w) /\ Goes(a, w)
  <2>1. old.at = "source"
    BY <1>5 DEF FindsSource
  <2>2. PICK e \in 1 .. MaxIds \cup {Nobody} : Goes(a, [old EXCEPT !.at = "target", !.source = e])
    BY <1>0, <1>5 DEF FindsSource, Named
  <2>3. Fits([old EXCEPT !.at = "target", !.source = e])
    BY <1>0, <2>1 DEF Fits, Works, OfMentions, OfRelations
  <2> QED  BY <2>2, <2>3
<1>6. ASSUME FindsTarget(a) PROVE \E w : Fits(w) /\ Goes(a, w)
  <2>1. old.at = "target"
    BY <1>6 DEF FindsTarget
  <2>2. Fits(RelationDone(old))
    BY <1>0, <2>1, PartsDone DEF OfRelations
  <2>3. \/ Goes(a, RelationDone(old))
        \/ \E e \in 1 .. MaxIds \cup {Nobody} :
             /\ Nobody \notin {e, old.source}
             /\ Goes(a, [old EXCEPT !.at = "find", !.target = e])
    BY <1>0, <1>6 DEF FindsTarget, Named
  <2>4. ASSUME NEW e \in 1 .. MaxIds \cup {Nobody}, Nobody \notin {e, old.source}
        PROVE  Fits([old EXCEPT !.at = "find", !.target = e])
    BY <1>0, <2>1, <2>4 DEF Fits, Works, OfMentions, OfRelations
  <2> QED  BY <2>2, <2>3, <2>4
<1>7. ASSUME FindsRelationship(a) PROVE \E w : Fits(w) /\ Goes(a, w)
  <2>1. old.at = "find"
    BY <1>7 DEF FindsRelationship
  <2>2. \/ Goes(a, [old EXCEPT !.at = "relate"])
        \/ \E r \in relationships :
             Goes(a, [old EXCEPT !.at = "strengthen", !.source = r.id, !.strength = r.strength])
    BY <1>7 DEF FindsRelationship, Linked
  <2>3. Fits([old EXCEPT !.at = "relate"])
    BY <1>0, <2>1 DEF Fits, Works, OfMentions, OfRelations
  <2>4. ASSUME NEW r \in relationships
        PROVE  Fits([old EXCEPT !.at = "strengthen", !.source = r.id, !.strength = r.strength])
    BY <1>0, <2>1 DEF Fits, Works, OfMentions, OfRelations
  <2> QED  BY <2>2, <2>3, <2>4
<1>8. ASSUME Strengthens(a) PROVE \E w : Fits(w) /\ Goes(a, w)
  <2>1. old.at = "strengthen" /\ Goes(a, [old EXCEPT !.at = "count"])
    BY <1>8 DEF Strengthens
  <2>2. Fits([old EXCEPT !.at = "count"])
    BY <1>0, <2>1 DEF Fits, Works, OfMentions, OfRelations
  <2> QED  BY <2>1, <2>2
<1>9. ASSUME CountsEvidence(a) \/ Relates(a) PROVE \E w : Fits(w) /\ Goes(a, w)
  <2>1. old.at \in OfRelations /\ Goes(a, RelationDone(old))
    BY <1>9 DEF CountsEvidence, Relates, OfRelations
  <2> QED  BY <1>0, <2>1, PartsDone
<1> QED
  BY <1>1, <1>2, <1>3, <1>4, <1>5, <1>6, <1>7, <1>8, <1>9

(* Rows that an adder writes anew keep their ids and ends; what has another strength is
   the row that the adder found, and it gets no less than the strength that was read. *)
LEMMA RowsRewritten ==
  ASSUME KnowledgeTypes, NEW a \in Adders, Strengthens(a) \/ CountsEvidence(a)
  PROVE  \E f : /\ relationships' = {f[r] : r \in relationships}
                /\ \A r \in relationships :
                     /\ f[r] \in RelationshipRows
                     /\ f[r].id = r.id /\ f[r].source = r.source /\ f[r].target = r.target
                     /\ f[r].relation = r.relation
                     /\ \/ f[r].strength = r.strength
                        \/ /\ work[a].at = "strengthen" /\ r.id = work[a].source
                           /\ f[r].strength >= work[a].strength
<1>1. \A r \in relationships : r \in RelationshipRows
  BY DEF KnowledgeTypes
<1>2. CASE relationships' = relationships
  <2> DEFINE f == [r \in relationships |-> r]
  <2>1. \A r \in relationships : f[r] = r
    OBVIOUS
  <2> HIDE DEF f
  <2>2. relationships' = {f[r] : r \in relationships}
    BY <1>2, <2>1
  <2> QED  BY <1>1, <2>1, <2>2
<1>3. CASE Strengthens(a) /\ relationships' # relationships
  <2> DEFINE n == (work[a].strength + Related(a).confidence) \div 2
             f == [r \in relationships |-> IF r.id = work[a].source THEN [r EXCEPT !.strength = n] ELSE r]
  <2>1. /\ relationships' = {f[r] : r \in relationships} /\ work[a].at = "strengthen"
        /\ Related(a).confidence > work[a].strength
    BY <1>3 DEF Strengthens
  <2>2. n \in Nat /\ n >= work[a].strength
    <3>1. /\ work[a].strength \in Nat /\ work[a].related \in Seq(AllRelations)
          /\ work[a].related # <<>>
      BY <2>1 DEF KnowledgeTypes, Fits, Works, OfRelations
    <3>2. Related(a) \in AllRelations
      BY <3>1 DEF Related
    <3>3. Related(a).confidence \in Nat
      BY <3>2, ExtractionsTyped
    <3> QED  BY <2>1, <3>1, <3>3
  <2> HIDE DEF n
  <2>3. ASSUME NEW r \in relationships
        PROVE  /\ f[r] \in RelationshipRows
               /\ f[r].id = r.id /\ f[r].source = r.source /\ f[r].target = r.target
                     /\ f[r].relation = r.relation
               /\ f[r].strength = r.strength \/ (r.id = work[a].source /\ f[r].strength = n)
    <3>1. r \in RelationshipRows /\ n \in Nat
      BY <1>1, <2>2
    <3>2. [r EXCEPT !.strength = n] \in RelationshipRows
      BY <3>1 DEF RelationshipRows
    <3>3. CASE r.id = work[a].source
      <4>1. f[r] = [r EXCEPT !.strength = n]
        BY <3>3
      <4> HIDE DEF f
      <4> QED  BY <3>1, <3>2, <3>3, <4>1 DEF RelationshipRows
    <3>4. CASE r.id # work[a].source
      <4>1. f[r] = r
        BY <3>4
      <4> HIDE DEF f
      <4> QED  BY <3>1, <3>4, <4>1 DEF RelationshipRows
    <3> QED  BY <3>3, <3>4
  <2> HIDE DEF f
  <2>4. ASSUME NEW r \in relationships
        PROVE  f[r].strength = r.strength \/ (r.id = work[a].source /\ f[r].strength >= work[a].strength)
    BY <2>2, <2>3
  <2> QED  BY <2>1, <2>3, <2>4
<1>4. CASE CountsEvidence(a) /\ relationships' # relationships
  <2> DEFINE f == [r \in relationships |-> IF r.id = work[a].source THEN [r EXCEPT !.count = @ + 1] ELSE r]
  <2>1. relationships' = {f[r] : r \in relationships}
    BY <1>4 DEF CountsEvidence
  <2>2. ASSUME NEW r \in relationships
        PROVE  /\ f[r] \in RelationshipRows /\ f[r].id = r.id /\ f[r].source = r.source
               /\ f[r].target = r.target /\ f[r].relation = r.relation /\ f[r].strength = r.strength
    BY <1>1 DEF RelationshipRows
  <2> QED  BY <2>1, <2>2
<1> QED
  BY <1>2, <1>3, <1>4

LEMMA KnowledgeTypesKept == KnowledgeTypes /\ [KnowledgeNext]_knowledgeVars => KnowledgeTypes'
<1> SUFFICES ASSUME KnowledgeTypes, [KnowledgeNext]_knowledgeVars PROVE KnowledgeTypes'
  OBVIOUS
<1> USE DEF rows
<1>0. /\ lastId \in 0 .. MaxIds /\ MaxIds \in Nat
      /\ memoriesSeen \in Nat
  BY KnowledgeAssumption DEF KnowledgeTypes
<1>1. ASSUME NEW a \in Adders, NEW w, Fits(w), Goes(a, w)
      PROVE  work' \in [Adders -> Works] /\ \A b \in Adders : Fits(work'[b])
  BY <1>1, WorkAfter DEF KnowledgeTypes
(* Work that is left alone, and tables that are. *)
<1>2. ASSUME UNCHANGED work
      PROVE  work' \in [Adders -> Works] /\ \A b \in Adders : Fits(work'[b])
  BY <1>2 DEF KnowledgeTypes
<1>3. ASSUME UNCHANGED <<entities, relationships, lastId>>, memoriesSeen' \in Nat,
             work' \in [Adders -> Works], \A b \in Adders : Fits(work'[b])
      PROVE  KnowledgeTypes'
  BY <1>3 DEF KnowledgeTypes
<1>4. ASSUME NEW a \in Adders, NEW x \in Extractions, BeginMemory(a, x) PROVE KnowledgeTypes'
  <2>1. UNCHANGED <<entities, relationships, lastId>> /\ memoriesSeen' \in Nat
    BY <1>0, <1>4 DEF BeginMemory
  <2> QED  BY <1>1, <1>3, <1>4, <2>1, AdderFits
<1>5. ASSUME NEW a \in Adders,
             \/ FindsExact(a) \/ FindsAlias(a) \/ FindsAlike(a) \/ Mentions(a)
             \/ FindsSource(a) \/ FindsTarget(a) \/ FindsRelationship(a)
      PROVE  KnowledgeTypes'
  <2>1. UNCHANGED <<entities, relationships, lastId, memoriesSeen>>
    BY <1>5 DEF FindsExact, FindsAlias, FindsAlike, LooksUp, Mentions, FindsSource, FindsTarget, FindsRelationship
  <2> QED  BY <1>0, <1>1, <1>3, <1>5, <2>1, AdderFits
<1>6. ASSUME NEW a \in Adders, CreatesEntity(a) PROVE KnowledgeTypes'
  <2>1. work' \in [Adders -> Works] /\ \A b \in Adders : Fits(work'[b])
    BY <1>1, <1>6, AdderFits
  <2>2. UNCHANGED <<relationships, memoriesSeen>> /\ lastId' \in {lastId, lastId + 1} /\ lastId < MaxIds
    BY <1>6 DEF CreatesEntity
  <2>3. lastId' \in 0 .. MaxIds /\ \A i \in 1 .. lastId : i \in 1 .. lastId'
    BY <1>0, <2>2
  <2>4. \A e \in entities' : e.id \in 1 .. lastId'
    <3>1. CASE entities' = entities
      BY <2>3, <3>1 DEF KnowledgeTypes
    <3>2. CASE entities' # entities
      <4>1. /\ lastId' = lastId + 1
            /\ entities' = entities \cup {[id |-> lastId', name |-> Mentioned(a).name, type |-> Mentioned(a).type]}
        BY <1>6, <3>2 DEF CreatesEntity
      <4>2. lastId' \in 1 .. lastId'
        BY <1>0, <4>1
      <4> QED  BY <2>3, <4>1, <4>2 DEF KnowledgeTypes
    <3> QED  BY <3>1, <3>2
  <2> QED  BY <2>1, <2>2, <2>3, <2>4 DEF KnowledgeTypes
<1>7. ASSUME NEW a \in Adders, Strengthens(a) \/ CountsEvidence(a) PROVE KnowledgeTypes'
  <2>1. work' \in [Adders -> Works] /\ \A b \in Adders : Fits(work'[b])
    BY <1>1, <1>7, AdderFits
  <2>2. UNCHANGED <<entities, lastId, memoriesSeen>>
    BY <1>7 DEF Strengthens, CountsEvidence
  <2>3. /\ \A r \in relationships : r \in RelationshipRows /\ r.id \in 1 .. lastId
        /\ \A r, s \in relationships : r.id = s.id => r = s
    BY DEF KnowledgeTypes
  <2>4. PICK f : /\ relationships' = {f[r] : r \in relationships}
                 /\ \A r \in relationships : f[r] \in RelationshipRows /\ f[r].id = r.id
    BY <1>7, RowsRewritten
  <2>5. /\ relationships' \subseteq RelationshipRows
        /\ \A r \in relationships' : r.id \in 1 .. lastId
        /\ \A r, s \in relationships' : r.id = s.id => r = s
    BY <2>3, <2>4
  <2> QED  BY <2>1, <2>2, <2>5 DEF KnowledgeTypes
<1>8. ASSUME NEW a \in Adders, Relates(a) PROVE KnowledgeTypes'
  <2>1. work' \in [Adders -> Works] /\ \A b \in Adders : Fits(work'[b])
    BY <1>1, <1>8, AdderFits
  <2>2. UNCHANGED <<entities, memoriesSeen>> /\ lastId' \in {lastId, lastId + 1} /\ lastId < MaxIds
    BY <1>8 DEF Relates
  <2>3. lastId' \in 0 .. MaxIds /\ \A i \in 1 .. lastId : i \in 1 .. lastId'
    BY <1>0, <2>2
  <2>4. CASE UNCHANGED <<relationships, lastId>>
    BY <2>1, <2>2, <2>3, <2>4 DEF KnowledgeTypes
  <2>5. CASE ~UNCHANGED <<relationships, lastId>>
    <3> DEFINE new == [id |-> lastId', source |-> work[a].source, target |-> work[a].target,
                       relation |-> Related(a).relation,
                       strength |-> Related(a).confidence, count |-> 0]
    <3>1. lastId' = lastId + 1 /\ relationships' = relationships \cup {new}
      BY <1>8, <2>5 DEF Relates
    <3>2. /\ work[a].related \in Seq(AllRelations) /\ work[a].related # <<>>
          /\ work[a].source \in 1 .. MaxIds /\ work[a].target \in 1 .. MaxIds
      BY <1>8 DEF Relates, KnowledgeTypes, Fits, Works, OfRelations
    <3>3. Related(a) \in AllRelations
      BY <3>2 DEF Related
    <3>4. Related(a).confidence \in Nat /\ Related(a).relation \in Relations
      BY <3>3, ExtractionsTyped DEF Relations
    <3>5. lastId' \in 1 .. MaxIds /\ lastId' \in 1 .. lastId'
      BY <1>0, <2>2, <3>1
    <3>6. new \in RelationshipRows /\ new.id = lastId'
      BY <3>2, <3>4, <3>5 DEF RelationshipRows
    <3> HIDE DEF new
    <3>7. \A r \in relationships : r.id # lastId'
      BY <1>0, <3>1 DEF KnowledgeTypes
    <3>8. \A r, s \in relationships' : r.id = s.id => r = s
      BY <3>1, <3>6, <3>7 DEF KnowledgeTypes
    <3>9. relationships' \subseteq RelationshipRows /\ \A r \in relationships' : r.id \in 1 .. lastId'
      BY <2>3, <3>1, <3>5, <3>6 DEF KnowledgeTypes
    <3>10. \A e \in entities' : e.id \in 1 .. lastId'
      BY <2>2, <2>3 DEF KnowledgeTypes
    <3> QED  BY <2>1, <2>2, <2>3, <3>8, <3>9, <3>10 DEF KnowledgeTypes
  <2> QED  BY <2>4, <2>5
<1>9. ASSUME DeleteAll PROVE KnowledgeTypes'
  BY <1>2, <1>9 DEF DeleteAll, KnowledgeTypes
<1>10. ASSUME Sweep PROVE KnowledgeTypes'
  BY <1>2, <1>10 DEF Sweep, KnowledgeTypes
<1>11. ASSUME UNCHANGED knowledgeVars PROVE KnowledgeTypes'
  BY <1>11, <1>2, <1>3, <1>0 DEF knowledgeVars
<1> QED
  BY <1>4, <1>5, <1>6, <1>7, <1>8, <1>9, <1>10, <1>11 DEF KnowledgeNext

LEMMA KnowledgeInitTypes == KnowledgeInit => KnowledgeTypes
<1> SUFFICES ASSUME KnowledgeInit PROVE KnowledgeTypes
  OBVIOUS
<1>1. Fits(Resting) /\ Resting \in Works
  BY DEF Resting, Fits, Works, OfMentions, OfRelations
<1>2. work \in [Adders -> Works] /\ \A a \in Adders : Fits(work[a])
  BY <1>1 DEF KnowledgeInit
<1> QED
  BY <1>2, KnowledgeAssumption DEF KnowledgeInit, KnowledgeTypes

(* Where each step of an adder leaves it. *)
AdderSteps(a) ==
  \/ FindsExact(a) \/ FindsAlias(a) \/ FindsAlike(a) \/ CreatesEntity(a) \/ Mentions(a)
  \/ FindsSource(a) \/ FindsTarget(a) \/ FindsRelationship(a)
  \/ Strengthens(a) \/ CountsEvidence(a) \/ Relates(a)

Parted == {"rest", "exact", "source"}

LEMMA AdderAlone ==
  ASSUME KnowledgeTypes, NEW a \in Adders, AdderSteps(a)
  PROVE  /\ work[a] # Resting /\ UNCHANGED <<sweep, raced, swept>>
         /\ \A b \in Adders \ {a} : work'[b] = work[b]
<1>1. work[a].at # "rest" /\ UNCHANGED <<sweep, raced, swept>>
  BY DEF AdderSteps, FindsExact, FindsAlias, FindsAlike, LooksUp, CreatesEntity, Mentions, FindsSource,
         FindsTarget, FindsRelationship, Strengthens, CountsEvidence, Relates
<1>2. PICK w : Fits(w) /\ Goes(a, w)
  BY AdderFits DEF AdderSteps
<1>3. \A b \in Adders \ {a} : work'[b] = work[b]
  BY <1>2, WorkAfter DEF KnowledgeTypes
<1> QED
  BY <1>1, <1>3 DEF Resting

LEMMA AdderGoesTo ==
  ASSUME KnowledgeTypes, NEW a \in Adders
  PROVE  /\ FindsExact(a) => work'[a].at \in {"mention", "alias"}
         /\ FindsAlias(a) => \/ work'[a].at = "mention" \/ failed'
                             \/ /\ Named(Mentioned(a).name) = {} /\ work'[a].at = "alike"
                                /\ work'[a].mentioned = work[a].mentioned
         /\ FindsAlias(a) => work'[a].at \in {"mention", "alike"}
         /\ FindsAlike(a) => /\ work'[a].at \in {"mention", "create"}
                             /\ work'[a].mentioned = work[a].mentioned
         /\ CreatesEntity(a) => work'[a].at \in {"mention"} \cup Parted
         /\ Mentions(a) \/ CountsEvidence(a) \/ Relates(a) => work'[a].at \in Parted
         /\ FindsSource(a) => /\ work'[a].at = "target"
                              /\ work'[a].source \in {e.id : e \in entities} \cup {Nobody}
         /\ FindsTarget(a) => \/ work'[a].at \in Parted
                              \/ /\ work'[a].at = "find" /\ work'[a].source = work[a].source
                                 /\ work[a].source # Nobody
                                 /\ work'[a].target \in {e.id : e \in entities}
         /\ FindsRelationship(a) =>
              \/ /\ work'[a].at = "relate"
                 /\ work'[a].source = work[a].source /\ work'[a].target = work[a].target
                 /\ work'[a].related = work[a].related
                 /\ Linked(work[a].source, work[a].target, Related(a).relation) = {} \/ failed'
              \/ /\ work'[a].at = "strengthen"
                 /\ \E r \in relationships : work'[a].source = r.id /\ work'[a].strength = r.strength
         /\ Strengthens(a) => work'[a].at = "count"
<1> DEFINE old == work[a]
<1>0. /\ Fits(old) /\ old \in Works
      /\ work \in [Adders -> Works]
  BY DEF KnowledgeTypes, Fits
<1>1. ASSUME NEW w, Goes(a, w) PROVE work'[a] = w
  BY <1>0, <1>1 DEF Goes
<1>2. ASSUME NEW where, NEW found, NEW otherwise, LooksUp(a, where, found, otherwise)
      PROVE  /\ \/ work'[a].at = "mention"
                \/ work'[a].at = otherwise /\ (found = {} \/ failed')
             /\ work'[a].mentioned = old.mentioned
  <2>1. \/ \E e \in found : work'[a] = [old EXCEPT !.at = "mention", !.source = e.id]
        \/ work'[a] = [old EXCEPT !.at = otherwise] /\ (found = {} \/ failed')
    BY <1>1, <1>2 DEF LooksUp
  <2> QED  BY <1>0, <2>1 DEF Works
<1>3. ASSUME FindsExact(a) PROVE work'[a].at \in {"mention", "alias"}
  BY <1>2, <1>3 DEF FindsExact
<1>4. ASSUME FindsAlias(a)
      PROVE  /\ work'[a].at \in {"mention", "alike"}
             /\ work'[a].mentioned = old.mentioned
             /\ work'[a].at = "mention" \/ failed' \/ Named(Mentioned(a).name) = {}
  BY <1>2, <1>4 DEF FindsAlias
<1>5. ASSUME FindsAlike(a) PROVE work'[a].at \in {"mention", "create"} /\ work'[a].mentioned = old.mentioned
  BY <1>2, <1>5 DEF FindsAlike
<1>6. ASSUME CreatesEntity(a) PROVE work'[a].at \in {"mention"} \cup Parted
  <2>1. MentionDone(old).at \in Parted
    BY <1>0, <1>6, PartsDone DEF CreatesEntity, OfMentions, Parted
  <2>2. work'[a] = MentionDone(old) \/ \E i : work'[a] = [old EXCEPT !.at = "mention", !.source = i]
    BY <1>1, <1>6 DEF CreatesEntity
  <2> QED  BY <1>0, <2>1, <2>2 DEF Works
<1>7. ASSUME Mentions(a) PROVE work'[a].at \in Parted
  <2> DEFINE w == [old EXCEPT !.source = Nobody]
  <2>1. work'[a] = MentionDone(w)
    BY <1>1, <1>7 DEF Mentions
  <2>2. Fits(w) \/ w.at = "mention"
    BY <1>0, <1>7 DEF Mentions, Works
  <2>3. w \in Works /\ w.mentioned \in Seq(AllMentions) /\ w.mentioned # <<>>
    BY <1>0, <1>7 DEF Mentions, Works, Fits, OfMentions
  <2>4. Tail(w.mentioned) \in Seq(AllMentions)
    BY <2>3
  <2> HIDE DEF w
  <2>5. [w EXCEPT !.mentioned = Tail(@)] \in Works
    BY <2>3, <2>4 DEF Works
  <2> QED  BY <2>1, <2>5, WhereItGoes DEF MentionDone, Parted
<1>8. ASSUME CountsEvidence(a) \/ Relates(a) PROVE work'[a].at \in Parted
  <2>1. work'[a] = RelationDone(old) /\ old.at \in OfRelations
    BY <1>1, <1>8 DEF CountsEvidence, Relates, OfRelations
  <2> QED  BY <1>0, <2>1, PartsDone DEF Parted
<1>9. ASSUME FindsSource(a)
      PROVE  work'[a].at = "target" /\ work'[a].source \in {e.id : e \in entities} \cup {Nobody}
  <2>1. PICK i \in {e.id : e \in entities} \cup {Nobody} : work'[a] = [old EXCEPT !.at = "target", !.source = i]
    BY <1>1, <1>9 DEF FindsSource, Named
  <2> QED  BY <1>0, <2>1 DEF Works
<1>10. ASSUME FindsTarget(a)
       PROVE  \/ work'[a].at \in Parted
              \/ /\ work'[a].at = "find" /\ work'[a].source = old.source /\ old.source # Nobody
                 /\ work'[a].target \in {e.id : e \in entities}
  <2>1. \/ work'[a] = RelationDone(old) /\ old.at \in OfRelations
        \/ \E i \in {e.id : e \in entities} :
             work'[a] = [old EXCEPT !.at = "find", !.target = i] /\ old.source # Nobody
    BY <1>1, <1>10 DEF FindsTarget, Named, OfRelations
  <2>2. CASE work'[a] = RelationDone(old) /\ old.at \in OfRelations
    BY <1>0, <2>2, PartsDone DEF Parted
  <2>3. CASE \E i \in {e.id : e \in entities} :
               work'[a] = [old EXCEPT !.at = "find", !.target = i] /\ old.source # Nobody
    <3>1. PICK i \in {e.id : e \in entities} :
               work'[a] = [old EXCEPT !.at = "find", !.target = i] /\ old.source # Nobody
      BY <2>3
    <3> QED  BY <1>0, <3>1 DEF Works
  <2> QED  BY <2>1, <2>2, <2>3
<1>11. ASSUME FindsRelationship(a)
       PROVE  \/ /\ work'[a].at = "relate"
                 /\ work'[a].source = old.source /\ work'[a].target = old.target
                 /\ work'[a].related = old.related
                 /\ Linked(old.source, old.target, Related(a).relation) = {} \/ failed'
              \/ /\ work'[a].at = "strengthen"
                 /\ \E r \in relationships : work'[a].source = r.id /\ work'[a].strength = r.strength
  <2>1. CASE \E r \in relationships :
               work'[a] = [old EXCEPT !.at = "strengthen", !.source = r.id, !.strength = r.strength]
    <3>1. PICK r \in relationships :
               work'[a] = [old EXCEPT !.at = "strengthen", !.source = r.id, !.strength = r.strength]
      BY <2>1
    <3> QED  BY <1>0, <3>1 DEF Works
  <2>2. CASE work'[a] = [old EXCEPT !.at = "relate"] /\ (Linked(old.source, old.target, Related(a).relation) = {} \/ failed')
    BY <1>0, <2>2 DEF Works
  <2> QED  BY <1>1, <1>11, <2>1, <2>2 DEF FindsRelationship, Linked
<1>12. ASSUME Strengthens(a) PROVE work'[a].at = "count"
  <2>1. work'[a] = [old EXCEPT !.at = "count"]
    BY <1>1, <1>12 DEF Strengthens
  <2> QED  BY <1>0, <2>1 DEF Works
<1> QED
  BY <1>3, <1>4, <1>5, <1>6, <1>7, <1>8, <1>9, <1>10, <1>11, <1>12

LEMMA BeginsWork ==
  ASSUME KnowledgeTypes, NEW a \in Adders, NEW x \in Extractions, BeginMemory(a, x)
  PROVE  /\ work'[a].at \in Parted /\ work[a] = Resting
         /\ \A b \in Adders \ {a} : work'[b] = work[b]
         /\ UNCHANGED <<entities, relationships, lastId, sweep, failed>>
         /\ ~raced' => ~raced /\ \A b \in Adders : work[b] = Resting
         /\ ~swept' => ~swept /\ sweep = "idle"
<1>1. PICK w : Fits(w) /\ Goes(a, w)
  BY AdderFits
<1>2. \A b \in Adders \ {a} : work'[b] = work[b]
  BY <1>1, WorkAfter DEF KnowledgeTypes
<1>3. work'[a].at \in Parted
  <2> DEFINE begun == [Resting EXCEPT !.memory = memoriesSeen', !.mentioned = x.mentioned, !.related = x.related]
  <2>0. memoriesSeen' \in Nat /\ x.mentioned \in Seq(AllMentions) /\ x.related \in Seq(AllRelations)
    BY ExtractionsTyped DEF BeginMemory, KnowledgeTypes
  <2>1. begun \in Works
    BY <2>0 DEF Resting, Works
  <2>2. work'[a] = Begun(begun)
    BY DEF BeginMemory, Goes, KnowledgeTypes
  <2> HIDE DEF begun
  <2> QED  BY <2>1, <2>2, WhereItGoes DEF Parted
<1> QED
  BY <1>2, <1>3 DEF BeginMemory, Busy, rows

-----------------------------------------------------------------------------
(* Ends.  Until DeleteAll overlaps a memory: nobody works while it sweeps, which leaves
   entities to nobody, and what an adder carries of an entity is still there. *)
EntityIds == {e.id : e \in entities}

EndsKept ==
  swept \/
  /\ sweep # "idle" => \A a \in Adders : work[a] = Resting
  /\ sweep = "entities" => relationships = {}
  /\ \A r \in relationships : r.source \in EntityIds /\ r.target \in EntityIds
  /\ \A a \in Adders :
       /\ work[a].at = "target" => work[a].source \in EntityIds \cup {Nobody}
       /\ work[a].at \in {"find", "relate"} =>
            work[a].source \in EntityIds /\ work[a].target \in EntityIds

LEMMA EndsKeptKept ==
  KnowledgeTypes /\ EndsKept /\ [KnowledgeNext]_knowledgeVars => EndsKept'
<1> SUFFICES ASSUME KnowledgeTypes, EndsKept, [KnowledgeNext]_knowledgeVars, ~swept' PROVE EndsKept'
  BY DEF EndsKept
<1>0. Resting.at = "rest"
  BY DEF Resting
<1>1. ASSUME NEW a \in Adders, NEW x \in Extractions, BeginMemory(a, x) PROVE EndsKept'
  <2>1. EntityIds' = EntityIds
    BY <1>1, BeginsWork DEF EntityIds
  <2>2. ASSUME NEW b \in Adders, work'[b].at \in {"target", "find", "relate"} PROVE work'[b] = work[b]
    BY <1>1, <2>2, BeginsWork DEF Parted
  <2> QED  BY <1>1, <2>1, <2>2, BeginsWork DEF EndsKept
<1>2. ASSUME NEW a \in Adders, AdderSteps(a) PROVE EndsKept'
  <2>1. /\ ~swept /\ sweep = "idle" /\ sweep' = "idle"
        /\ \A b \in Adders \ {a} : work'[b] = work[b]
    BY <1>2, AdderAlone DEF EndsKept
  <2>2. \A i \in EntityIds : i \in EntityIds'
    BY <1>2 DEF EntityIds, AdderSteps, FindsExact, FindsAlias, FindsAlike, LooksUp, CreatesEntity, Mentions,
         FindsSource, FindsTarget, FindsRelationship, Strengthens, CountsEvidence, Relates, rows
  <2>3. \A r \in relationships' : r.source \in EntityIds' /\ r.target \in EntityIds'
    <3>1. CASE relationships' = relationships
      BY <2>1, <2>2, <3>1 DEF EndsKept
    <3>2. CASE Strengthens(a) \/ CountsEvidence(a)
      <4>1. PICK f : /\ relationships' = {f[r] : r \in relationships}
                     /\ \A r \in relationships : /\ f[r].source = r.source /\ f[r].target = r.target
                                                  /\ f[r].relation = r.relation
        BY <3>2, RowsRewritten
      <4> QED  BY <2>1, <2>2, <4>1 DEF EndsKept
    <3>3. CASE Relates(a) /\ relationships' # relationships
      <4>1. relationships' = relationships \cup
              {[id |-> lastId', source |-> work[a].source, target |-> work[a].target,
                relation |-> Related(a).relation,
                strength |-> Related(a).confidence, count |-> 0]}
        BY <3>3 DEF Relates
      <4>2. work[a].source \in EntityIds /\ work[a].target \in EntityIds
        BY <2>1, <3>3 DEF EndsKept, Relates
      <4> QED  BY <2>1, <2>2, <4>1, <4>2 DEF EndsKept
    <3> QED
      BY <1>2, <3>1, <3>2, <3>3 DEF AdderSteps, FindsExact, FindsAlias, FindsAlike, LooksUp, CreatesEntity,
         Mentions, FindsSource, FindsTarget, FindsRelationship, rows
  <2>4. /\ work'[a].at = "target" => work'[a].source \in EntityIds' \cup {Nobody}
        /\ work'[a].at \in {"find", "relate"} =>
             work'[a].source \in EntityIds' /\ work'[a].target \in EntityIds'
    <3>1. CASE \/ FindsExact(a) \/ FindsAlias(a) \/ FindsAlike(a) \/ CreatesEntity(a) \/ Mentions(a)
               \/ Strengthens(a) \/ CountsEvidence(a) \/ Relates(a)
      <4>1. work'[a].at \notin {"target", "find", "relate"}
        BY <3>1, AdderGoesTo DEF Parted
      <4> QED  BY <4>1
    <3>2. CASE FindsSource(a)
      BY <2>2, <3>2, AdderGoesTo DEF EntityIds
    <3>3. CASE FindsTarget(a)
      <4>1. work[a].source \in EntityIds \cup {Nobody}
        BY <2>1, <3>3 DEF EndsKept, FindsTarget
      <4>2. CASE work'[a].at \in Parted
        BY <4>2 DEF Parted
      <4> QED  BY <2>2, <3>3, <4>1, <4>2, AdderGoesTo DEF EntityIds
    <3>4. CASE FindsRelationship(a)
      <4>1. work[a].source \in EntityIds /\ work[a].target \in EntityIds
        BY <2>1, <3>4 DEF EndsKept, FindsRelationship
      <4> QED  BY <2>2, <3>4, <4>1, AdderGoesTo
    <3> QED  BY <1>2, <3>1, <3>2, <3>3, <3>4 DEF AdderSteps
  <2>5. ASSUME NEW b \in Adders
        PROVE  /\ work'[b].at = "target" => work'[b].source \in EntityIds' \cup {Nobody}
               /\ work'[b].at \in {"find", "relate"} =>
                    work'[b].source \in EntityIds' /\ work'[b].target \in EntityIds'
    <3>1. CASE b = a
      BY <2>4, <3>1
    <3>2. CASE b # a
      <4>1. work'[b] = work[b]
        BY <2>1, <3>2
      <4> QED  BY <2>1, <2>2, <4>1 DEF EndsKept
    <3> QED  BY <3>1, <3>2
  <2> QED  BY <2>1, <2>3, <2>5 DEF EndsKept
<1>3. ASSUME DeleteAll PROVE EndsKept'
  BY <1>3 DEF DeleteAll, EndsKept, EntityIds, Busy, rows
<1>4. ASSUME Sweep PROVE EndsKept'
  <2>1. \A a \in Adders : work'[a] = Resting
    BY <1>4 DEF Sweep, EndsKept
  <2>2. relationships' = {}
    BY <1>4 DEF Sweep, EndsKept
  <2> QED  BY <1>0, <2>1, <2>2 DEF EndsKept
<1>5. ASSUME UNCHANGED knowledgeVars PROVE EndsKept'
  BY <1>5 DEF knowledgeVars, EndsKept, EntityIds
<1> QED
  BY <1>1, <1>2, <1>3, <1>4, <1>5 DEF KnowledgeNext, AdderSteps

(* Both ends of a relationship exist, unless DeleteAll ran while a memory was stored
   (engine_lifecycle.go, "Delete relationships first"), for any callers and names. *)
THEOREM EndsAlwaysExist == KnowledgeSpec => []EndsExist
<1>1. KnowledgeInit => KnowledgeTypes /\ EndsKept
  <2> SUFFICES ASSUME KnowledgeInit PROVE KnowledgeTypes /\ EndsKept
    OBVIOUS
  <2>1. /\ \A a \in Adders : work[a] = Resting
        /\ Resting.at = "rest"
    BY DEF KnowledgeInit, Resting
  <2> QED  BY <2>1, KnowledgeInitTypes DEF KnowledgeInit, EndsKept
<1>2. EndsKept => EndsExist
  BY DEF EndsKept, EndsExist, EntityIds
<1> QED
  BY <1>1, <1>2, KnowledgeTypesKept, EndsKeptKept, PTL DEF KnowledgeSpec

-----------------------------------------------------------------------------
(* Unique rows.  A name that is to be inserted, and a pair, was looked up by the only
   adder at work, so nobody can have inserted it since. *)
OnlyOneWorks == \A a, b \in Adders : work[a] # Resting /\ work[b] # Resting => a = b

NamesUnique == \A e, f \in entities : e.name = f.name => e = f
PairsUnique ==
  \A r, s \in relationships :
    r.source = s.source /\ r.target = s.target /\ r.relation = s.relation => r = s

UniqueKept ==
  raced \/ swept \/ failed \/
  /\ sweep # "idle" => \A a \in Adders : work[a] = Resting
  /\ OnlyOneWorks
  /\ NamesUnique /\ PairsUnique
  /\ \A a \in Adders :
       /\ work[a].at \in {"alike", "create"} => Named(Mentioned(a).name) = {}
       /\ work[a].at = "relate" => Linked(work[a].source, work[a].target, Related(a).relation) = {}

LEMMA OneStaysAlone ==
  KnowledgeTypes /\ (raced \/ OnlyOneWorks) /\ [KnowledgeNext]_knowledgeVars => raced' \/ OnlyOneWorks'
<1> SUFFICES ASSUME KnowledgeTypes, raced \/ OnlyOneWorks, [KnowledgeNext]_knowledgeVars, ~raced'
             PROVE  OnlyOneWorks'
  OBVIOUS
<1>1. ASSUME NEW a \in Adders, NEW x \in Extractions, BeginMemory(a, x) PROVE OnlyOneWorks'
  <2>1. \A b \in Adders \ {a} : work'[b] = Resting
    BY <1>1, BeginsWork
  <2> QED  BY <2>1 DEF OnlyOneWorks
<1>2. ASSUME NEW a \in Adders, AdderSteps(a) PROVE OnlyOneWorks'
  <2>1. \A b \in Adders \ {a} : work'[b] = Resting
    BY <1>2, AdderAlone DEF OnlyOneWorks
  <2> QED  BY <2>1 DEF OnlyOneWorks
<1>3. ASSUME DeleteAll \/ Sweep \/ UNCHANGED knowledgeVars PROVE OnlyOneWorks'
  BY <1>3 DEF DeleteAll, Sweep, knowledgeVars, OnlyOneWorks
<1> QED
  BY <1>1, <1>2, <1>3 DEF KnowledgeNext, AdderSteps

LEMMA UniqueKeptKept ==
  KnowledgeTypes /\ UniqueKept /\ [KnowledgeNext]_knowledgeVars => UniqueKept'
<1> SUFFICES ASSUME KnowledgeTypes, UniqueKept, [KnowledgeNext]_knowledgeVars,
                    ~raced', ~swept', ~failed'
             PROVE  UniqueKept'
  BY DEF UniqueKept
<1>0. Resting.at = "rest"
  BY DEF Resting
<1>a. OnlyOneWorks'
  <2>1. raced \/ OnlyOneWorks \/ swept \/ failed
    BY DEF UniqueKept
  <2>2. ~swept /\ ~failed
    <3>1. ASSUME NEW a \in Adders, AdderSteps(a) PROVE ~swept /\ ~failed
      <4>1. ~swept
        BY <3>1, AdderAlone
      <4>2. ~failed
        BY <3>1 DEF AdderSteps, FindsExact, FindsAlias, FindsAlike, LooksUp, CreatesEntity, Mentions, FindsSource,
           FindsTarget, FindsRelationship, Strengthens, CountsEvidence, Relates
      <4> QED  BY <4>1, <4>2
    <3>2. ASSUME NEW a \in Adders, NEW x \in Extractions, BeginMemory(a, x) PROVE ~swept /\ ~failed
      BY <3>2, BeginsWork
    <3>3. CASE DeleteAll
      BY <3>3 DEF DeleteAll
    <3>4. CASE Sweep
      BY <3>4 DEF Sweep
    <3>5. CASE UNCHANGED knowledgeVars
      BY <3>5 DEF knowledgeVars
    <3> QED  BY <3>1, <3>2, <3>3, <3>4, <3>5 DEF KnowledgeNext, AdderSteps
  <2> QED  BY <2>1, <2>2, OneStaysAlone
<1>1. ASSUME NEW a \in Adders, NEW x \in Extractions, BeginMemory(a, x) PROVE UniqueKept'
  <2>1. ~failed /\ \A b \in Adders : work'[b].at \in Parted
    BY <1>0, <1>1, BeginsWork DEF Parted
  <2> QED
    BY <1>a, <1>1, <2>1, BeginsWork DEF UniqueKept, NamesUnique, PairsUnique, Parted
<1>2. ASSUME NEW a \in Adders, AdderSteps(a) PROVE UniqueKept'
  <2>1. /\ ~raced /\ ~swept /\ sweep = "idle" /\ sweep' = "idle"
        /\ ~failed
    <3>1. ~failed
      BY <1>2 DEF AdderSteps, FindsExact, FindsAlias, FindsAlike, LooksUp, CreatesEntity, Mentions, FindsSource,
         FindsTarget, FindsRelationship, Strengthens, CountsEvidence, Relates
    <3> QED  BY <1>2, <3>1, AdderAlone DEF UniqueKept
  <2>2. /\ NamesUnique /\ PairsUnique
        /\ work[a].at \in {"alike", "create"} => Named(Mentioned(a).name) = {}
        /\ work[a].at = "relate" => Linked(work[a].source, work[a].target, Related(a).relation) = {}
    BY <2>1 DEF UniqueKept
  <2>3. \A b \in Adders \ {a} : work'[b].at = "rest"
    BY <1>0, <1>2, <2>1, AdderAlone DEF UniqueKept, OnlyOneWorks
  <2>4. NamesUnique'
    <3>1. CASE entities' = entities
      BY <2>2, <3>1 DEF NamesUnique
    <3>2. CASE CreatesEntity(a) /\ entities' # entities
      <4>1. PICK e : /\ entities' = entities \cup {e} /\ e.name = Mentioned(a).name
        <5> DEFINE new == [id |-> lastId', name |-> Mentioned(a).name, type |-> Mentioned(a).type]
        <5>1. entities' = entities \cup {new} /\ new.name = Mentioned(a).name
          BY <3>2 DEF CreatesEntity
        <5> QED  BY <5>1
      <4>2. Named(e.name) = {}
        BY <2>2, <3>2, <4>1 DEF CreatesEntity
      <4> QED  BY <2>2, <4>1, <4>2 DEF NamesUnique, Named
    <3> QED
      BY <1>2, <3>1, <3>2 DEF AdderSteps, FindsExact, FindsAlias, FindsAlike, LooksUp,
         Mentions, FindsSource, FindsTarget, FindsRelationship, Strengthens, CountsEvidence, Relates, rows
  <2>5. PairsUnique'
    <3>1. CASE relationships' = relationships
      BY <2>2, <3>1 DEF PairsUnique
    <3>2. CASE Strengthens(a) \/ CountsEvidence(a)
      <4>1. PICK f : /\ relationships' = {f[r] : r \in relationships}
                     /\ \A r \in relationships : /\ f[r].source = r.source /\ f[r].target = r.target
                                                  /\ f[r].relation = r.relation
        BY <3>2, RowsRewritten
      <4> QED  BY <2>2, <4>1 DEF PairsUnique
    <3>3. CASE Relates(a) /\ relationships' # relationships
      <4>1. PICK s : /\ relationships' = relationships \cup {s}
                     /\ s.source = work[a].source /\ s.target = work[a].target
                     /\ s.relation = Related(a).relation
        <5> DEFINE new == [id |-> lastId', source |-> work[a].source, target |-> work[a].target,
                           relation |-> Related(a).relation,
                           strength |-> Related(a).confidence, count |-> 0]
        <5>1. relationships' = relationships \cup {new} /\ new.source = work[a].source /\ new.target = work[a].target
              /\ new.relation = Related(a).relation
          BY <3>3 DEF Relates
        <5> QED  BY <5>1
      <4>2. Linked(s.source, s.target, s.relation) = {}
        BY <2>2, <3>3, <4>1 DEF Relates
      <4> QED  BY <2>2, <4>1, <4>2 DEF PairsUnique, Linked
    <3> QED
      BY <1>2, <3>1, <3>2, <3>3 DEF AdderSteps, FindsExact, FindsAlias, FindsAlike, LooksUp, CreatesEntity,
         Mentions, FindsSource, FindsTarget, FindsRelationship, rows
  <2>6. /\ work'[a].at \in {"alike", "create"} => Named(Mentioned(a).name)' = {}
        /\ work'[a].at = "relate" => Linked(work[a].source, work[a].target, Related(a).relation)' = {}
    <3>1. CASE \/ FindsExact(a) \/ CreatesEntity(a) \/ Mentions(a) \/ FindsSource(a) \/ FindsTarget(a)
               \/ Strengthens(a) \/ CountsEvidence(a) \/ Relates(a)
      <4>1. work'[a].at \notin {"alike", "create", "relate"}
        BY <3>1, AdderGoesTo DEF Parted
      <4> QED  BY <4>1
    <3>2. CASE FindsAlias(a) \/ FindsAlike(a)
      <4>1. /\ entities' = entities /\ work'[a].at # "relate"
            /\ work'[a].at \in {"alike", "create"} => work'[a].mentioned = work[a].mentioned
            /\ work'[a].at \in {"alike", "create"} => Named(Mentioned(a).name) = {}
        BY <2>2, <3>2, AdderGoesTo DEF FindsAlias, FindsAlike, LooksUp, rows
      <4> QED  BY <4>1 DEF Named, Mentioned
    <3>3. CASE FindsRelationship(a)
      <4>1. /\ relationships' = relationships /\ work'[a].at \notin {"alike", "create"}
            /\ work'[a].at = "relate" => /\ work'[a].source = work[a].source /\ work'[a].target = work[a].target
                                         /\ work'[a].related = work[a].related
                                         /\ Linked(work[a].source, work[a].target, Related(a).relation) = {}
        BY <3>3, AdderGoesTo DEF FindsRelationship, rows
      <4> QED  BY <4>1 DEF Linked, Related
    <3> QED  BY <1>2, <3>1, <3>2, <3>3 DEF AdderSteps
  <2>7. ASSUME NEW b \in Adders
        PROVE  /\ work'[b].at \in {"alike", "create"} => Named(Mentioned(b).name)' = {}
               /\ work'[b].at = "relate" => Linked(work[b].source, work[b].target, Related(b).relation)' = {}
    BY <2>3, <2>6
  <2> QED  BY <1>a, <2>1, <2>4, <2>5, <2>7 DEF UniqueKept
<1>3. ASSUME DeleteAll PROVE UniqueKept'
  BY <1>a, <1>3 DEF DeleteAll, UniqueKept, Busy, rows, NamesUnique, PairsUnique, Named, Mentioned, Linked, Related
<1>4. ASSUME Sweep PROVE UniqueKept'
  <2>1. \A a \in Adders : work'[a] = Resting
    BY <1>4 DEF Sweep, UniqueKept
  <2>2. NamesUnique' /\ PairsUnique'
    BY <1>4 DEF Sweep, UniqueKept, NamesUnique, PairsUnique
  <2> QED  BY <1>a, <1>0, <2>1, <2>2 DEF UniqueKept
<1>5. ASSUME UNCHANGED knowledgeVars PROVE UniqueKept'
  BY <1>a, <1>5 DEF knowledgeVars, UniqueKept, NamesUnique, PairsUnique, Named, Mentioned, Linked, Related
<1> QED
  BY <1>1, <1>2, <1>3, <1>4, <1>5 DEF KnowledgeNext, AdderSteps

(* Names of entities, and ends and relation of relationships together, are unique though
   no constraint says so, unless calls overlapped or a statement failed (entity.go,
   ResolveEntity; engine_entity_ops.go, detectAndStoreRelationships), for any callers,
   names and relations. *)
THEOREM NamesAndRelationsUnique == KnowledgeSpec => []RowsAreUnique
<1>1. KnowledgeInit => KnowledgeTypes /\ UniqueKept
  <2> SUFFICES ASSUME KnowledgeInit PROVE KnowledgeTypes /\ UniqueKept
    OBVIOUS
  <2>1. /\ \A a \in Adders : work[a] = Resting
        /\ Resting.at = "rest"
    BY DEF KnowledgeInit, Resting
  <2> QED  BY <2>1, KnowledgeInitTypes DEF KnowledgeInit, UniqueKept, OnlyOneWorks, NamesUnique, PairsUnique
<1>2. UniqueKept => RowsAreUnique
  BY DEF UniqueKept, RowsAreUnique, NamesUnique, PairsUnique
<1> QED
  BY <1>1, <1>2, KnowledgeTypesKept, UniqueKeptKept, PTL DEF KnowledgeSpec

-----------------------------------------------------------------------------
(* Strengths.  What the only adder at work read of the relationship that it is to
   strengthen is what the row still holds. *)
GrowthKept ==
  raced \/
  /\ OnlyOneWorks
  /\ \A a \in Adders : work[a].at = "strengthen" =>
       \A r \in relationships : r.id = work[a].source => r.strength = work[a].strength

LEMMA GrowthKeptKept ==
  KnowledgeTypes /\ GrowthKept /\ [KnowledgeNext]_knowledgeVars => GrowthKept'
<1> SUFFICES ASSUME KnowledgeTypes, GrowthKept, [KnowledgeNext]_knowledgeVars, ~raced' PROVE GrowthKept'
  BY DEF GrowthKept
<1>0. Resting.at = "rest"
  BY DEF Resting
<1>a. OnlyOneWorks'
  BY OneStaysAlone DEF GrowthKept
<1>1. ASSUME NEW a \in Adders, NEW x \in Extractions, BeginMemory(a, x) PROVE GrowthKept'
  <2>1. \A b \in Adders : work'[b].at \in Parted
    BY <1>0, <1>1, BeginsWork DEF Parted
  <2> QED  BY <1>a, <2>1 DEF GrowthKept, Parted
<1>2. ASSUME NEW a \in Adders, AdderSteps(a) PROVE GrowthKept'
  <2>1. ~raced /\ \A b \in Adders \ {a} : work'[b].at = "rest"
    BY <1>0, <1>2, AdderAlone DEF GrowthKept, OnlyOneWorks
  <2>2. CASE FindsRelationship(a) /\ work'[a].at = "strengthen"
    <3>1. PICK r \in relationships : work'[a].source = r.id /\ work'[a].strength = r.strength
      BY <2>2, AdderGoesTo
    <3>2. relationships' = relationships /\ \A s \in relationships : s.id = r.id => s = r
      BY <2>2 DEF FindsRelationship, rows, KnowledgeTypes
    <3>3. ASSUME NEW b \in Adders, work'[b].at = "strengthen", NEW s \in relationships', s.id = work'[b].source
          PROVE  s.strength = work'[b].strength
      <4>1. b = a
        BY <2>1, <3>3
      <4> QED  BY <3>1, <3>2, <3>3, <4>1
    <3> QED  BY <1>a, <3>3 DEF GrowthKept
  <2>3. CASE ~(FindsRelationship(a) /\ work'[a].at = "strengthen")
    <3>1. work'[a].at # "strengthen"
      BY <1>2, <2>3, AdderGoesTo DEF AdderSteps, Parted
    <3> QED  BY <1>a, <2>1, <3>1 DEF GrowthKept
  <2> QED  BY <2>2, <2>3
<1>3. ASSUME DeleteAll \/ UNCHANGED knowledgeVars PROVE GrowthKept'
  BY <1>a, <1>3 DEF DeleteAll, GrowthKept, knowledgeVars, rows
<1>4. ASSUME Sweep PROVE GrowthKept'
  <2>1. relationships' \in {relationships, {}} /\ UNCHANGED <<work, raced>>
    BY <1>4 DEF Sweep
  <2> QED  BY <1>a, <2>1 DEF GrowthKept
<1> QED
  BY <1>1, <1>2, <1>3, <1>4 DEF KnowledgeNext, AdderSteps

LEMMA NoStrengthFalls ==
  ASSUME KnowledgeTypes, GrowthKept, [KnowledgeNext]_knowledgeVars, ~raced,
         NEW r \in relationships, NEW s \in relationships', r.id = s.id
  PROVE  s.strength >= r.strength
<1>1. /\ r.id \in 1 .. lastId /\ r.strength \in Nat /\ lastId \in Nat
      /\ \A q \in relationships : q.id = r.id => q = r
  BY KnowledgeAssumption DEF KnowledgeTypes, RelationshipRows
<1>2. CASE s \in relationships
  BY <1>1, <1>2
<1>3. ASSUME NEW a \in Adders, Strengthens(a) \/ CountsEvidence(a) PROVE s.strength >= r.strength
  <2>1. PICK f : /\ relationships' = {f[q] : q \in relationships}
                 /\ \A q \in relationships :
                      /\ f[q] \in RelationshipRows /\ f[q].id = q.id
                      /\ \/ f[q].strength = q.strength
                         \/ /\ work[a].at = "strengthen" /\ q.id = work[a].source
                            /\ f[q].strength >= work[a].strength
    BY <1>3, RowsRewritten
  <2>2. s = f[r]
    BY <1>1, <2>1
  <2>3. work[a].at = "strengthen" /\ r.id = work[a].source => r.strength = work[a].strength
    BY DEF GrowthKept
  <2> QED  BY <1>1, <2>1, <2>2, <2>3
<1>4. ASSUME NEW a \in Adders, Relates(a) PROVE s.strength >= r.strength
  <2> DEFINE new == [id |-> lastId', source |-> work[a].source, target |-> work[a].target,
                     relation |-> Related(a).relation,
                     strength |-> Related(a).confidence, count |-> 0]
  <2>1. s \in relationships \/ (s = new /\ lastId' = lastId + 1)
    BY <1>4 DEF Relates
  <2>2. new.id = lastId'
    OBVIOUS
  <2>3. r.id # lastId + 1
    BY <1>1
  <2> HIDE DEF new
  <2> QED  BY <1>2, <2>1, <2>2, <2>3
<1>5. CASE relationships' \subseteq relationships
  BY <1>2, <1>5
<1>6. relationships' \subseteq relationships \/ \E a \in Adders : Strengthens(a) \/ CountsEvidence(a) \/ Relates(a)
  <2>1. ASSUME NEW a \in Adders,
               \/ FindsExact(a) \/ FindsAlias(a) \/ FindsAlike(a) \/ CreatesEntity(a) \/ Mentions(a)
               \/ FindsSource(a) \/ FindsTarget(a) \/ FindsRelationship(a)
        PROVE  relationships' = relationships
    BY <2>1 DEF FindsExact, FindsAlias, FindsAlike, LooksUp, CreatesEntity, Mentions, FindsSource,
       FindsTarget, FindsRelationship, rows
  <2>2. ASSUME NEW a \in Adders, NEW x \in Extractions, BeginMemory(a, x) PROVE relationships' = relationships
    BY <2>2 DEF BeginMemory, rows
  <2>3. DeleteAll \/ Sweep \/ UNCHANGED knowledgeVars => relationships' \subseteq relationships
    BY DEF DeleteAll, Sweep, knowledgeVars, rows
  <2> QED  BY <2>1, <2>2, <2>3 DEF KnowledgeNext
<1> QED
  BY <1>3, <1>4, <1>5, <1>6

(* A relationship never weakens unless a strength that was read is written after
   another was (engine_entity_ops.go, detectAndStoreRelationships), for any callers and
   confidences. *)
THEOREM StrengthsNeverFall == KnowledgeSpec => StrengthOnlyGrows
<1>1. KnowledgeInit => KnowledgeTypes /\ GrowthKept
  <2> SUFFICES ASSUME KnowledgeInit PROVE KnowledgeTypes /\ GrowthKept
    OBVIOUS
  <2>1. \A a \in Adders : work[a] = Resting
    BY DEF KnowledgeInit
  <2> QED  BY <2>1, KnowledgeInitTypes DEF KnowledgeInit, GrowthKept, OnlyOneWorks
<1>2. KnowledgeTypes /\ GrowthKept /\ [KnowledgeNext]_knowledgeVars =>
        [raced \/ \A r \in relationships, s \in relationships' : r.id = s.id => s.strength >= r.strength]_knowledgeVars
  BY NoStrengthFalls
<1> QED
  BY <1>1, <1>2, KnowledgeTypesKept, GrowthKeptKept, PTL DEF KnowledgeSpec, StrengthOnlyGrows

-----------------------------------------------------------------------------
(* Natural numbers. *)

LEMMA SmallestOf ==
  ASSUME NEW S \in SUBSET Nat, S # {}
  PROVE  \E i \in S : \A j \in S : i <= j
<1>1. PICK i \in S : \A j \in S : ~ (<<j, i>> \in OpToRel(<, Nat))
  BY NatLessThanWellFounded, WFMin
<1>2. ASSUME NEW j \in S, j < i PROVE FALSE
  <2>1. <<j, i>> \in Nat \X Nat /\ <<j, i>>[1] < <<j, i>>[2]
    BY <1>2
  <2>2. <<j, i>> \in OpToRel(<, Nat)
    BY <2>1 DEF OpToRel
  <2> QED
    BY <1>1, <2>2
<1> QED
  BY <1>2

LEMMA MinIsLeast ==
  ASSUME NEW S \in SUBSET Nat, S # {}
  PROVE  Min(S) \in S /\ \A j \in S : Min(S) <= j
BY SmallestOf DEF Min

-----------------------------------------------------------------------------
(* GraphSearch. *)

Adjacent(e, f, links) == {<<e, f>>, <<f, e>>} \cap links # {}

(* What following the parents from each entity gives, back from the start. *)
Paths(p) ==
  /\ p \in [Visited -> Seq(Vertices)]
  /\ search.from \in Visited /\ parent[search.from] = search.from
  /\ p[search.from] = << search.from >>
  /\ \A e \in Visited \ {search.from} :
       /\ parent[e] \in Visited /\ parent[e] # e /\ Adjacent(parent[e], e, seen)
       /\ p[e] = Append(p[parent[e]], e)

(* Entities are found and wait in the order of their depth. *)
InOrder(p) ==
  /\ \A i \in 1 .. Len(queue) : queue[i] \in Visited
  /\ \A i, j \in 1 .. Len(queue) : i <= j => Len(p[queue[i]]) <= Len(p[queue[j]])
  /\ queue # << >> => \A e \in Visited : Len(p[e]) <= Len(p[queue[1]]) + 1
  /\ \A e \in Visited : Len(p[e]) <= Cardinality(Visited)
  /\ search.kind = "traverse" =>
       /\ \A e \in Visited : Len(p[e]) <= MaxDepth + 1
       /\ \A i \in 1 .. Len(queue) : Len(p[queue[i]]) <= MaxDepth

Waits(e) == \E i \in 1 .. Len(queue) : queue[i] = e

Expanded(p, e) == \A f \in Neighbours(e) : f \in Visited /\ Len(p[f]) <= Len(p[e]) + 1

(* Who does not wait and is not too deep to be asked has its neighbours visited. *)
Complete(p) ==
  /\ changes = 0 => seen \subseteq graph
  /\ changes = 0 /\ missed = 0 =>
       \A e \in Visited : \/ Waits(e) \/ Expanded(p, e)
                          \/ search.kind = "traverse" /\ Len(p[e]) = MaxDepth + 1

Found(p) ==
  phase = "found" =>
    IF search.from = search.to THEN answer = << search.from >>
    ELSE /\ queue # << >> /\ search.to \notin Visited
         /\ answer = Append(p[queue[1]], search.to)
         /\ Adjacent(queue[1], search.to, seen)

SearchInv ==
  /\ graph \subseteq Links /\ search \in Asked
  /\ phase \in {"off", "on", "found", "none", "done"}
  /\ queue \in Seq(Vertices) /\ Visited \subseteq Vertices
  /\ changes \in 0 .. MaxChanges /\ missed \in 0 .. MaxMissed /\ seen \subseteq Links
  /\ phase \in {"found", "none"} => search.kind = "path"
  /\ phase = "done" =>
       search.kind = "traverse" /\ (queue = << >> \/ Cardinality(Visited) >= MaxResults)
  /\ phase \in {"on", "none"} /\ search.kind = "path" => search.to \notin Visited
  /\ phase = "none" => queue = << >>
  /\ phase = "off" => answer = << >> /\ seen = {} /\ changes = 0 /\ missed = 0
  /\ phase # "off" => \E p : Paths(p) /\ InOrder(p) /\ Complete(p) /\ Found(p)

(* The paths are those that the search makes. *)
LEMMA PathsAreThose ==
  ASSUME NEW p, Paths(p) PROVE p = PathTo
<1> DEFINE F(f) == [e \in Visited |-> IF parent[e] = e THEN << e >> ELSE Append(f[parent[e]], e)]
<1>1. p = F(p)
  <2>1. DOMAIN p = Visited
    BY DEF Paths
  <2>2. \A e \in Visited : p[e] = IF parent[e] = e THEN << e >> ELSE Append(p[parent[e]], e)
    BY DEF Paths
  <2> QED
    BY <2>1, <2>2 DEF Paths
<1>2. PathTo = CHOOSE f : f = F(f)
  BY DEF PathTo
<1>3. PathTo = F(PathTo)
  BY <1>1, <1>2
<1> DEFINE Bad == {n \in Nat : \E e \in Visited : Len(p[e]) = n /\ p[e] # PathTo[e]}
<1>4. ASSUME Bad # {} PROVE FALSE
  <2>1. PICK n \in Bad : \A k \in Bad : n <= k
    BY <1>4, SmallestOf
  <2>2. PICK e \in Visited : Len(p[e]) = n /\ p[e] # PathTo[e]
    BY <2>1
  <2>3. CASE e = search.from
    BY <1>3, <2>2, <2>3 DEF Paths
  <2>4. CASE e # search.from
    <3>1. parent[e] \in Visited /\ parent[e] # e /\ p[e] = Append(p[parent[e]], e)
      BY <2>2, <2>4 DEF Paths
    <3>2. p[parent[e]] \in Seq(Vertices) /\ Visited \subseteq DOMAIN p
      BY <3>1 DEF Paths
    <3>3. Len(p[parent[e]]) \in Nat /\ Len(p[parent[e]]) + 1 = n
      BY <3>1, <3>2, <2>2
    <3>4. p[parent[e]] = PathTo[parent[e]]
      BY <3>1, <3>3, <2>1
    <3> QED
      BY <1>3, <2>2, <3>1, <3>4
  <2> QED
    BY <2>3, <2>4
<1>5. \A e \in Visited : p[e] = PathTo[e]
  <2>1. \A e \in Visited : p[e] \in Seq(Vertices)
    BY DEF Paths
  <2> QED
    BY <1>4, <2>1
<1>6. DOMAIN p = Visited /\ DOMAIN PathTo = Visited
  BY <1>1, <1>3
<1>7. p = [e \in Visited |-> p[e]] /\ PathTo = [e \in Visited |-> PathTo[e]]
  BY <1>1, <1>3
<1> QED
  BY <1>5, <1>6, <1>7

(* A path leads from the start to its entity over links that were read. *)
IsTrail(s, last) ==
  /\ s \in Seq(Vertices) /\ s # << >> /\ s[1] = search.from /\ s[Len(s)] = last
  /\ \A i \in 2 .. Len(s) : Adjacent(s[i - 1], s[i], seen)

LEMMA TrailGrows ==
  ASSUME NEW s, NEW e, IsTrail(s, e), NEW f \in Vertices, Adjacent(e, f, seen)
  PROVE  IsTrail(Append(s, f), f) /\ Len(Append(s, f)) = Len(s) + 1
<1> DEFINE t == Append(s, f)
<1>1. /\ s \in Seq(Vertices) /\ s # << >> /\ s[1] = search.from /\ s[Len(s)] = e
      /\ \A i \in 2 .. Len(s) : Adjacent(s[i - 1], s[i], seen)
  BY DEF IsTrail
<1>2. /\ t \in Seq(Vertices) /\ t # << >> /\ Len(t) = Len(s) + 1
      /\ \A i \in 1 .. Len(s) : t[i] = s[i] /\ t[Len(s) + 1] = f
      /\ Len(s) \in Nat /\ Len(s) >= 1
  BY <1>1
<1>3. t[1] = search.from /\ t[Len(t)] = f
  BY <1>1, <1>2
<1>4. ASSUME NEW i \in 2 .. Len(t) PROVE Adjacent(t[i - 1], t[i], seen)
  <2>1. CASE i = Len(t)
    <3>1. i - 1 = Len(s) /\ t[i - 1] = e /\ t[i] = f
      BY <2>1, <1>1, <1>2
    <3> QED
      BY <3>1
  <2>2. CASE i # Len(t)
    <3>1. i \in 2 .. Len(s) /\ i - 1 \in 1 .. Len(s) /\ i \in 1 .. Len(s)
      BY <2>2, <1>2
    <3> QED
      BY <3>1, <1>1, <1>2
  <2> QED
    BY <2>1, <2>2
<1> HIDE DEF t
<1>5. IsTrail(t, f) /\ Len(t) = Len(s) + 1
  BY <1>2, <1>3, <1>4 DEF IsTrail
<1> QED
  BY <1>5 DEF t

LEMMA PathsAreTrails ==
  ASSUME NEW p, Paths(p), Visited \subseteq Vertices
  PROVE  \A e \in Visited : IsTrail(p[e], e)
<1> DEFINE Bad == {n \in Nat : \E e \in Visited : Len(p[e]) = n /\ ~IsTrail(p[e], e)}
<1>1. ASSUME Bad # {} PROVE FALSE
  <2>1. PICK n \in Bad : \A k \in Bad : n <= k
    BY <1>1, SmallestOf
  <2>2. PICK e \in Visited : Len(p[e]) = n /\ ~IsTrail(p[e], e)
    BY <2>1
  <2>3. CASE e = search.from
    <3>1. p[e] = << e >> /\ e \in Vertices /\ e = search.from
      BY <2>3 DEF Paths
    <3>2. IsTrail(<< e >>, e)
      BY <3>1 DEF IsTrail
    <3> QED
      BY <2>2, <3>1, <3>2
  <2>4. CASE e # search.from
    <3>1. /\ parent[e] \in Visited /\ parent[e] # e /\ p[e] = Append(p[parent[e]], e)
          /\ Adjacent(parent[e], e, seen)
      BY <2>2, <2>4 DEF Paths
    <3>2. p[parent[e]] \in Seq(Vertices)
      BY <3>1 DEF Paths
    <3>3. Len(p[parent[e]]) \in Nat /\ Len(p[parent[e]]) + 1 = n
      BY <3>1, <3>2, <2>2
    <3>4. IsTrail(p[parent[e]], parent[e])
      BY <3>1, <3>3, <2>1
    <3> QED
      BY <2>2, <3>1, <3>4, TrailGrows
  <2> QED
    BY <2>3, <2>4
<1> QED
  <2>1. \A e \in Visited : p[e] \in Seq(Vertices)
    BY DEF Paths
  <2> QED
    BY <1>1, <2>1

(* The sets of entities within n links. *)
Nearby == 0 .. Cardinality(Vertices)

NextLevel(S) == S \cup UNION {Neighbours(e) : e \in S}

LEMMA Within1 ==
  /\ Cardinality(Vertices) \in Nat /\ 0 \in Nearby
  /\ Within[0] = {search.from}
  /\ \A n \in Nearby \ {0} : n - 1 \in Nearby /\ Within[n] = NextLevel(Within[n - 1])
<1> DEFINE F(f, N) == [n \in 0 .. N |-> IF n = 0 THEN {search.from} ELSE NextLevel(f[n - 1])]
           C == Cardinality(Vertices)
<1>1. C \in Nat
  BY GraphSearchAssumption, FS_CardinalityType
<1> HIDE DEF C
<1> DEFINE Bad == {N \in Nat : ~ \E f : f = F(f, N)}
<1>2. ASSUME Bad # {} PROVE FALSE
  <2>1. PICK N \in Bad : \A k \in Bad : N <= k
    BY <1>2, SmallestOf
  <2>2. CASE N = 0
    <3> DEFINE g == [n \in 0 .. 0 |-> {search.from}]
    <3>1. g = F(g, 0)
      OBVIOUS
    <3> QED
      BY <2>1, <2>2, <3>1
  <2>3. CASE N # 0
    <3>0. N \in Nat /\ N - 1 \in Nat /\ ~(N <= N - 1)
      BY <2>1, <2>3
    <3> HIDE DEF F
    <3>1. N - 1 \notin Bad /\ N \in Nat
      <4> HIDE DEF Bad
      <4> QED
        BY <2>1, <3>0
    <3>2. PICK f : f = F(f, N - 1)
      BY <3>0, <3>1
    <3> USE DEF F
    <3> DEFINE g == [n \in 0 .. N |-> IF n = N THEN NextLevel(f[N - 1]) ELSE f[n]]
    <3>3. ASSUME NEW n \in 0 .. N PROVE g[n] = IF n = 0 THEN {search.from} ELSE NextLevel(g[n - 1])
      <4>1. CASE n = N
        BY <4>1, <3>1, <2>3
      <4>2. CASE n # N
        <5>1. n \in 0 .. N - 1 /\ (n # 0 => n - 1 \in 0 .. N - 1) /\ n - 1 # N /\ (n # 0 => n - 1 \in 0 .. N)
          BY <4>2, <3>1
        <5>2. f[n] = IF n = 0 THEN {search.from} ELSE NextLevel(f[n - 1])
          BY <3>2, <5>1
        <5> QED
          BY <4>2, <5>1, <5>2
      <4> QED
        BY <4>1, <4>2
    <3>4. g = F(g, N)
      BY <3>3
    <3> QED
      BY <2>1, <3>4
  <2> QED
    BY <2>2, <2>3
<1>3. \E f : f = F(f, C)
  BY <1>1, <1>2
<1>4. Within = CHOOSE f : f = F(f, C)
  BY DEF Within, C, NextLevel
<1>5. Within = F(Within, C)
  BY <1>3, <1>4
<1>6. \A n \in 0 .. C : Within[n] = IF n = 0 THEN {search.from} ELSE NextLevel(Within[n - 1])
  BY <1>5
<1> QED
  BY <1>1, <1>6 DEF C, Nearby

(* An entity of a path's length is within that many links. *)
LEMMA PathsBoundDistances ==
  ASSUME NEW p, Paths(p), InOrder(p), Visited \subseteq Vertices, seen \subseteq graph
  PROVE  \A e \in Visited : Len(p[e]) - 1 \in Nearby /\ e \in Within[Len(p[e]) - 1]
<1>0. \A e \in Visited : Len(p[e]) \in Nat \ {0} /\ Len(p[e]) <= Cardinality(Vertices)
  <2>1. Cardinality(Visited) \in Nat /\ Cardinality(Vertices) \in Nat
        /\ Cardinality(Visited) <= Cardinality(Vertices)
    BY GraphSearchAssumption, FS_Subset, FS_CardinalityType
  <2>2. ASSUME NEW e \in Visited PROVE Len(p[e]) \in Nat \ {0} /\ Len(p[e]) <= Cardinality(Visited)
    <3>1. p[e] \in Seq(Vertices) /\ p[e] # << >>
      BY PathsAreTrails DEF IsTrail
    <3>2. Len(p[e]) <= Cardinality(Visited)
      BY DEF InOrder
    <3> QED
      BY <3>1, <3>2
  <2> QED
    BY <2>1, <2>2
<1> DEFINE Bad == {n \in Nat : \E e \in Visited : Len(p[e]) - 1 = n /\ e \notin Within[n]}
<1>1. ASSUME Bad # {} PROVE FALSE
  <2>1. PICK n \in Bad : \A k \in Bad : n <= k
    BY <1>1, SmallestOf
  <2>2. PICK e \in Visited : Len(p[e]) - 1 = n /\ e \notin Within[n]
    BY <2>1
  <2>3. CASE e = search.from
    <3>1. Len(p[e]) = 1 /\ n = 0
      <4>1. p[e] = << search.from >>
        BY <2>3 DEF Paths
      <4> QED
        BY <4>1, <2>2
    <3> QED
      BY <2>2, <2>3, <3>1, Within1
  <2>4. CASE e # search.from
    <3>1. parent[e] \in Visited /\ Adjacent(parent[e], e, seen) /\ p[e] = Append(p[parent[e]], e)
      BY <2>2, <2>4 DEF Paths
    <3>2. p[parent[e]] \in Seq(Vertices)
      BY <3>1 DEF Paths
    <3>3. Len(p[parent[e]]) \in Nat \ {0} /\ Len(p[parent[e]]) = n
      BY <3>1, <3>2, <2>2, <1>0
    <3>4. n - 1 \in Nat /\ Len(p[parent[e]]) - 1 = n - 1 /\ ~(n <= n - 1)
      BY <3>3
    <3>5. parent[e] \in Within[n - 1]
      BY <3>1, <3>4, <2>1
    <3>6. n \in Nearby \ {0}
      BY <2>2, <3>3, <1>0, Within1 DEF Nearby
    <3>7. e \in Neighbours(parent[e])
      BY <3>1 DEF Neighbours, Across, Adjacent
    <3>8. Within[n] = NextLevel(Within[n - 1])
      BY <3>6, Within1
    <3> QED
      BY <2>2, <3>5, <3>7, <3>8 DEF NextLevel
  <2> QED
    BY <2>3, <2>4
<1>2. \A e \in Visited : Len(p[e]) - 1 \in Nat
  BY <1>0
<1> QED
  <2>1. ASSUME NEW e \in Visited PROVE Len(p[e]) - 1 \in Nearby
    BY <1>0, <1>2, Within1 DEF Nearby
  <2> QED
    BY <2>1, <1>1, <1>2

(* If all that is less deep than some level is expanded, what is within so many links
   is visited, and no deeper than its distance. *)
LEMMA ExpandedLevelsAreVisited ==
  ASSUME NEW p, Paths(p), InOrder(p), Visited \subseteq Vertices, NEW K \in Nat,
         \A e \in Visited : Len(p[e]) <= K => Expanded(p, e)
  PROVE  \A n \in Nearby : n <= K => \A f \in Within[n] : f \in Visited /\ Len(p[f]) <= n + 1
<1> DEFINE Bad == {n \in Nat : n \in Nearby /\ n <= K /\ \E f \in Within[n] :
                                 ~(f \in Visited /\ Len(p[f]) <= n + 1)}
<1>0. \A e \in Visited : Len(p[e]) \in Nat
  BY DEF Paths
<1>1. ASSUME Bad # {} PROVE FALSE
  <2>1. PICK n \in Bad : \A k \in Bad : n <= k
    BY <1>1, SmallestOf
  <2>2. PICK f \in Within[n] : ~(f \in Visited /\ Len(p[f]) <= n + 1)
    BY <2>1
  <2>3. CASE n = 0
    <3>1. f = search.from /\ Len(p[f]) = 1 /\ f \in Visited
      <4>1. f = search.from
        BY <2>2, <2>3, Within1
      <4>2. p[f] = << search.from >> /\ f \in Visited
        BY <4>1 DEF Paths
      <4> QED
        BY <4>1, <4>2
    <3> QED
      BY <2>2, <2>3, <3>1
  <2>4. CASE n # 0
    <3>1. n \in Nearby \ {0} /\ n \in Nat /\ n <= K
      BY <2>1, <2>4
    <3>2. n - 1 \in Nearby /\ Within[n] = NextLevel(Within[n - 1])
      BY <3>1, Within1
    <3>3. n - 1 \in Nat /\ n - 1 <= K /\ ~(n <= n - 1)
      BY <3>1, <2>4
    <3>4. \A e \in Within[n - 1] : e \in Visited /\ Len(p[e]) <= n
      BY <3>2, <3>3, <2>1
    <3>5. CASE f \in Within[n - 1]
      <4>1. f \in Visited /\ Len(p[f]) <= n
        BY <3>4, <3>5
      <4> QED
        BY <4>1, <2>2, <3>1, <1>0
    <3>6. CASE f \notin Within[n - 1]
      <4>1. PICK e \in Within[n - 1] : f \in Neighbours(e)
        BY <2>2, <3>2, <3>6 DEF NextLevel
      <4>2. e \in Visited /\ Len(p[e]) <= n /\ Len(p[e]) <= K
        BY <4>1, <3>4, <3>1, <1>0
      <4>3. f \in Visited /\ Len(p[f]) <= Len(p[e]) + 1
        BY <4>1, <4>2 DEF Expanded
      <4> QED
        BY <2>2, <3>1, <4>2, <4>3, <1>0
    <3> QED
      BY <3>5, <3>6
  <2> QED
    BY <2>3, <2>4
<1> QED
  BY <1>1 DEF Nearby

LEMMA LevelsGrow ==
  \A m, n \in Nearby : m <= n => Within[m] \subseteq Within[n]
<1> SUFFICES ASSUME NEW m \in Nearby, NEW k \in Nearby, m <= k, ~(Within[m] \subseteq Within[k])
             PROVE  FALSE
  OBVIOUS
<1> DEFINE Bad == {n \in Nat : n \in Nearby /\ m <= n /\ ~(Within[m] \subseteq Within[n])}
<1>0. m \in Nat /\ k \in Nat
  BY Within1 DEF Nearby
<1>1. k \in Bad
  BY <1>0
<1>2. PICK n \in Bad : \A i \in Bad : n <= i
  BY <1>1, SmallestOf
<1>3. n # m
  BY <1>2
<1>4. n \in Nat /\ n \in Nearby \ {0} /\ m <= n - 1 /\ ~(n <= n - 1) /\ n - 1 \in Nat
  BY <1>0, <1>2, <1>3
<1>5. n - 1 \in Nearby /\ Within[n] = NextLevel(Within[n - 1])
  BY <1>4, Within1
<1>6. Within[m] \subseteq Within[n - 1]
  BY <1>2, <1>4, <1>5
<1> QED
  BY <1>2, <1>5, <1>6 DEF NextLevel

(* Who comes first on the way is as far as the first level it is in. *)
LEMMA DistanceIs ==
  ASSUME NEW e, NEW n \in Nearby, e \in Within[n], \A m \in Nearby : e \in Within[m] => n <= m
  PROVE  Distance(e) = n
<1> DEFINE S == {m \in 0 .. Cardinality(Vertices) : e \in Within[m]}
<1>1. S \subseteq Nat /\ n \in S /\ n \in Nat
  BY Within1 DEF Nearby
<1>2. Min(S) \in S /\ \A m \in S : Min(S) <= m
  BY <1>1, MinIsLeast
<1>3. n <= Min(S) /\ Min(S) <= n /\ Min(S) \in Nat
  BY <1>1, <1>2 DEF Nearby
<1> HIDE DEF S
<1>4. Min(S) = n
  BY <1>1, <1>3
<1> QED
  BY <1>4 DEF Distance, S

LEMMA DistanceAtMost ==
  ASSUME NEW e, NEW n \in Nearby, e \in Within[n]
  PROVE  Distance(e) \in Nat /\ Distance(e) <= n
<1> DEFINE S == {m \in 0 .. Cardinality(Vertices) : e \in Within[m]}
<1>1. S \subseteq Nat /\ n \in S /\ n \in Nat
  BY Within1 DEF Nearby
<1>2. Min(S) \in S /\ \A m \in S : Min(S) <= m
  BY <1>1, MinIsLeast
<1>3. Min(S) <= n /\ Min(S) \in Nat
  BY <1>1, <1>2
<1> HIDE DEF S
<1> QED
  BY <1>3 DEF Distance, S

(* What is known of distances while the graph rests. *)
LEMMA DepthsAreDistances ==
  ASSUME SearchInv, changes = 0, missed = 0, NEW p, Paths(p), InOrder(p), Complete(p)
  PROVE  /\ \A e \in Visited : Distance(e) = Len(p[e]) - 1
         /\ queue # << >> => \A n \in Nearby : n < Len(p[queue[1]]) => Within[n] \subseteq Visited
         /\ queue = << >> /\ search.kind = "path" => \A n \in Nearby : Within[n] \subseteq Visited
         /\ queue = << >> /\ search.kind = "traverse" =>
              \A n \in Nearby : n <= MaxDepth => Within[n] \subseteq Visited
<1>1. /\ Visited \subseteq Vertices /\ seen \subseteq graph /\ queue \in Seq(Vertices)
      /\ search.kind \in {"path", "traverse"}
  BY GraphSearchAssumption DEF SearchInv, Complete
<1>2. \A e \in Visited : Len(p[e]) \in Nat \ {0} /\ Len(p[e]) - 1 \in Nearby /\ e \in Within[Len(p[e]) - 1]
  <2>1. \A e \in Visited : Len(p[e]) - 1 \in Nearby /\ e \in Within[Len(p[e]) - 1]
    BY <1>1, PathsBoundDistances
  <2>2. \A e \in Visited : Len(p[e]) \in Nat
    BY DEF Paths
  <2> QED
    BY <2>1, <2>2, Within1 DEF Nearby
<1>3. \A e \in Visited : \/ Waits(e) \/ Expanded(p, e)
                         \/ search.kind = "traverse" /\ Len(p[e]) = MaxDepth + 1
  BY DEF Complete
<1>4. CASE queue # << >>
  <2> DEFINE h == Len(p[queue[1]])
  <2>1. 1 \in 1 .. Len(queue) /\ queue[1] \in Visited /\ Len(queue) \in Nat
    BY <1>1, <1>4 DEF InOrder
  <2>2. h \in Nat \ {0} /\ h - 1 \in Nat /\ \A e \in Visited : Len(p[e]) <= h + 1
    BY <2>1, <1>2, <1>4 DEF InOrder
  <2>3. \A i \in 1 .. Len(queue) : h <= Len(p[queue[i]])
    BY <2>1 DEF InOrder
  <2>4. search.kind = "traverse" => h <= MaxDepth
    BY <2>1 DEF InOrder
  <2> HIDE DEF h
  <2>5. ASSUME NEW e \in Visited, Len(p[e]) <= h - 1 PROVE Expanded(p, e)
    <3>1. ~ Waits(e)
      BY <2>2, <2>3, <2>5, <1>2 DEF Waits
    <3>2. ~(search.kind = "traverse" /\ Len(p[e]) = MaxDepth + 1)
      BY <2>2, <2>4, <2>5, <1>2, GraphSearchAssumption
    <3> QED
      BY <1>3, <3>1, <3>2
  <2>6. \A n \in Nearby : n <= h - 1 => \A f \in Within[n] : f \in Visited /\ Len(p[f]) <= n + 1
    BY <1>1, <2>2, <2>5, ExpandedLevelsAreVisited
  <2>7. \A n \in Nearby : n \in Nat
    BY Within1 DEF Nearby
  <2>8. \A n \in Nearby : n < h => Within[n] \subseteq Visited
    BY <2>6, <2>7, <2>2
  <2>9. ASSUME NEW e \in Visited PROVE Distance(e) = Len(p[e]) - 1
    <3>1. ASSUME NEW m \in Nearby, e \in Within[m] PROVE Len(p[e]) - 1 <= m
      <4>1. CASE m <= h - 1
        BY <4>1, <3>1, <2>6, <2>7, <1>2
      <4>2. CASE ~(m <= h - 1)
        BY <4>2, <2>2, <2>7, <1>2
      <4> QED
        BY <4>1, <4>2
    <3> QED
      BY <3>1, <1>2, DistanceIs
  <2> QED
    BY <1>4, <2>8, <2>9 DEF h
<1>5. CASE queue = << >>
  <2>1. \A e \in Visited : ~ Waits(e)
    BY <1>5 DEF Waits
  <2>2. CASE search.kind = "path"
    <3>1. \A e \in Visited : Expanded(p, e)
      BY <1>3, <2>1, <2>2
    <3> DEFINE C == Cardinality(Vertices)
    <3>2. C \in Nat /\ \A n \in Nearby : n \in Nat /\ n <= C
      BY Within1 DEF Nearby
    <3> HIDE DEF C
    <3>3. \A n \in Nearby : n <= C => \A f \in Within[n] : f \in Visited /\ Len(p[f]) <= n + 1
      BY <1>1, <3>1, <3>2, ExpandedLevelsAreVisited
    <3>4. ASSUME NEW e \in Visited PROVE Distance(e) = Len(p[e]) - 1
      <4>1. ASSUME NEW m \in Nearby, e \in Within[m] PROVE Len(p[e]) - 1 <= m
        BY <4>1, <3>2, <3>3, <1>2
      <4> QED
        BY <4>1, <1>2, DistanceIs
    <3> QED
      BY <1>5, <2>2, <3>2, <3>3, <3>4
  <2>3. CASE search.kind = "traverse"
    <3>0. MaxDepth \in Nat \ {0}
      BY GraphSearchAssumption
    <3>1. \A e \in Visited : Len(p[e]) <= MaxDepth => Expanded(p, e)
      BY <1>3, <2>1, <1>2, <3>0
    <3>2. \A n \in Nearby : n \in Nat
      BY Within1 DEF Nearby
    <3>3. \A n \in Nearby : n <= MaxDepth => \A f \in Within[n] : f \in Visited /\ Len(p[f]) <= n + 1
      BY <1>1, <3>0, <3>1, ExpandedLevelsAreVisited
    <3>4. \A e \in Visited : Len(p[e]) <= MaxDepth + 1
      BY <2>3 DEF InOrder
    <3>5. ASSUME NEW e \in Visited PROVE Distance(e) = Len(p[e]) - 1
      <4>1. ASSUME NEW m \in Nearby, e \in Within[m] PROVE Len(p[e]) - 1 <= m
        <5>1. CASE m <= MaxDepth
          BY <5>1, <4>1, <3>2, <3>3, <1>2
        <5>2. CASE ~(m <= MaxDepth)
          BY <5>2, <3>0, <3>2, <3>4, <1>2
        <5> QED
          BY <5>1, <5>2
      <4> QED
        BY <4>1, <1>2, DistanceIs
    <3> QED
      BY <1>5, <2>3, <3>3, <3>5
  <2> QED
    BY <1>1, <2>2, <2>3
<1> QED
  BY <1>4, <1>5

LEMMA SearchInvIsTrue ==
  SearchInv => SearchesAreTrue
<1> SUFFICES ASSUME SearchInv PROVE SearchesAreTrue
  OBVIOUS
<1>0. /\ search.from \in Vertices /\ search.to \in Vertices /\ search.kind \in {"path", "traverse"}
      /\ queue \in Seq(Vertices) /\ Visited \subseteq Vertices
  BY GraphSearchAssumption DEF SearchInv
<1>1. CASE phase \in {"off", "on"}
  BY <1>1 DEF SearchesAreTrue
<1>2. CASE phase \in {"found", "none", "done"}
  <2>0. PICK p : Paths(p) /\ InOrder(p) /\ Complete(p) /\ Found(p)
    BY <1>2 DEF SearchInv
  <2>1. p = PathTo /\ \A e \in Visited : IsTrail(p[e], e)
    BY <1>0, <2>0, PathsAreThose, PathsAreTrails
  <2>2. \A n \in Nearby : n \in Nat /\ n <= Cardinality(Vertices)
    BY Within1 DEF Nearby
  <2>3. CASE phase = "found" /\ search.from = search.to
    <3>1. answer = << search.from >>
      BY <2>0, <2>3 DEF Found
    <3>2. Len(answer) = 1 /\ answer[1] = search.from /\ Last(answer) = search.to
      BY <3>1, <2>3 DEF Last
    <3>3. Distance(search.to) = 0
      BY <2>2, <2>3, Within1, DistanceIs
    <3>4. Len(answer) - 1 = Distance(search.to) /\ Len(answer) - 1 >= Distance(search.to)
      BY <3>2, <3>3
    <3> QED
      BY <2>3, <3>1, <3>2, <3>4 DEF SearchesAreTrue
  <2>4. CASE phase = "found" /\ search.from # search.to
    <3> DEFINE q == queue[1]
    <3>1. /\ queue # << >> /\ search.to \notin Visited
          /\ answer = Append(p[q], search.to) /\ Adjacent(q, search.to, seen)
      BY <2>0, <2>4 DEF Found
    <3>2. q \in Visited
      BY <1>0, <2>0, <3>1 DEF InOrder
    <3> HIDE DEF q
    <3>3. IsTrail(answer, search.to) /\ Len(answer) = Len(p[q]) + 1
      BY <1>0, <2>1, <3>1, <3>2, TrailGrows
    <3>4. answer[1] = search.from /\ Last(answer) = search.to
      BY <3>3 DEF IsTrail, Last
    <3>5. \A i \in 2 .. Len(answer) :
            {<<answer[i - 1], answer[i]>>, <<answer[i], answer[i - 1]>>} \cap seen # {}
      BY <3>3 DEF IsTrail, Adjacent
    <3>6. ASSUME changes = 0
          PROVE  /\ Len(p[q]) \in Nat \ {0} /\ Len(p[q]) \in Nearby
                 /\ search.to \in Within[Len(p[q])]
      <4>1. seen \subseteq graph
        BY <2>0, <3>6 DEF Complete
      <4>2. Len(p[q]) \in Nat \ {0} /\ Len(p[q]) - 1 \in Nearby /\ q \in Within[Len(p[q]) - 1]
        <5>1. Len(p[q]) - 1 \in Nearby /\ q \in Within[Len(p[q]) - 1]
          BY <1>0, <2>0, <3>2, <4>1, PathsBoundDistances
        <5>2. Len(p[q]) \in Nat
          BY <2>0, <3>2 DEF Paths
        <5> QED
          BY <5>1, <5>2, <2>2
      <4>3. Len(p[q]) \in Nearby
        <5>1. Cardinality(Visited) < Cardinality(Vertices) /\ Cardinality(Visited) \in Nat
          <6>1. Cardinality(Visited) \in Nat /\ Cardinality(Vertices) \in Nat
                /\ Cardinality(Visited) <= Cardinality(Vertices)
            BY <1>0, GraphSearchAssumption, FS_Subset, FS_CardinalityType
          <6>2. Cardinality(Visited) # Cardinality(Vertices)
            BY <1>0, <3>1, GraphSearchAssumption, FS_Subset
          <6> QED
            BY <6>1, <6>2
        <5>2. Len(p[q]) <= Cardinality(Visited)
          BY <2>0, <3>2 DEF InOrder
        <5> QED
          BY <4>2, <5>1, <5>2, Within1 DEF Nearby
      <4>4. search.to \in Neighbours(q)
        BY <1>0, <3>1, <4>1 DEF Neighbours, Across, Adjacent
      <4>5. Within[Len(p[q])] = NextLevel(Within[Len(p[q]) - 1])
        BY <4>2, <4>3, Within1
      <4> QED
        BY <4>2, <4>3, <4>4, <4>5 DEF NextLevel
    <3>7. ASSUME changes = 0 PROVE Len(answer) - 1 >= Distance(search.to)
      <4>1. Distance(search.to) <= Len(p[q]) /\ Distance(search.to) \in Nat
        BY <3>6, <3>7, DistanceAtMost
      <4> QED
        BY <3>3, <3>6, <3>7, <4>1
    <3>8. ASSUME changes = 0, missed = 0 PROVE Len(answer) - 1 = Distance(search.to)
      <4>1. \A n \in Nearby : n < Len(p[q]) => Within[n] \subseteq Visited
        BY <2>0, <3>1, <3>8, DepthsAreDistances DEF q
      <4>2. ASSUME NEW m \in Nearby, search.to \in Within[m] PROVE Len(p[q]) <= m
        <5>1. ~(m < Len(p[q]))
          BY <4>1, <4>2, <3>1
        <5> QED
          BY <5>1, <3>6, <3>8, <2>2
      <4>3. Distance(search.to) = Len(p[q])
        BY <3>6, <3>8, <4>2, DistanceIs
      <4> QED
        BY <3>3, <3>6, <3>8, <4>3
    <3> QED
      BY <2>4, <3>4, <3>5, <3>7, <3>8 DEF SearchesAreTrue
  <2>5. CASE phase = "none"
    <3>1. search.kind = "path" /\ queue = << >> /\ search.to \notin Visited
      BY <2>5 DEF SearchInv
    <3>2. ASSUME changes = 0, missed = 0 PROVE search.to \notin Within[Cardinality(Vertices)]
      <4>1. Cardinality(Vertices) \in Nearby
        BY Within1 DEF Nearby
      <4> QED
        BY <2>0, <3>1, <3>2, <4>1, DepthsAreDistances
    <3> QED
      BY <2>5, <3>2 DEF SearchesAreTrue
  <2>6. CASE phase = "done"
    <3>1. search.kind = "traverse" /\ (queue = << >> \/ Cardinality(Visited) >= MaxResults)
      BY <2>6 DEF SearchInv
    <3>2. ASSUME changes = 0, missed = 0 PROVE \A e \in Visited : Depth(e) = Distance(e)
      BY <2>0, <2>1, <3>2, DepthsAreDistances DEF Depth
    <3>3. ASSUME changes = 0, missed = 0, Cardinality(Visited) < MaxResults
          PROVE  Visited = Within[Min({MaxDepth, Cardinality(Vertices)})]
      <4> DEFINE n == Min({MaxDepth, Cardinality(Vertices)})
      <4>0. /\ MaxDepth \in Nat /\ Cardinality(Vertices) \in Nat /\ MaxResults \in Nat
            /\ Cardinality(Visited) \in Nat
        BY <1>0, GraphSearchAssumption, FS_Subset, FS_CardinalityType
      <4>1. n \in {MaxDepth, Cardinality(Vertices)} /\ n <= MaxDepth /\ n <= Cardinality(Vertices)
        BY <4>0, MinIsLeast
      <4> HIDE DEF n
      <4>2. n \in Nearby /\ n \in Nat
        BY <4>0, <4>1 DEF Nearby
      <4>3. queue = << >>
        BY <3>1, <3>3, <4>0
      <4>4. Within[n] \subseteq Visited
        BY <2>0, <3>1, <3>3, <4>1, <4>2, <4>3, DepthsAreDistances
      <4>5. ASSUME NEW e \in Visited PROVE e \in Within[n]
        <5>1. Len(p[e]) - 1 \in Nearby /\ e \in Within[Len(p[e]) - 1]
          <6>1. seen \subseteq graph
            BY <2>0, <3>3 DEF Complete
          <6> QED
            BY <1>0, <2>0, <6>1, PathsBoundDistances
        <5>2. Len(p[e]) <= MaxDepth + 1 /\ Len(p[e]) \in Nat
          BY <2>0, <3>1 DEF InOrder, Paths
        <5>3. Len(p[e]) - 1 <= n
          BY <5>1, <5>2, <4>0, <4>1, <2>2
        <5> QED
          BY <5>1, <5>3, <4>2, LevelsGrow
      <4>6. Visited = Within[n]
        BY <4>4, <4>5
      <4> QED
        BY <4>6 DEF n
    <3>4. ASSUME changes = 0, NEW e \in Visited PROVE Depth(e) >= Distance(e)
      <4>1. seen \subseteq graph
        BY <2>0, <3>4 DEF Complete
      <4>2. Len(p[e]) - 1 \in Nearby /\ e \in Within[Len(p[e]) - 1]
        BY <1>0, <2>0, <4>1, PathsBoundDistances
      <4>3. Distance(e) <= Len(p[e]) - 1 /\ Distance(e) \in Nat /\ Len(p[e]) - 1 \in Nat
        BY <2>2, <4>2, DistanceAtMost
      <4>4. Depth(e) = Len(p[e]) - 1
        BY <2>1 DEF Depth
      <4> QED
        BY <4>3, <4>4
    <3> QED
      BY <2>6, <3>2, <3>3, <3>4 DEF SearchesAreTrue
  <2> QED
    BY <1>2, <2>3, <2>4, <2>5, <2>6
<1> QED
  BY <1>1, <1>2 DEF SearchInv

LEMMA AllInASequence ==
  ASSUME NEW S, IsFiniteSet(S), NEW s \in SetToSeqs(S)
  PROVE  s \in Seq(S) /\ \A x \in S : \E i \in 1 .. Len(s) : s[i] = x
<1> DEFINE n == Cardinality(S)
<1>1. n \in Nat
  BY FS_CardinalityType
<1>2. s \in [1 .. n -> S] /\ \A i, j \in 1 .. n : i # j => s[i] # s[j]
  BY DEF SetToSeqs
<1>3. s \in Injection(1 .. n, S)
  BY <1>2 DEF Injection, IsInjective
<1>4. Cardinality(1 .. n) = n
  BY <1>1, FS_Interval
<1>5. s \in Surjection(1 .. n, S)
  BY <1>3, <1>4, FS_Injection
<1> HIDE DEF n
<1>6. s \in Seq(S) /\ Len(s) = n
  BY <1>1, <1>2
<1> QED
  BY <1>5, <1>6 DEF Surjection

LEMMA NoneInASequence ==
  ASSUME NEW s \in SetToSeqs({}) PROVE s = << >>
<1>1. s \in Seq({})
  BY AllInASequence, FS_EmptySet
<1> QED
  BY <1>1

(* The neighbours of the first in the queue are visited; those that are not too deep
   are put behind it. *)
LEMMA VisitKeeps ==
  ASSUME SearchInv, queue # << >>, NEW p, Paths(p), InOrder(p), Complete(p), NEW s, NEW got,
         ReadLinks(queue[1], got),
         \/ /\ s \in SetToSeqs(Across(queue[1], got) \ Visited)
            /\ search.kind = "traverse" => Len(p[queue[1]]) < MaxDepth
         \/ s = << >> /\ search.kind = "traverse" /\ Len(p[queue[1]]) = MaxDepth,
         queue' = Tail(queue) \o s,
         parent' = [f \in Visited \cup Across(queue[1], got) |->
                      IF f \in Visited THEN parent[f] ELSE queue[1]],
         UNCHANGED <<graph, search, changes>>
  PROVE  /\ queue' \in Seq(Vertices) /\ Visited' \subseteq Vertices
         /\ Visited' = Visited \cup Across(queue[1], got)
         /\ \E r : (Paths(r) /\ InOrder(r) /\ Complete(r))'
<1> DEFINE q == queue[1]
           N == Across(q, got)
<1>a. seen' = seen \cup got /\ got \subseteq LinksOf(q)
  BY DEF ReadLinks
<1>0. /\ queue \in Seq(Vertices) /\ Visited \subseteq Vertices /\ N \subseteq Vertices
      /\ seen \subseteq Links /\ graph \subseteq Links /\ got \subseteq graph
      /\ search.from \in Vertices /\ MaxDepth \in Nat \ {0}
      /\ search.kind \in {"path", "traverse"}
  BY <1>a, GraphSearchAssumption DEF SearchInv, Across, LinksOf
<1>1. /\ Len(queue) \in Nat \ {0} /\ 1 \in 1 .. Len(queue) /\ q \in Visited /\ Tail(queue) \in Seq(Vertices)
      /\ Len(Tail(queue)) = Len(queue) - 1
      /\ \A i \in 1 .. Len(queue) - 1 : Tail(queue)[i] = queue[i + 1] /\ i + 1 \in 1 .. Len(queue)
  BY <1>0 DEF InOrder
<1>2. /\ s \in Seq(N \ Visited)
      /\ ~(search.kind = "traverse" /\ Len(p[q]) = MaxDepth) =>
            \A f \in N \ Visited : \E i \in 1 .. Len(s) : s[i] = f
      /\ search.kind = "traverse" => Len(p[q]) < MaxDepth \/ (s = << >> /\ Len(p[q]) = MaxDepth)
  <2>1. IsFiniteSet(N \ Visited)
    BY <1>0, GraphSearchAssumption, FS_Subset
  <2>2. CASE s \in SetToSeqs(N \ Visited) /\ (search.kind = "traverse" => Len(p[q]) < MaxDepth)
    <3> DEFINE S == N \ Visited
    <3>0. IsFiniteSet(S) /\ s \in SetToSeqs(S)
      BY <2>1, <2>2
    <3> HIDE DEF S
    <3>1. s \in Seq(S) /\ \A f \in S : \E i \in 1 .. Len(s) : s[i] = f
      BY <3>0, AllInASequence
    <3> USE DEF S
    <3> QED
      BY <2>2, <3>1
  <2>3. CASE s = << >> /\ search.kind = "traverse" /\ Len(p[q]) = MaxDepth
    BY <2>3
  <2> QED
    BY <2>2, <2>3
<1>3. Visited' = Visited \cup N
  BY DEF Visited
<1>4. /\ \A f \in Visited : parent'[f] = parent[f]
      /\ \A f \in N \ Visited : parent'[f] = q
  OBVIOUS
<1> HIDE DEF N
<1>5. \A f \in Visited : p[f] \in Seq(Vertices) /\ Len(p[f]) \in Nat
  BY DEF Paths
<1>6. PICK r : r = [f \in Visited \cup N |-> IF f \in Visited THEN p[f] ELSE Append(p[q], f)]
  OBVIOUS
<1>7. /\ r \in [Visited \cup N -> Seq(Vertices)] /\ \A f \in Visited : r[f] = p[f]
      /\ \A f \in N \ Visited : r[f] = Append(p[q], f) /\ Len(r[f]) = Len(p[q]) + 1
  <2>1. \A f \in N \ Visited : r[f] = Append(p[q], f)
    BY <1>6
  <2>2. \A f \in N \ Visited : r[f] \in Seq(Vertices) /\ Len(r[f]) = Len(p[q]) + 1
    <3>1. p[q] \in Seq(Vertices)
      BY <1>1, <1>5
    <3> SUFFICES ASSUME NEW f \in N \ Visited
                 PROVE  r[f] \in Seq(Vertices) /\ Len(r[f]) = Len(p[q]) + 1
      OBVIOUS
    <3>2. r[f] = Append(p[q], f) /\ f \in Vertices
      BY <2>1, <1>0
    <3> QED
      BY <3>1, <3>2
  <2>3. \A f \in Visited : r[f] = p[f] /\ r[f] \in Seq(Vertices)
    BY <1>5, <1>6
  <2>4. r = [f \in Visited \cup N |-> r[f]]
    BY <1>6
  <2> QED
    BY <2>1, <2>2, <2>3, <2>4
<1>8. /\ \A i \in 1 .. Len(queue) - 1 : queue'[i] = queue[i + 1]
      /\ \A i \in 1 .. Len(s) : queue'[Len(queue) - 1 + i] = s[i]
      /\ Len(queue') = Len(queue) - 1 + Len(s) /\ Len(s) \in Nat /\ queue' \in Seq(Vertices)
  <2>1. s \in Seq(Vertices)
    BY <1>0, <1>2
  <2>2. /\ Tail(queue) \o s \in Seq(Vertices)
        /\ Len(Tail(queue) \o s) = Len(Tail(queue)) + Len(s)
        /\ \A i \in 1 .. Len(Tail(queue)) : (Tail(queue) \o s)[i] = Tail(queue)[i]
        /\ \A i \in 1 .. Len(s) : (Tail(queue) \o s)[Len(Tail(queue)) + i] = s[i]
    BY <1>1, <2>1
  <2> QED
    BY <1>1, <2>1, <2>2
<1>9. Paths(r)'
  <2>1. search'.from = search.from /\ search.from \in Visited'
    BY <1>3 DEF Paths
  <2>2. parent'[search.from] = search.from /\ r[search.from] = << search.from >>
    BY <1>4, <1>7 DEF Paths
  <2>3. ASSUME NEW e \in Visited' \ {search.from}
        PROVE  /\ parent'[e] \in Visited' /\ parent'[e] # e /\ Adjacent(parent'[e], e, seen')
               /\ r[e] = Append(r[parent'[e]], e)
    <3>1. CASE e \in Visited
      BY <3>1, <2>3, <1>a, <1>3, <1>4, <1>7 DEF Paths, Adjacent
    <3>2. CASE e \notin Visited
      <4>1. e \in N /\ parent'[e] = q /\ q # e
        BY <3>2, <1>1, <1>3, <1>4
      <4>2. {<<q, e>>, <<e, q>>} \cap got # {}
        BY <4>1 DEF N, Across
      <4>3. got \subseteq seen' /\ Adjacent(q, e, got)
        BY <1>a, <4>2 DEF Adjacent
      <4>4. Adjacent(q, e, seen')
        BY <4>3 DEF Adjacent
      <4>5. r[e] = Append(p[q], e) /\ r[q] = p[q] /\ q \in Visited'
        BY <3>2, <4>1, <1>1, <1>3, <1>7
      <4> QED
        BY <4>1, <4>4, <4>5
    <3> QED
      BY <3>1, <3>2
  <2>4. r \in [Visited' -> Seq(Vertices)]
    BY <1>3, <1>7
  <2> QED
    BY <2>1, <2>2, <2>3, <2>4 DEF Paths
<1>10. /\ \A e \in Visited : Len(p[e]) <= Len(p[q]) + 1
       /\ \A i \in 1 .. Len(queue) : queue[i] \in Visited /\ Len(p[q]) <= Len(p[queue[i]])
  BY <1>1 DEF InOrder
<1>11. \A e \in Visited' : Len(r[e]) \in Nat /\ Len(r[e]) <= Len(p[q]) + 1
  BY <1>1, <1>3, <1>5, <1>7, <1>10
<1>12. ASSUME NEW i \in 1 .. Len(queue')
       PROVE  /\ queue'[i] \in Visited' /\ Len(p[q]) <= Len(r[queue'[i]])
              /\ i <= Len(queue) - 1 => queue'[i] = queue[i + 1] /\ r[queue'[i]] = p[queue[i + 1]]
                                        /\ i + 1 \in 1 .. Len(queue)
              /\ i > Len(queue) - 1 => Len(r[queue'[i]]) = Len(p[q]) + 1 /\ s # << >>
  <2>1. CASE i <= Len(queue) - 1
    <3>1. i \in 1 .. Len(queue) - 1 /\ i + 1 \in 1 .. Len(queue)
      BY <2>1, <1>1, <1>8
    <3> QED
      BY <2>1, <3>1, <1>3, <1>7, <1>8, <1>10
  <2>2. CASE i > Len(queue) - 1
    <3>1. PICK j \in 1 .. Len(s) : i = Len(queue) - 1 + j
      <4>1. i - (Len(queue) - 1) \in 1 .. Len(s) /\ i = Len(queue) - 1 + (i - (Len(queue) - 1))
        BY <2>2, <1>1, <1>8
      <4> QED
        BY <4>1
    <3>2. queue'[i] = s[j] /\ s[j] \in N \ Visited
      <4>1. \A x \in 1 .. Len(s) : s[x] \in N \ Visited
        BY <1>2
      <4>2. queue'[Len(queue) - 1 + j] = s[j]
        BY <3>1, <1>8
      <4> QED
        BY <3>1, <4>1, <4>2
    <3>3. Len(r[queue'[i]]) = Len(p[q]) + 1 /\ queue'[i] \in Visited'
      <4>1. s[j] \in Visited'
        BY <3>2, <1>3
      <4>2. Len(r[s[j]]) = Len(p[q]) + 1
        BY <3>2, <1>7
      <4> QED
        BY <3>2, <4>1, <4>2
    <3>4. s # << >>
      BY <3>1, <1>8
    <3> QED
      BY <2>2, <3>3, <3>4, <1>1, <1>5
  <2> QED
    BY <2>1, <2>2, <1>1, <1>8
<1>13. InOrder(r)'
  <2>1. \A i \in 1 .. Len(queue') : queue'[i] \in Visited'
    BY <1>12
  <2>2. ASSUME NEW i \in 1 .. Len(queue'), NEW j \in 1 .. Len(queue'), i <= j
        PROVE  Len(r[queue'[i]]) <= Len(r[queue'[j]])
    <3>1. CASE j <= Len(queue) - 1
      <4>1. i <= Len(queue) - 1 /\ i + 1 <= j + 1
        BY <2>2, <3>1, <1>1, <1>8
      <4>2. Len(p[queue[i + 1]]) <= Len(p[queue[j + 1]])
        BY <4>1, <3>1, <1>12 DEF InOrder
      <4> QED
        BY <4>1, <4>2, <3>1, <1>12
    <3>2. CASE j > Len(queue) - 1
      BY <3>2, <2>1, <1>11, <1>12
    <3> QED
      BY <3>1, <3>2, <1>1, <1>8
  <2>3. ASSUME queue' # << >>, NEW e \in Visited' PROVE Len(r[e]) <= Len(r[queue'[1]]) + 1
    <3>1. 1 \in 1 .. Len(queue')
      BY <2>3, <1>8
    <3>2. Len(p[q]) <= Len(r[queue'[1]]) /\ Len(r[queue'[1]]) \in Nat
      BY <3>1, <1>11, <1>12
    <3>3. Len(p[q]) \in Nat /\ Len(r[e]) \in Nat /\ Len(r[e]) <= Len(p[q]) + 1
      BY <2>3, <1>1, <1>5, <1>11
    <3> DEFINE a == Len(p[q])
               b == Len(r[queue'[1]])
               c == Len(r[e])
    <3>4. a \in Nat /\ b \in Nat /\ c \in Nat /\ a <= b /\ c <= a + 1
      BY <3>2, <3>3, Zenon
    <3> HIDE DEF a, b, c
    <3>5. c <= b + 1
      BY <3>4
    <3> QED
      BY <3>5 DEF b, c
  <2>4. ASSUME NEW e \in Visited' PROVE Len(r[e]) <= Cardinality(Visited')
    <3>1. IsFiniteSet(Visited) /\ IsFiniteSet(Visited')
      BY <1>0, <1>3, GraphSearchAssumption, FS_Subset
    <3>2. /\ Cardinality(Visited) \in Nat /\ Cardinality(Visited') \in Nat
          /\ Cardinality(Visited) <= Cardinality(Visited')
      BY <3>1, <1>3, FS_Subset, FS_CardinalityType
    <3> HIDE DEF Visited
    <3>3. CASE e \in Visited
      <4>1. Len(p[e]) <= Cardinality(Visited)
        BY <3>3 DEF InOrder
      <4> QED
        BY <4>1, <3>2, <3>3, <1>5, <1>7
    <3>4. CASE e \notin Visited
      <4>1. Cardinality(Visited) # Cardinality(Visited')
        BY <3>1, <3>4, <1>3, FS_Subset
      <4>2. Len(p[q]) <= Cardinality(Visited)
        BY <1>1 DEF InOrder
      <4> QED
        BY <4>1, <4>2, <3>2, <1>1, <1>5, <1>11
    <3> QED
      BY <3>3, <3>4
  <2>5. ASSUME search'.kind = "traverse"
        PROVE  /\ \A e \in Visited' : Len(r[e]) <= MaxDepth + 1
               /\ \A i \in 1 .. Len(queue') : Len(r[queue'[i]]) <= MaxDepth
    <3>1. Len(p[q]) <= MaxDepth
      BY <2>5, <1>1 DEF InOrder
    <3>2. \A e \in Visited' : Len(r[e]) <= MaxDepth + 1
      BY <3>1, <1>0, <1>1, <1>5, <1>11
    <3>3. ASSUME NEW i \in 1 .. Len(queue') PROVE Len(r[queue'[i]]) <= MaxDepth
      <4>1. CASE i <= Len(queue) - 1
        BY <4>1, <2>5, <1>12 DEF InOrder
      <4>2. CASE i > Len(queue) - 1
        <5>1. Len(r[queue'[i]]) = Len(p[q]) + 1 /\ Len(p[q]) < MaxDepth
          BY <4>2, <2>5, <1>2, <1>12
        <5> QED
          BY <5>1, <1>0, <1>1, <1>5
      <4> QED
        BY <4>1, <4>2, <1>1, <1>8
    <3> QED
      BY <3>2, <3>3
  <2> QED
    BY <2>1, <2>2, <2>3, <2>4, <2>5 DEF InOrder
<1>14. Complete(r)'
  <2>1. changes' = 0 => seen' \subseteq graph'
    BY <1>0, <1>a DEF Complete
  <2> SUFFICES ASSUME changes = 0, missed' = 0
               PROVE  \A e \in Visited' : \/ Waits(e)' \/ Expanded(r, e)'
                                          \/ search.kind = "traverse" /\ Len(r[e]) = MaxDepth + 1
    BY <2>1 DEF Complete
  <2>0. missed = 0 /\ got = LinksOf(q)
    <3>1. missed \in Nat
      BY GraphSearchAssumption DEF SearchInv
    <3> QED
      BY <3>1 DEF ReadLinks
  <2>2. \A e : Neighbours(e)' = Neighbours(e)
    BY DEF Neighbours, Across
  <2>3. ASSUME NEW e \in Visited'
        PROVE  \/ Waits(e)' \/ Expanded(r, e)'
               \/ search.kind = "traverse" /\ Len(r[e]) = MaxDepth + 1
    <3>1. CASE e \in Visited /\ Waits(e) /\ e # q
      <4>1. PICK i \in 1 .. Len(queue) : queue[i] = e
        BY <3>1 DEF Waits
      <4>2. i - 1 \in 1 .. Len(queue) - 1 /\ (i - 1) + 1 = i
        BY <4>1, <3>1, <1>1
      <4>3. i - 1 \in 1 .. Len(queue') /\ queue'[i - 1] = e
        BY <4>1, <4>2, <1>1, <1>8
      <4> QED
        BY <4>3 DEF Waits
    <3>2. CASE e = q
      <4>1. \A f \in N : f \in Visited' /\ Len(r[f]) <= Len(p[q]) + 1
        BY <1>3, <1>11
      <4>0. Neighbours(q) = N
        BY <1>0, <2>0, <1>1 DEF N, Neighbours, Across, LinksOf
      <4>2. r[e] = p[q] /\ Neighbours(e) = N
        BY <3>2, <4>0, <1>1, <1>7
      <4>3. Expanded(r, e)'
        BY <4>1, <4>2, <2>2 DEF Expanded
      <4> QED
        BY <4>3
    <3>3. CASE e \in Visited /\ Expanded(p, e)
      <4>1. \A f \in Neighbours(e) : f \in Visited /\ Len(p[f]) <= Len(p[e]) + 1
        BY <3>3 DEF Expanded
      <4>2. \A f \in Neighbours(e) : f \in Visited' /\ Len(r[f]) <= Len(r[e]) + 1
        BY <3>3, <4>1, <1>3, <1>7
      <4>3. Expanded(r, e)'
        BY <4>2, <2>2 DEF Expanded
      <4> QED
        BY <4>3
    <3>4. CASE e \in Visited /\ search.kind = "traverse" /\ Len(p[e]) = MaxDepth + 1
      BY <3>4, <1>7
    <3>5. CASE e \notin Visited
      <4>1. e \in N \ Visited /\ Len(r[e]) = Len(p[q]) + 1
        BY <3>5, <1>3, <1>7
      <4>2. CASE search.kind = "traverse" /\ Len(p[q]) = MaxDepth
        BY <4>1, <4>2
      <4>3. CASE ~(search.kind = "traverse" /\ Len(p[q]) = MaxDepth)
        <5>1. PICK i \in 1 .. Len(s) : s[i] = e
          BY <4>1, <4>3, <1>2
        <5>2. Len(queue) - 1 + i \in 1 .. Len(queue') /\ queue'[Len(queue) - 1 + i] = e
          BY <5>1, <1>1, <1>8
        <5> QED
          BY <5>2 DEF Waits
      <4> QED
        BY <4>2, <4>3
    <3> QED
      BY <2>0, <3>1, <3>2, <3>3, <3>4, <3>5 DEF Complete
  <2> QED
    BY <2>3
<1>15. queue' \in Seq(Vertices) /\ Visited' \subseteq Vertices
  BY <1>0, <1>3, <1>8
<1> QED
  BY <1>3, <1>9, <1>13, <1>14, <1>15 DEF N

(* The invariant holds at the start and is kept by every step. *)
LEMMA SearchStarts == SearchInit => SearchInv
<1> SUFFICES ASSUME SearchInit PROVE SearchInv
  OBVIOUS
<1>1. parent = << >> /\ Visited = {}
  BY DEF SearchInit, Visited
<1> QED
  BY <1>1, GraphSearchAssumption DEF SearchInit, SearchInv

LEMMA StartKeeps == SearchInv /\ StartSearch => SearchInv'
<1> SUFFICES ASSUME SearchInv, StartSearch PROVE SearchInv'
  OBVIOUS
<1>a. PICK from : from = search.from
  OBVIOUS
<1>0. /\ from \in Vertices /\ search.to \in Vertices /\ search.kind \in {"path", "traverse"}
      /\ MaxDepth \in Nat \ {0} /\ seen = {} /\ changes = 0 /\ missed = 0 /\ phase = "off"
  BY <1>a, GraphSearchAssumption DEF SearchInv, StartSearch
<1>1. /\ queue' = << from >> /\ parent' = [e \in {from} |-> e] /\ Visited' = {from}
      /\ UNCHANGED <<graph, search, changes, missed, seen>>
  BY <1>a DEF StartSearch, Visited
<1>2. \/ search.kind = "path" /\ from = search.to /\ phase' = "found" /\ answer' = << from >>
      \/ ~(search.kind = "path" /\ from = search.to) /\ phase' = "on"
  BY <1>a DEF StartSearch
<1>3. PICK r : r = [e \in {from} |-> << from >>]
  OBVIOUS
<1>4. r \in [{from} -> Seq(Vertices)] /\ r[from] = << from >> /\ Len(r[from]) = 1
  <2>1. << from >> \in Seq(Vertices) /\ r[from] = << from >>
    BY <1>0, <1>3
  <2>2. Len(<< from >>) = 1
    OBVIOUS
  <2> QED
    BY <1>3, <2>1, <2>2
<1>5. Paths(r)'
  BY <1>a, <1>1, <1>4 DEF Paths
<1>6. InOrder(r)'
  <2>1. Len(queue') = 1 /\ queue'[1] = from /\ \A i \in 1 .. Len(queue') : queue'[i] = from
    BY <1>1
  <2>2. Cardinality(Visited') = 1
    BY <1>1, FS_Singleton
  <2>3. \A e \in Visited' : Len(r[e]) = 1
    BY <1>1, <1>4
  <2>4. /\ \A i \in 1 .. Len(queue') : queue'[i] \in Visited' /\ Len(r[queue'[i]]) = 1
        /\ Len(r[queue'[1]]) = 1
    BY <1>1, <1>4, <2>1, Zenon
  <2>5. \A i, j \in 1 .. Len(queue') : i <= j => Len(r[queue'[i]]) <= Len(r[queue'[j]])
    <3>1. \A i, j \in 1 .. Len(queue') : Len(r[queue'[i]]) = 1 /\ Len(r[queue'[j]]) = 1
      BY <2>4
    <3>2. 1 <= 1
      OBVIOUS
    <3> QED
      BY <3>1, <3>2, Zenon
  <2>6. /\ \A e \in Visited' : Len(r[e]) <= Len(r[queue'[1]]) + 1
        /\ \A e \in Visited' : Len(r[e]) <= Cardinality(Visited')
        /\ \A e \in Visited' : Len(r[e]) <= MaxDepth + 1
    <3>1. 1 <= 1 + 1 /\ 1 <= 1 /\ 1 <= MaxDepth + 1
      BY <1>0
    <3> QED
      BY <2>2, <2>3, <2>4, <3>1, Zenon
  <2>7. \A i \in 1 .. Len(queue') : Len(r[queue'[i]]) <= MaxDepth
    <3>1. 1 <= MaxDepth
      BY <1>0
    <3> QED
      BY <2>4, <3>1, Zenon
  <2> QED
    BY <2>4, <2>5, <2>6, <2>7 DEF InOrder
<1>7. Complete(r)'
  <2>1. 1 \in 1 .. Len(queue') /\ queue'[1] = from
    BY <1>1
  <2>2. Waits(from)'
    BY <2>1 DEF Waits
  <2> QED
    BY <1>0, <1>1, <2>2 DEF Complete
<1>8. Found(r)'
  BY <1>a, <1>1, <1>2 DEF Found
<1>9. queue' \in Seq(Vertices)
  BY <1>0, <1>1
<1> QED
  BY <1>0, <1>1, <1>2, <1>5, <1>6, <1>7, <1>8, <1>9 DEF SearchInv

(* What a read leaves as the invariant has it. *)
LEMMA ReadKeeps ==
  ASSUME SearchInv, NEW e, NEW got, ReadLinks(e, got)
  PROVE  /\ got \subseteq graph /\ got \subseteq Links /\ seen' = seen \cup got /\ seen' \subseteq Links
         /\ missed' \in 0 .. MaxMissed /\ (missed' = 0 => missed = 0)
<1>1. got \subseteq graph /\ graph \subseteq Links /\ seen \subseteq Links /\ seen' = seen \cup got
  BY DEF SearchInv, ReadLinks, LinksOf
<1>2. missed \in 0 .. MaxMissed /\ MaxMissed \in Nat
  BY GraphSearchAssumption DEF SearchInv
<1>3. missed' = missed \/ (missed < MaxMissed /\ missed' = missed + 1)
  BY DEF ReadLinks
<1>4. missed' \in 0 .. MaxMissed /\ (missed' = 0 => missed = 0)
  BY <1>2, <1>3
<1> QED
  BY <1>1, <1>4

LEMMA ExpandPathKeeps == SearchInv /\ ExpandPath => SearchInv'
<1> SUFFICES ASSUME SearchInv, ExpandPath PROVE SearchInv'
  OBVIOUS
<1> DEFINE q == queue[1]
<1>0. /\ queue \in Seq(Vertices) /\ queue # << >> /\ Head(queue) = q /\ phase = "on"
      /\ search.kind = "path" /\ search.to \notin Visited /\ search.to \in Vertices
      /\ Visited \subseteq Vertices /\ seen \subseteq Links /\ graph \subseteq Links
      /\ UNCHANGED <<graph, search, changes>>
      /\ search \in Asked /\ changes \in 0 .. MaxChanges
  BY GraphSearchAssumption DEF SearchInv, ExpandPath
<1>1. PICK p : Paths(p) /\ InOrder(p) /\ Complete(p)
  BY <1>0 DEF SearchInv
<1>a. PICK got \in SUBSET LinksOf(q) :
        /\ ReadLinks(q, got)
        /\ IF search.to \in Across(q, got)
           THEN /\ phase' = "found" /\ answer' = Append(PathTo[q], search.to)
                /\ UNCHANGED <<queue, parent>>
           ELSE Visit(q, Across(q, got), Across(q, got)) /\ UNCHANGED <<phase, answer>>
  BY <1>0 DEF ExpandPath
<1>b. /\ got \subseteq graph /\ got \subseteq Links /\ seen' = seen \cup got /\ seen' \subseteq Links
      /\ missed' \in 0 .. MaxMissed /\ (missed' = 0 => missed = 0)
  BY <1>a, ReadKeeps
<1>2. CASE search.to \in Across(q, got)
  <2>1. /\ phase' = "found" /\ answer' = Append(PathTo[q], search.to)
        /\ UNCHANGED <<queue, parent>>
    BY <1>a, <1>2
  <2>2. q \in Visited /\ Visited' = Visited
    BY <1>0, <1>1, <2>1 DEF InOrder, Visited
  <2>3. PathTo[q] = p[q]
    BY <1>1, PathsAreThose
  <2>4. Adjacent(q, search.to, seen')
    BY <1>b, <1>2 DEF Adjacent, Across
  <2>5. search.from # search.to
    BY <1>0, <1>1 DEF Paths
  <2>6. Found(p)'
    BY <1>0, <2>1, <2>2, <2>3, <2>4, <2>5 DEF Found
  <2>7. Paths(p)'
    BY <1>0, <1>b, <1>1, <2>1, <2>2 DEF Paths, Adjacent
  <2>8. InOrder(p)'
    BY <1>0, <1>1, <2>1, <2>2 DEF InOrder
  <2>9. Complete(p)'
    <3>1. \A e : Neighbours(e)' = Neighbours(e) /\ Waits(e)' = Waits(e)
      BY <1>0, <2>1 DEF Neighbours, Across, Waits
    <3> QED
      BY <1>0, <1>b, <1>1, <2>1, <2>2, <3>1 DEF Complete, Expanded
  <2> QED
    BY <1>0, <1>b, <2>1, <2>2, <2>6, <2>7, <2>8, <2>9 DEF SearchInv
<1>3. CASE search.to \notin Across(q, got)
  <2>1. Visit(q, Across(q, got), Across(q, got)) /\ UNCHANGED <<phase, answer>>
    BY <1>a, <1>3
  <2>2. PICK s \in SetToSeqs(Across(q, got) \ Visited) : queue' = Tail(queue) \o s
    BY <2>1 DEF Visit
  <2>3. /\ queue' \in Seq(Vertices) /\ Visited' \subseteq Vertices
        /\ Visited' = Visited \cup Across(q, got)
        /\ \E r : (Paths(r) /\ InOrder(r) /\ Complete(r))'
    <3>1. /\ s \in SetToSeqs(Across(queue[1], got) \ Visited) /\ search.kind # "traverse"
          /\ parent' = [f \in Visited \cup Across(queue[1], got) |->
                          IF f \in Visited THEN parent[f] ELSE queue[1]]
      BY <1>0, <2>1, <2>2 DEF Visit
    <3> QED
      BY <1>0, <1>a, <1>1, <2>2, <3>1, VisitKeeps
  <2>4. \A r : Found(r)'
    BY <1>0, <2>1 DEF Found
  <2> QED
    BY <1>0, <1>b, <1>3, <2>1, <2>3, <2>4 DEF SearchInv
<1> QED
  BY <1>2, <1>3

LEMMA ExpandTraversalKeeps == SearchInv /\ ExpandTraversal => SearchInv'
<1> SUFFICES ASSUME SearchInv, ExpandTraversal PROVE SearchInv'
  OBVIOUS
<1> DEFINE q == queue[1]
<1>0. /\ queue \in Seq(Vertices) /\ queue # << >> /\ Head(queue) = q /\ phase = "on"
      /\ search.kind = "traverse" /\ MaxDepth \in Nat \ {0}
      /\ Visited \subseteq Vertices /\ seen \subseteq Links /\ graph \subseteq Links
      /\ UNCHANGED <<graph, search, phase, answer, changes>>
      /\ search \in Asked /\ changes \in 0 .. MaxChanges
  BY GraphSearchAssumption DEF SearchInv, ExpandTraversal
<1>1. PICK p : Paths(p) /\ InOrder(p) /\ Complete(p)
  BY <1>0 DEF SearchInv
<1>a. PICK got \in SUBSET LinksOf(q) :
        /\ ReadLinks(q, got)
        /\ Visit(q, Across(q, got), IF Depth(q) + 1 < MaxDepth THEN Across(q, got) ELSE {})
  BY <1>0 DEF ExpandTraversal
<1>b. /\ got \subseteq graph /\ got \subseteq Links /\ seen' = seen \cup got /\ seen' \subseteq Links
      /\ missed' \in 0 .. MaxMissed /\ (missed' = 0 => missed = 0)
  BY <1>a, ReadKeeps
<1>2. q \in Visited /\ 1 \in 1 .. Len(queue)
  BY <1>0, <1>1 DEF InOrder
<1>3. Depth(q) = Len(p[q]) - 1 /\ Len(p[q]) \in Nat /\ Len(p[q]) <= MaxDepth
  <2>1. p = PathTo
    BY <1>1, PathsAreThose
  <2>2. Len(p[q]) \in Nat
    BY <1>1, <1>2 DEF Paths
  <2>3. \A i \in 1 .. Len(queue) : Len(p[queue[i]]) <= MaxDepth
    BY <1>0, <1>1 DEF InOrder
  <2> QED
    BY <1>2, <2>1, <2>2, <2>3 DEF Depth
<1>4. \E r : (Paths(r) /\ InOrder(r) /\ Complete(r))'
      /\ queue' \in Seq(Vertices) /\ Visited' \subseteq Vertices
  <2>1. CASE Depth(q) + 1 < MaxDepth
    <3>1. Visit(q, Across(q, got), Across(q, got))
      BY <1>a, <2>1
    <3>2. PICK s \in SetToSeqs(Across(q, got) \ Visited) : queue' = Tail(queue) \o s
      BY <3>1 DEF Visit
    <3>3. /\ s \in SetToSeqs(Across(queue[1], got) \ Visited) /\ Len(p[q]) < MaxDepth
          /\ parent' = [f \in Visited \cup Across(queue[1], got) |->
                          IF f \in Visited THEN parent[f] ELSE queue[1]]
      BY <1>0, <1>3, <2>1, <3>1, <3>2 DEF Visit
    <3> QED
      BY <1>0, <1>a, <1>1, <3>2, <3>3, VisitKeeps
  <2>2. CASE ~(Depth(q) + 1 < MaxDepth)
    <3>1. Visit(q, Across(q, got), {})
      BY <1>a, <2>2
    <3>2. PICK s \in SetToSeqs({} \ Visited) : queue' = Tail(queue) \o s
      BY <3>1 DEF Visit
    <3>3. s = << >>
      <4>1. {} \ Visited = {}
        OBVIOUS
      <4> QED
        BY <4>1, <3>2, NoneInASequence
    <3>4. /\ Len(p[q]) = MaxDepth
          /\ parent' = [f \in Visited \cup Across(queue[1], got) |->
                          IF f \in Visited THEN parent[f] ELSE queue[1]]
      BY <1>0, <1>3, <2>2, <3>1 DEF Visit
    <3> QED
      BY <1>0, <1>a, <1>1, <3>2, <3>3, <3>4, VisitKeeps
  <2> QED
    BY <2>1, <2>2
<1>5. \A r : Found(r)'
  BY <1>0 DEF Found
<1> QED
  BY <1>0, <1>b, <1>4, <1>5 DEF SearchInv

(* Steps that leave the queue and the parents alone. *)
LEMMA EndsAndChangesKeep == SearchInv /\ (NoPath \/ TraversalEnds \/ GraphChanges) => SearchInv'
<1> SUFFICES ASSUME SearchInv, NoPath \/ TraversalEnds \/ GraphChanges PROVE SearchInv'
  OBVIOUS
<1>0. /\ phase = "on" /\ UNCHANGED <<search, queue, parent, answer, missed, seen>> /\ Visited' = Visited
  BY DEF NoPath, TraversalEnds, GraphChanges, Visited
<1>1. PICK p : Paths(p) /\ InOrder(p) /\ Complete(p)
  BY <1>0 DEF SearchInv
<1>2. Paths(p)' /\ InOrder(p)'
  BY <1>0, <1>1 DEF Paths, InOrder
<1>3. \A e : Waits(e)' = Waits(e)
  BY <1>0 DEF Waits
<1>4. CASE NoPath \/ TraversalEnds
  <2>1. UNCHANGED <<graph, changes>> /\ phase' \in {"none", "done"}
    BY <1>4 DEF NoPath, TraversalEnds
  <2>2. \A e : Neighbours(e)' = Neighbours(e)
    BY <2>1 DEF Neighbours, Across
  <2>3. Complete(p)' /\ Found(p)'
    BY <1>0, <1>1, <1>3, <2>1, <2>2 DEF Complete, Expanded, Found
  <2>4. \E r : (Paths(r) /\ InOrder(r) /\ Complete(r) /\ Found(r))'
    BY <1>2, <2>3
  <2> QED
    BY <1>0, <1>4, <2>1, <2>4 DEF NoPath, TraversalEnds, SearchInv
<1>5. CASE GraphChanges
  <2>1. changes' \in 0 .. MaxChanges /\ changes' # 0 /\ graph' \subseteq Links /\ phase' = "on"
    BY <1>0, <1>5, GraphSearchAssumption DEF GraphChanges, SearchInv
  <2>2. Complete(p)' /\ Found(p)'
    BY <2>1 DEF Complete, Found
  <2>3. \E r : (Paths(r) /\ InOrder(r) /\ Complete(r) /\ Found(r))'
    BY <1>2, <2>2
  <2> QED
    BY <1>0, <2>1, <2>3 DEF SearchInv
<1> QED
  BY <1>4, <1>5

(* SearchesAreTrue: in a graph that rests and without a failing read FindPath's answer is
   a shortest path, it finds none only if there is none, and a traversal that is not cut
   off holds exactly what is within its depth; reads that fail make distances no shorter;
   and every step of a path is a link that was read.  For any graph, any depth, any
   changes and any reads that fail. *)
THEOREM SearchesAreTrueAlways == SearchSpec => []SearchesAreTrue
<1>1. SearchInv /\ [SearchNext]_searchVars => SearchInv'
  <2> SUFFICES ASSUME SearchInv, [SearchNext]_searchVars PROVE SearchInv'
    OBVIOUS
  <2>1. CASE UNCHANGED searchVars
    <3>1. /\ UNCHANGED <<graph, search, phase, queue, parent, answer, changes, missed, seen>>
          /\ Visited' = Visited
      BY <2>1 DEF searchVars, Visited
    <3>2. \A e : Neighbours(e)' = Neighbours(e) /\ Waits(e)' = Waits(e)
      BY <3>1 DEF Neighbours, Across, Waits
    <3>3. \A p : Paths(p) /\ InOrder(p) /\ Complete(p) /\ Found(p) =>
                 (Paths(p) /\ InOrder(p) /\ Complete(p) /\ Found(p))'
      BY <3>1, <3>2 DEF Paths, InOrder, Complete, Found, Expanded
    <3> QED
      BY <3>1, <3>3 DEF SearchInv
  <2> QED
    BY <2>1, StartKeeps, ExpandPathKeeps, ExpandTraversalKeeps, EndsAndChangesKeep
       DEF SearchNext, SearchStep
<1> QED
  BY <1>1, SearchStarts, SearchInvIsTrue, PTL DEF SearchSpec

-----------------------------------------------------------------------------
(* Loops: what a function that is defined round by round computes. *)

LEMMA LoopStays ==
  ASSUME NEW N \in Nat, NEW E, NEW f, f[0] \in E[0],
         \A i \in 1 .. N : f[i - 1] \in E[i - 1] => f[i] \in E[i]
  PROVE  \A i \in 0 .. N : f[i] \in E[i]
<1> DEFINE Bad == {i \in Nat : i <= N /\ f[i] \notin E[i]}
<1>1. ASSUME Bad # {} PROVE FALSE
  <2>1. PICK n \in Bad : \A k \in Bad : n <= k
    BY <1>1, SmallestOf
  <2>2. n # 0
    BY <2>1
  <2>3. n \in 1 .. N /\ n - 1 \in Nat /\ n - 1 <= N /\ ~(n <= n - 1)
    BY <2>1, <2>2
  <2>4. f[n - 1] \in E[n - 1]
    BY <2>1, <2>3
  <2> QED
    BY <2>1, <2>3, <2>4
<1> QED
  BY <1>1

LEMMA LoopExists ==
  ASSUME NEW D, NEW b \in D, NEW N \in Nat, NEW g \in [1 .. N -> [D -> D]]
  PROVE  \E f \in [0 .. N -> D] : f[0] = b /\ \A i \in 1 .. N : f[i] = g[i][f[i - 1]]
<1> DEFINE Runs(f, n) == f \in [0 .. n -> D] /\ f[0] = b /\ \A i \in 1 .. n : f[i] = g[i][f[i - 1]]
           Bad == {n \in Nat : n <= N /\ ~ \E f : Runs(f, n)}
<1>1. ASSUME Bad # {} PROVE FALSE
  <2>1. PICK n \in Bad : \A k \in Bad : n <= k
    BY <1>1, SmallestOf
  <2>2. CASE n = 0
    <3>1. Runs([i \in 0 .. 0 |-> b], 0)
      OBVIOUS
    <3> QED
      BY <2>1, <2>2, <3>1
  <2>3. CASE n # 0
    <3>1. n \in Nat /\ n <= N /\ n - 1 \in Nat /\ n - 1 <= N /\ ~(n <= n - 1)
      BY <2>1, <2>3
    <3>2. \E f : Runs(f, n - 1)
      <4> HIDE DEF Runs
      <4> QED
        BY <2>1, <3>1
    <3>3. PICK f : Runs(f, n - 1)
      BY <3>2
    <3> DEFINE h == [i \in 0 .. n |-> IF i = n THEN g[n][f[n - 1]] ELSE f[i]]
    <3>4. f[n - 1] \in D /\ g[n][f[n - 1]] \in D
      BY <3>1, <3>3, <2>3
    <3>5. h \in [0 .. n -> D]
      <4>1. \A i \in 0 .. n : i # n => i \in 0 .. n - 1
        BY <3>1
      <4> QED
        BY <3>3, <3>4, <4>1
    <3>6. h[0] = b
      BY <2>3, <3>1, <3>3
    <3>7. ASSUME NEW i \in 1 .. n PROVE h[i] = g[i][h[i - 1]]
      <4>1. i \in 0 .. n /\ i - 1 \in 0 .. n /\ i - 1 # n /\ h[i - 1] = f[i - 1]
        BY <3>1
      <4>2. CASE i = n
        BY <4>1, <4>2
      <4>3. CASE i # n
        <5>1. i \in 1 .. n - 1
          BY <4>3, <3>1
        <5> QED
          BY <3>3, <4>1, <4>3, <5>1
      <4> QED
        BY <4>2, <4>3
    <3> HIDE DEF h
    <3>8. Runs(h, n)
      BY <3>5, <3>6, <3>7
    <3> HIDE DEF Runs
    <3> QED
      BY <2>1, <3>8
  <2> QED
    BY <2>2, <2>3
<1>2. N \in Nat /\ N <= N
  OBVIOUS
<1>3. \E f : Runs(f, N)
  <2> HIDE DEF Runs
  <2> QED
    BY <1>1, <1>2
<1> QED
  BY <1>3

Runs(D, N, b, g) == \E f \in [0 .. N -> D] : f[0] = b /\ \A i \in 1 .. N : f[i] = g[i][f[i - 1]]

LEMMA LoopRuns ==
  \A D, N, b, g : N \in Nat /\ b \in D /\ g \in [1 .. N -> [D -> D]] => Runs(D, N, b, g)
<1> SUFFICES ASSUME NEW D, NEW N \in Nat, NEW b \in D, NEW g \in [1 .. N -> [D -> D]] PROVE Runs(D, N, b, g)
  OBVIOUS
<1>1. \E f \in [0 .. N -> D] : f[0] = b /\ \A i \in 1 .. N : f[i] = g[i][f[i - 1]]
  BY LoopExists
<1> QED
  BY <1>1 DEF Runs

Follows(D, N, b, g, f) == f[0] = b /\ \A i \in 1 .. N : f[i - 1] \in D => f[i] = g[i][f[i - 1]]

LEMMA LoopIs ==
  \A D, N, b, g, h :
    /\ N \in Nat /\ b \in D /\ g \in [1 .. N -> [D -> D]]
    /\ \A f \in [0 .. N -> D] : Follows(D, N, b, g, f) => Follows(D, N, b, g, h)
    => Follows(D, N, b, g, h) /\ \A i \in 0 .. N : h[i] \in D
<1> SUFFICES ASSUME NEW D, NEW N \in Nat, NEW b \in D, NEW g \in [1 .. N -> [D -> D]], NEW h,
                    \A f \in [0 .. N -> D] : Follows(D, N, b, g, f) => Follows(D, N, b, g, h)
             PROVE  Follows(D, N, b, g, h) /\ \A i \in 0 .. N : h[i] \in D
  OBVIOUS
<1>1. PICK f \in [0 .. N -> D] : f[0] = b /\ \A i \in 1 .. N : f[i] = g[i][f[i - 1]]
  <2>1. Runs(D, N, b, g)
    BY LoopRuns
  <2> QED
    BY <2>1 DEF Runs
<1>2. Follows(D, N, b, g, h)
  BY <1>1 DEF Follows
<1> DEFINE E == [i \in 0 .. N |-> D]
<1>3. h[0] \in E[0] /\ \A i \in 1 .. N : h[i - 1] \in E[i - 1] => h[i] \in E[i]
  <2>1. 0 \in 0 .. N /\ \A i \in 1 .. N : i - 1 \in 0 .. N /\ i \in 0 .. N
    OBVIOUS
  <2>2. \A i \in 1 .. N : h[i - 1] \in D => h[i] \in D
    BY <1>2 DEF Follows
  <2>3. h[0] \in D
    BY <1>2 DEF Follows
  <2> QED
    BY <2>1, <2>2, <2>3
<1> HIDE DEF E
<1>4. \A i \in 0 .. N : h[i] \in E[i]
  BY <1>3, LoopStays
<1> QED
  BY <1>2, <1>4 DEF E

-----------------------------------------------------------------------------
(* Sequences. *)

Distinct(s) == \A i, j \in DOMAIN s : s[i] = s[j] => i = j

LEMMA AppendedSet ==
  ASSUME NEW S, NEW s \in Seq(S), NEW e \in S
  PROVE  /\ ToSet(s) \subseteq S /\ ToSet(Append(s, e)) = ToSet(s) \cup {e}
         /\ Distinct(s) /\ e \notin ToSet(s) => Distinct(Append(s, e))
<1> DEFINE a == Append(s, e)
<1>1. /\ a \in Seq(S) /\ Len(a) = Len(s) + 1 /\ Len(s) \in Nat /\ a[Len(s) + 1] = e
      /\ \A i \in 1 .. Len(s) : a[i] = s[i] /\ s[i] \in S
  OBVIOUS
<1>2. DOMAIN s = 1 .. Len(s) /\ DOMAIN a = 1 .. Len(s) + 1
  BY <1>1
<1> HIDE DEF a
<1>3. \A i \in DOMAIN a : i = Len(s) + 1 \/ i \in DOMAIN s
  BY <1>1, <1>2
<1>4. ToSet(s) \subseteq S
  BY <1>1, <1>2 DEF ToSet
<1>5. ToSet(a) = ToSet(s) \cup {e}
  <2>1. ASSUME NEW x \in ToSet(a) PROVE x \in ToSet(s) \cup {e}
    <3>1. PICK i \in DOMAIN a : x = a[i]
      BY DEF ToSet
    <3>2. CASE i = Len(s) + 1
      BY <1>1, <3>1, <3>2
    <3>3. CASE i \in DOMAIN s
      BY <1>1, <1>2, <3>1, <3>3 DEF ToSet
    <3> QED
      BY <1>3, <3>2, <3>3
  <2>2. ASSUME NEW x \in ToSet(s) PROVE x \in ToSet(a)
    <3>1. PICK i \in DOMAIN s : x = s[i]
      BY DEF ToSet
    <3>2. i \in DOMAIN a /\ a[i] = x
      BY <1>1, <1>2, <3>1
    <3> QED
      BY <3>2 DEF ToSet
  <2>3. e \in ToSet(a)
    BY <1>1, <1>2 DEF ToSet
  <2> QED
    BY <2>1, <2>2, <2>3
<1>6. ASSUME Distinct(s), e \notin ToSet(s) PROVE Distinct(a)
  <2> SUFFICES ASSUME NEW i \in DOMAIN a, NEW j \in DOMAIN a, a[i] = a[j] PROVE i = j
    BY DEF Distinct
  <2>1. \A k \in DOMAIN s : a[k] = s[k] /\ s[k] # e
    BY <1>1, <1>2, <1>6 DEF ToSet
  <2>2. CASE i \in DOMAIN s /\ j \in DOMAIN s
    BY <1>6, <2>1, <2>2 DEF Distinct
  <2>3. CASE i = Len(s) + 1 \/ j = Len(s) + 1
    BY <1>1, <1>3, <2>1, <2>3
  <2> QED
    BY <1>3, <2>2, <2>3
<1> QED
  BY <1>4, <1>5, <1>6 DEF a

LEMMA FirstPart ==
  ASSUME NEW S, NEW s \in Seq(S), NEW n \in 0 .. Len(s)
  PROVE  LET t == SubSeq(s, 1, n) IN
         /\ t \in Seq(S) /\ Len(t) = n /\ \A i \in 1 .. n : t[i] = s[i]
         /\ ToSet(t) \subseteq ToSet(s) /\ (Distinct(s) => Distinct(t))
<1>1. Len(s) \in Nat /\ n \in Nat /\ DOMAIN s = 1 .. Len(s) /\ \A i \in 1 .. n : i \in DOMAIN s /\ s[i] \in S
  OBVIOUS
<1> DEFINE t == SubSeq(s, 1, n)
<1>2. /\ t \in Seq(S) /\ Len(t) = (IF 1 <= n THEN n - 1 + 1 ELSE 0)
      /\ \A i \in 1 .. n - 1 + 1 : t[i] = s[1 + i - 1]
  BY <1>1, SubSeqProperties
<1> HIDE DEF t
<1>3. Len(t) = n
  BY <1>1, <1>2
<1>4. \A i \in 1 .. n : t[i] = s[i]
  <2> SUFFICES ASSUME NEW i \in 1 .. n PROVE t[i] = s[i]
    OBVIOUS
  <2>1. i \in 1 .. n - 1 + 1 /\ 1 + i - 1 = i
    BY <1>1
  <2> QED
    BY <1>2, <2>1
<1>5. DOMAIN t = 1 .. n
  BY <1>2, <1>3
<1>6. ToSet(t) \subseteq ToSet(s)
  BY <1>1, <1>4, <1>5 DEF ToSet
<1>7. Distinct(s) => Distinct(t)
  BY <1>1, <1>4, <1>5 DEF Distinct
<1> QED
  BY <1>2, <1>3, <1>4, <1>6, <1>7 DEF t

-----------------------------------------------------------------------------
(* Hnsw: nodes, the closest of them, and the order of results. *)

Nodes == [id : Ids, vector : Points \cup {Nil}, layers : Seq(Seq(Nat \ {0}))]

LEMMA LiveNodes ==
  ASSUME NEW ns \in Seq(Nodes)
  PROVE  /\ Len(ns) \in Nat /\ DOMAIN ns = 1 .. Len(ns) /\ IsFiniteSet(DOMAIN ns)
         /\ Cardinality(DOMAIN ns) = Len(ns)
         /\ Live(ns) \subseteq 1 .. Len(ns) /\ IsFiniteSet(Live(ns))
         /\ \A i \in DOMAIN ns : /\ ns[i] \in Nodes /\ ns[i].id \in Ids /\ ns[i].vector \in Points \cup {Nil}
                                 /\ ns[i].layers \in Seq(Seq(Nat \ {0}))
         /\ \A i \in Live(ns) : ns[i].vector \in Points
<1>1. Len(ns) \in Nat /\ DOMAIN ns = 1 .. Len(ns) /\ \A i \in DOMAIN ns : ns[i] \in Nodes
  OBVIOUS
<1>2. \A x \in Nodes : x.id \in Ids /\ x.vector \in Points \cup {Nil} /\ x.layers \in Seq(Seq(Nat \ {0}))
  BY DEF Nodes
<1>3. IsFiniteSet(1 .. Len(ns)) /\ Cardinality(1 .. Len(ns)) = Len(ns)
  <2> DEFINE n == Len(ns)
  <2>1. n \in Nat
    BY <1>1
  <2> HIDE DEF n
  <2>2. IsFiniteSet(1 .. n) /\ Cardinality(1 .. n) = n
    BY <2>1, FS_Interval
  <2> QED
    BY <2>2 DEF n
<1>4. Live(ns) \subseteq 1 .. Len(ns) /\ IsFiniteSet(Live(ns))
  BY <1>1, <1>3, FS_Subset DEF Live
<1>5. \A i \in Live(ns) : ns[i].vector \in Points
  BY <1>1, <1>2 DEF Live
<1> QED
  BY <1>1, <1>2, <1>3, <1>4, <1>5

LEMMA ClosestIs ==
  ASSUME NEW ns \in Seq(Nodes), NEW v \in Points, NEW S \in SUBSET Live(ns), S # {}
  PROVE  Closest(ns, v, S) \in S /\ \A x \in S : Dist(ns, v, Closest(ns, v, S)) <= Dist(ns, v, x)
<1>1. \A x \in S : Dist(ns, v, x) \in Nat
  BY LiveNodes, HnswAssumption DEF Dist
<1> DEFINE ds == {Dist(ns, v, x) : x \in S}
<1>2. ds \in SUBSET Nat /\ ds # {}
  BY <1>1
<1>3. PICK d \in ds : \A e \in ds : d <= e
  BY <1>2, SmallestOf
<1>4. \E x \in S : \A y \in S : Dist(ns, v, x) <= Dist(ns, v, y)
  BY <1>3
<1> QED
  BY <1>4 DEF Closest

(* The closest that is not in s follows it. *)
Followed(ns, v, S, s) == Append(s, Closest(ns, v, S \ ToSet(s)))

Sorted(ns, v, S) ==
  CHOOSE f : f = [i \in 0 .. Cardinality(S) |->
                    IF i = 0 THEN << >> ELSE Followed(ns, v, S, f[i - 1])]

LEMMA SortedIs ==
  ASSUME NEW ns, NEW v, NEW S, IsFiniteSet(S)
  PROVE  /\ Sorted(ns, v, S)[0] = << >>
         /\ \A i \in 1 .. Cardinality(S) :
              Sorted(ns, v, S)[i] = Followed(ns, v, S, Sorted(ns, v, S)[i - 1])
         /\ \A n : Nearest(ns, v, S, n) = Sorted(ns, v, S)[Min({n, Cardinality(S)})]
<1> DEFINE N == Cardinality(S)
           D == Seq({Closest(ns, v, T) : T \in SUBSET S})
           Put(s) == Followed(ns, v, S, s)
           F(f) == [i \in 0 .. N |-> IF i = 0 THEN << >> ELSE Put(f[i - 1])]
           g == [i \in 1 .. N |-> [s \in D |-> Put(s)]]
           h == Sorted(ns, v, S)
<1>1. N \in Nat
  BY FS_CardinalityType
<1>2. \A s \in D : Put(s) \in D
  <2> SUFFICES ASSUME NEW s \in D PROVE Put(s) \in D
    OBVIOUS
  <2>1. Closest(ns, v, S \ ToSet(s)) \in {Closest(ns, v, T) : T \in SUBSET S}
    OBVIOUS
  <2> DEFINE R == {Closest(ns, v, T) : T \in SUBSET S}
             e == Closest(ns, v, S \ ToSet(s))
  <2>2. e \in R /\ s \in Seq(R)
    BY <2>1
  <2> HIDE DEF R, e
  <2>3. Append(s, e) \in Seq(R)
    BY <2>2
  <2> QED
    BY <2>3 DEF R, e, Followed
<1>3. << >> \in D
  OBVIOUS
<1>5a. \A f : f = F(f) => h = F(h)
  BY DEF Sorted
<1> HIDE DEF N, D, Put, h
<1>4. g \in [1 .. N -> [D -> D]]
  BY <1>2
<1>5. \A i \in 1 .. N, s \in D : g[i][s] = Put(s)
  OBVIOUS
<1> HIDE DEF g
<1>6. Follows(D, N, << >>, g, h) /\ \A i \in 0 .. N : h[i] \in D
  <2>1. ASSUME NEW f \in [0 .. N -> D], Follows(D, N, << >>, g, f) PROVE Follows(D, N, << >>, g, h)
    <3>1. \A i \in 1 .. N : f[i] = Put(f[i - 1])
      BY <1>1, <1>5, <2>1 DEF Follows
    <3>2. f = F(f)
      BY <1>1, <2>1, <3>1 DEF Follows
    <3>3. h = F(h)
      BY <1>5a, <3>2
    <3>4. h[0] = << >> /\ \A i \in 1 .. N : h[i] = Put(h[i - 1])
      BY <1>1, <3>3
    <3> QED
      BY <1>5, <3>4 DEF Follows
  <2> QED
    BY <1>1, <1>3, <1>4, <2>1, LoopIs
<1>9. \A n : Nearest(ns, v, S, n) = Sorted(ns, v, S)[Min({n, N})]
  BY DEF Nearest, Sorted, N, Followed
<1>11. h[0] = << >> /\ \A i \in 1 .. N : h[i] = Put(h[i - 1])
  BY <1>1, <1>5, <1>6 DEF Follows
<1> QED
  BY <1>9, <1>11 DEF h, N, Put

LEMMA SortedRows ==
  ASSUME NEW ns \in Seq(Nodes), NEW v \in Points, NEW S \in SUBSET Live(ns)
  PROVE  \A i \in 0 .. Cardinality(S) :
           LET s == Sorted(ns, v, S)[i] IN
           s \in Seq(S) /\ Len(s) = i /\ Distinct(s) /\ Cardinality(ToSet(s)) = i
<1> DEFINE N == Cardinality(S)
           E == [i \in 0 .. N |-> {s \in Seq(S) : Len(s) = i /\ Distinct(s) /\ Cardinality(ToSet(s)) = i}]
           h == Sorted(ns, v, S)
<1>0. IsFiniteSet(S)
  BY LiveNodes, FS_Subset
<1>1. N \in Nat
  BY <1>0, FS_CardinalityType
<1>2. h[0] = << >> /\ \A i \in 1 .. N : h[i] = Followed(ns, v, S, h[i - 1])
  BY <1>0, SortedIs
<1> HIDE DEF h
<1>3. h[0] \in E[0]
  <2>1. << >> \in Seq(S) /\ Len(<< >>) = 0 /\ DOMAIN << >> = {}
    OBVIOUS
  <2>2. ToSet(<< >>) = {} /\ Distinct(<< >>)
    BY <2>1 DEF ToSet, Distinct
  <2>3. Cardinality(ToSet(<< >>)) = 0
    BY <2>2, FS_EmptySet
  <2> QED
    BY <1>1, <1>2, <2>1, <2>2, <2>3
<1>4. ASSUME NEW i \in 1 .. N, h[i - 1] \in E[i - 1] PROVE h[i] \in E[i]
  <2> DEFINE s == h[i - 1]
             e == Closest(ns, v, S \ ToSet(s))
  <2>1. i - 1 \in 0 .. N /\ i \in 0 .. N /\ i - 1 \in Nat /\ i - 1 < N
    BY <1>1
  <2>2. s \in Seq(S) /\ Len(s) = i - 1 /\ Distinct(s) /\ Cardinality(ToSet(s)) = i - 1
    BY <1>4, <2>1
  <2>3. h[i] = Append(s, e)
    BY <1>2 DEF Followed
  <2> HIDE DEF s
  <2>4. S \ ToSet(s) # {}
    <3>1. ToSet(s) \subseteq S
      BY <2>2 DEF ToSet
    <3>2. SUFFICES ASSUME ToSet(s) = S PROVE FALSE
      BY <3>1
    <3>3. Cardinality(ToSet(s)) = N
      BY <3>2
    <3> QED
      BY <1>1, <2>1, <2>2, <3>3
  <2>5. e \in S /\ e \notin ToSet(s)
    <3>1. S \ ToSet(s) \in SUBSET Live(ns)
      OBVIOUS
    <3>2. e \in S \ ToSet(s)
      BY <2>4, <3>1, ClosestIs
    <3> QED
      BY <3>2
  <2> HIDE DEF e
  <2>6. Append(s, e) \in Seq(S) /\ Len(Append(s, e)) = i
    BY <2>1, <2>2, <2>5
  <2>7. ToSet(Append(s, e)) = ToSet(s) \cup {e} /\ Distinct(Append(s, e))
    BY <2>2, <2>5, AppendedSet
  <2>8. Cardinality(ToSet(Append(s, e))) = i
    <3>1. IsFiniteSet(ToSet(s))
      BY <1>0, <2>2, FS_Subset DEF ToSet
    <3>2. Cardinality(ToSet(s) \cup {e}) = Cardinality(ToSet(s)) + 1
      BY <2>5, <3>1, FS_AddElement
    <3> QED
      BY <2>1, <2>2, <2>7, <3>2
  <2> QED
    BY <2>1, <2>3, <2>6, <2>7, <2>8
<1> HIDE DEF N, E
<1>5. \A i \in 0 .. N : h[i] \in E[i]
  BY <1>1, <1>3, <1>4, LoopStays
<1> QED
  BY <1>5 DEF h, E, N

LEMMA SmallerOfTwo ==
  ASSUME NEW m \in Nat, NEW n \in Nat
  PROVE  Min({m, n}) = IF m <= n THEN m ELSE n
<1>1. {m, n} \in SUBSET Nat /\ {m, n} # {} /\ m \in {m, n} /\ n \in {m, n}
  OBVIOUS
<1>2. Min({m, n}) \in {m, n} /\ Min({m, n}) <= m /\ Min({m, n}) <= n
  BY <1>1, MinIsLeast
<1> QED
  BY <1>2

(* At most n of S, each once, and some if there are any. *)
LEMMA NearestIs ==
  ASSUME NEW ns \in Seq(Nodes), NEW v \in Points, NEW S \in SUBSET Live(ns), NEW n \in Nat
  PROVE  LET t == Nearest(ns, v, S, n) IN
         /\ t \in Seq(S) /\ Distinct(t) /\ Len(t) <= n
         /\ n # 0 /\ S # {} => t # << >>
<1> DEFINE N == Cardinality(S)
           m == Min({n, N})
<1>1. N \in Nat /\ IsFiniteSet(S)
  BY LiveNodes, FS_Subset, FS_CardinalityType
<1>2. m \in 0 .. N /\ m <= n /\ (n # 0 /\ N # 0 => m # 0)
  BY <1>1, SmallerOfTwo
<1>3. S # {} => N # 0
  BY <1>1, FS_EmptySet
<1>4. Nearest(ns, v, S, n) = Sorted(ns, v, S)[m]
  BY <1>1, SortedIs
<1> DEFINE s == Sorted(ns, v, S)[m]
<1>5. s \in Seq(S) /\ Len(s) = m /\ Distinct(s)
  BY <1>2, SortedRows
<1> HIDE DEF s, m, N
<1>6. m # 0 => s # << >>
  BY <1>5
<1> QED
  BY <1>2, <1>3, <1>4, <1>5, <1>6 DEF s

-----------------------------------------------------------------------------
(* Hnsw: the search of a layer. *)

(* A set of nodes that the links of layer l do not lead out of, but to removed nodes. *)
ClosedAt(ns, l, A) ==
  /\ A \in SUBSET Live(ns)
  /\ \A i \in A : ToSet(LinksAt(ns, i, l)) \cap Live(ns) \subseteq A

States(A) == [visited : SUBSET Nat, open : SUBSET A, results : (SUBSET A) \ {{}}]

(* What meets the node ix, and how: only if it is in the list and was not met. *)
IsNew(ns, s, ix) == ix \in DOMAIN ns /\ ix \notin s.visited

Counts(ns, v, ef, s, ix) ==
  /\ ns[ix].vector # Nil
  /\ \/ Cardinality(s.results) < ef
     \/ Dist(ns, v, ix) < Dist(ns, v, Farthest(ns, v, s.results))

Kept(ns, v, ef, s) ==
  IF Cardinality(s.results) < ef THEN s.results ELSE s.results \ {Farthest(ns, v, s.results)}

LEMMA MeetCases ==
  ASSUME NEW ns, NEW v, NEW ef, NEW s, NEW ix
  PROVE  /\ ~IsNew(ns, s, ix) => Meet(ns, v, ef, s, ix) = s
         /\ IsNew(ns, s, ix) /\ Counts(ns, v, ef, s, ix) =>
              Meet(ns, v, ef, s, ix) = [visited |-> s.visited \cup {ix}, open |-> s.open \cup {ix},
                                        results |-> Kept(ns, v, ef, s) \cup {ix}]
         /\ IsNew(ns, s, ix) /\ ~Counts(ns, v, ef, s, ix) =>
              Meet(ns, v, ef, s, ix) = [s EXCEPT !.visited = @ \cup {ix}]
BY Zenon DEF Meet, IsNew, Counts, Kept

LEMMA MeetFits ==
  ASSUME NEW ns \in Seq(Nodes), NEW v, NEW ef, NEW A \in SUBSET Live(ns), NEW s \in States(A), NEW ix,
         ix \in Live(ns) => ix \in A
  PROVE  Meet(ns, v, ef, s, ix) \in States(A)
<1>1. CASE ~IsNew(ns, s, ix)
  BY <1>1, MeetCases
<1>2. CASE IsNew(ns, s, ix) /\ Counts(ns, v, ef, s, ix)
  <2> DEFINE r == Kept(ns, v, ef, s) \cup {ix}
  <2>1. ix \in Nat /\ ix \in A
    BY <1>2, LiveNodes DEF Live, IsNew, Counts
  <2>2. s.visited \cup {ix} \in SUBSET Nat /\ s.open \cup {ix} \in SUBSET A
    BY <2>1 DEF States
  <2>3. r \in (SUBSET A) \ {{}}
    BY <2>1 DEF States, Kept
  <2> HIDE DEF r
  <2>4. [visited |-> s.visited \cup {ix}, open |-> s.open \cup {ix}, results |-> r] \in States(A)
    BY <2>2, <2>3 DEF States
  <2>5. Meet(ns, v, ef, s, ix) = [visited |-> s.visited \cup {ix}, open |-> s.open \cup {ix}, results |-> r]
    BY <1>2, MeetCases DEF r
  <2> QED
    BY <2>4, <2>5
<1>3. CASE IsNew(ns, s, ix) /\ ~Counts(ns, v, ef, s, ix)
  <2>1. Meet(ns, v, ef, s, ix) = [s EXCEPT !.visited = @ \cup {ix}]
    BY <1>3, MeetCases
  <2>2. ix \in Nat
    BY <1>3, LiveNodes DEF IsNew
  <2>3. [s EXCEPT !.visited = @ \cup {ix}] \in States(A)
    BY <2>2 DEF States
  <2> QED
    BY <2>1, <2>3
<1> QED
  BY <1>1, <1>2, <1>3

Met(ns, v, ef, s, links) ==
  CHOOSE f : f = [i \in 0 .. Len(links) |-> IF i = 0 THEN s ELSE Meet(ns, v, ef, f[i - 1], links[i])]

OneByOne(ns, v, ef, A, s, links, f) ==
  /\ f[0] = s /\ \A i \in 1 .. Len(links) : f[i] = Meet(ns, v, ef, f[i - 1], links[i])
  /\ \A i \in 0 .. Len(links) : f[i] \in States(A)

LEMMA MetIs ==
  ASSUME NEW ns \in Seq(Nodes), NEW v, NEW ef, NEW A \in SUBSET Live(ns), NEW s \in States(A),
         NEW links \in Seq(Nat), ToSet(links) \cap Live(ns) \subseteq A
  PROVE  OneByOne(ns, v, ef, A, s, links, Met(ns, v, ef, s, links))
<1> DEFINE N == Len(links)
           D == States(A)
           Op(x, i) == Meet(ns, v, ef, x, links[i])
           F(f) == [i \in 0 .. N |-> IF i = 0 THEN s ELSE Op(f[i - 1], i)]
           g == [i \in 1 .. N |-> [x \in D |-> Op(x, i)]]
           h == Met(ns, v, ef, s, links)
<1>1. N \in Nat /\ s \in D
  OBVIOUS
<1>2. \A i \in 1 .. N, x \in D : Op(x, i) \in D
  <2> SUFFICES ASSUME NEW i \in 1 .. N, NEW x \in D PROVE Op(x, i) \in D
    OBVIOUS
  <2>1. links[i] \in ToSet(links)
    BY DEF ToSet
  <2>2. links[i] \in Live(ns) => links[i] \in A
    BY <2>1
  <2> QED
    BY <2>2, MeetFits
<1>4. \A f : f = F(f) => h = F(h)
  BY DEF Met
<1> HIDE DEF N, D, Op, h
<1>5. g \in [1 .. N -> [D -> D]]
  BY <1>2
<1>5a. \A i \in 1 .. N, x \in D : g[i][x] = Op(x, i)
  OBVIOUS
<1> HIDE DEF g
<1>6. Follows(D, N, s, g, h) /\ \A i \in 0 .. N : h[i] \in D
  <2>1. ASSUME NEW f \in [0 .. N -> D], Follows(D, N, s, g, f) PROVE Follows(D, N, s, g, h)
    <3>1. \A i \in 1 .. N : f[i] = Op(f[i - 1], i)
      BY <1>1, <1>5a, <2>1 DEF Follows
    <3>2. f = F(f)
      BY <1>1, <2>1, <3>1 DEF Follows
    <3>3. h = F(h)
      BY <1>4, <3>2
    <3>4. h[0] = s /\ \A i \in 1 .. N : h[i] = Op(h[i - 1], i)
      BY <1>1, <3>3
    <3> QED
      BY <1>5a, <3>4 DEF Follows
  <2> QED
    BY <1>1, <1>5, <2>1, LoopIs
<1>7. h[0] = s /\ \A i \in 1 .. N : h[i] = Op(h[i - 1], i)
  BY <1>1, <1>5a, <1>6 DEF Follows
<1> QED
  BY <1>6, <1>7 DEF N, D, Op, h, OneByOne

LEMMA MeetAllIs ==
  ASSUME NEW ns, NEW v, NEW ef, NEW s, NEW links
  PROVE  MeetAll(ns, v, ef, s, links) = Met(ns, v, ef, s, links)[Len(links)]
BY DEF MeetAll, Met

LEMMA LinksAtIs ==
  ASSUME NEW ns \in Seq(Nodes), NEW ix \in DOMAIN ns, NEW l \in Nat
  PROVE  LinksAt(ns, ix, l) \in Seq(Nat \ {0})
<1>1. ns[ix].layers \in Seq(Seq(Nat \ {0}))
  BY LiveNodes
<1> DEFINE x == ns[ix].layers
<1>2. x \in Seq(Seq(Nat \ {0})) /\ Len(x) \in Nat
  BY <1>1
<1>3. LinksAt(ns, ix, l) = IF l < Len(x) THEN x[l + 1] ELSE << >>
  BY DEF LinksAt
<1> HIDE DEF x
<1>4. CASE l < Len(x)
  <2>1. l + 1 \in 1 .. Len(x)
    BY <1>2, <1>4
  <2> QED
    BY <1>2, <1>3, <1>4, <2>1
<1>5. CASE ~(l < Len(x))
  BY <1>3, <1>5
<1> QED
  BY <1>4, <1>5

LEMMA ClosestOpen ==
  ASSUME NEW ns \in Seq(Nodes), NEW v \in Points, NEW l \in Nat, NEW A, ClosedAt(ns, l, A),
         NEW s \in States(A), s.open # {}
  PROVE  LET c == Closest(ns, v, s.open) IN
         /\ c \in s.open /\ c \in A /\ c \in DOMAIN ns
         /\ LinksAt(ns, c, l) \in Seq(Nat \ {0}) /\ LinksAt(ns, c, l) \in Seq(Nat)
         /\ ToSet(LinksAt(ns, c, l)) \cap Live(ns) \subseteq A
         /\ [s EXCEPT !.open = @ \ {c}] \in States(A)
<1> DEFINE c == Closest(ns, v, s.open)
           links == LinksAt(ns, c, l)
           P == Nat \ {0}
<1>1. s.open \in SUBSET A /\ s.open \in SUBSET Live(ns)
  BY DEF States, ClosedAt
<1>2. c \in s.open /\ c \in A /\ c \in DOMAIN ns
  BY <1>1, ClosestIs, LiveNodes
<1>3. links \in Seq(P) /\ P \subseteq Nat
  BY <1>2, LinksAtIs
<1>4. ToSet(links) \cap Live(ns) \subseteq A
  BY <1>2 DEF ClosedAt
<1>5. [s EXCEPT !.open = @ \ {c}] \in States(A)
  BY DEF States
<1> HIDE DEF c, links, P
<1>6. links \in Seq(Nat)
  BY <1>3, SeqMonotonic
<1> QED
  BY <1>2, <1>3, <1>4, <1>5, <1>6 DEF c, links, P

LEMMA MeetAllFits ==
  ASSUME NEW ns \in Seq(Nodes), NEW v, NEW ef, NEW A \in SUBSET Live(ns), NEW s \in States(A),
         NEW links \in Seq(Nat), ToSet(links) \cap Live(ns) \subseteq A
  PROVE  MeetAll(ns, v, ef, s, links) \in States(A)
<1>1. Len(links) \in 0 .. Len(links)
  OBVIOUS
<1>2. MeetAll(ns, v, ef, s, links) = Met(ns, v, ef, s, links)[Len(links)]
  BY MeetAllIs
<1>3. \A i \in 0 .. Len(links) : Met(ns, v, ef, s, links)[i] \in States(A)
  BY MetIs DEF OneByOne
<1> QED
  BY <1>1, <1>2, <1>3

LEMMA ExpandFits ==
  ASSUME NEW ns \in Seq(Nodes), NEW v \in Points, NEW ef, NEW l \in Nat, NEW A, ClosedAt(ns, l, A),
         NEW s \in States(A)
  PROVE  Expand(ns, v, ef, l, s) \in States(A)
<1> DEFINE c == Closest(ns, v, s.open)
           t == [s EXCEPT !.open = @ \ {c}]
<1>1. CASE s.open = {}
  BY <1>1 DEF Expand
<1>2. CASE s.open # {}
  <2>1. A \in SUBSET Live(ns)
    BY DEF ClosedAt
  <2>2. /\ LinksAt(ns, c, l) \in Seq(Nat) /\ ToSet(LinksAt(ns, c, l)) \cap Live(ns) \subseteq A
        /\ t \in States(A)
    BY <1>2, ClosestOpen
  <2>3. [s EXCEPT !.open = {}] \in States(A)
    BY DEF States
  <2> HIDE DEF c, t
  <2>4. MeetAll(ns, v, ef, t, LinksAt(ns, c, l)) \in States(A)
    BY <2>1, <2>2, MeetAllFits
  <2>5. Expand(ns, v, ef, l, s) \in {[s EXCEPT !.open = {}], MeetAll(ns, v, ef, t, LinksAt(ns, c, l))}
    BY <1>2 DEF Expand, c, t
  <2> QED
    BY <2>3, <2>4, <2>5
<1> QED
  BY <1>1, <1>2

SearchStart(entry) == [visited |-> {entry}, open |-> {entry}, results |-> {entry}]

Run(ns, v, entry, ef, l) ==
  CHOOSE f : f = [i \in 0 .. Len(ns) |-> IF i = 0 THEN SearchStart(entry) ELSE Expand(ns, v, ef, l, f[i - 1])]

LEMMA ExploredRun ==
  ASSUME NEW ns, NEW v, NEW ef, NEW l, NEW entry
  PROVE  Explored(ns, v, entry, ef, l) = Run(ns, v, entry, ef, l)[Len(ns)].results
BY DEF Explored, Run, SearchStart

RoundByRound(ns, v, ef, l, A, entry, f) ==
  /\ f[0] = SearchStart(entry) /\ \A i \in 1 .. Len(ns) : f[i] = Expand(ns, v, ef, l, f[i - 1])
  /\ \A i \in 0 .. Len(ns) : f[i] \in States(A)

LEMMA RunIs ==
  ASSUME NEW ns \in Seq(Nodes), NEW v \in Points, NEW ef, NEW l \in Nat, NEW A, ClosedAt(ns, l, A), NEW entry \in A
  PROVE  RoundByRound(ns, v, ef, l, A, entry, Run(ns, v, entry, ef, l))
<1> DEFINE N == Len(ns)
           D == States(A)
           b == SearchStart(entry)
           Op(x) == Expand(ns, v, ef, l, x)
           F(f) == [i \in 0 .. N |-> IF i = 0 THEN b ELSE Op(f[i - 1])]
           g == [i \in 1 .. N |-> [x \in D |-> Op(x)]]
           h == Run(ns, v, entry, ef, l)
<1>1. N \in Nat /\ b \in D
  <2>1. A \in SUBSET Live(ns) /\ entry \in Nat
    BY LiveNodes DEF ClosedAt
  <2> QED
    BY <2>1, LiveNodes DEF States, SearchStart
<1>2. \A x \in D : Op(x) \in D
  BY ExpandFits
<1>4. \A f : f = F(f) => h = F(h)
  BY DEF Run
<1> HIDE DEF N, D, Op, h, b
<1>5. g \in [1 .. N -> [D -> D]]
  BY <1>2
<1>5a. \A i \in 1 .. N, x \in D : g[i][x] = Op(x)
  OBVIOUS
<1> HIDE DEF g
<1>6. Follows(D, N, b, g, h) /\ \A i \in 0 .. N : h[i] \in D
  <2>1. ASSUME NEW f \in [0 .. N -> D], Follows(D, N, b, g, f) PROVE Follows(D, N, b, g, h)
    <3>1. \A i \in 1 .. N : f[i] = Op(f[i - 1])
      BY <1>1, <1>5a, <2>1 DEF Follows
    <3>2. f = F(f)
      BY <1>1, <2>1, <3>1 DEF Follows
    <3>3. h = F(h)
      BY <1>4, <3>2
    <3>4. h[0] = b /\ \A i \in 1 .. N : h[i] = Op(h[i - 1])
      BY <1>1, <3>3
    <3> QED
      BY <1>5a, <3>4 DEF Follows
  <2> QED
    BY <1>1, <1>5, <2>1, LoopIs
<1>7. h[0] = b /\ \A i \in 1 .. N : h[i] = Op(h[i - 1])
  BY <1>1, <1>5a, <1>6 DEF Follows
<1> QED
  BY <1>6, <1>7 DEF N, D, Op, h, b, RoundByRound

LEMMA AllAreClosed ==
  ASSUME NEW ns, NEW l
  PROVE  ClosedAt(ns, l, Live(ns))
BY DEF ClosedAt

(* A search of a layer does not leave a set that no link leads out of. *)
LEMMA ExploredIs ==
  ASSUME NEW ns \in Seq(Nodes), NEW v \in Points, NEW ef, NEW l \in Nat, NEW A, ClosedAt(ns, l, A),
         NEW entry \in A
  PROVE  Explored(ns, v, entry, ef, l) \in (SUBSET A) \ {{}}
<1> DEFINE N == Len(ns)
           x == Run(ns, v, entry, ef, l)[N]
<1>1. N \in 0 .. N
  BY LiveNodes
<1>2. x \in States(A) /\ Explored(ns, v, entry, ef, l) = x.results
  <2>1. \A i \in 0 .. N : Run(ns, v, entry, ef, l)[i] \in States(A)
    BY RunIs DEF RoundByRound
  <2>2. Explored(ns, v, entry, ef, l) = x.results
    BY ExploredRun
  <2> QED
    BY <1>1, <2>1, <2>2
<1> HIDE DEF x
<1> QED
  BY <1>2 DEF States

(* What a search of a layer returns, and that it returns something from a node that lives. *)
LEMMA SearchLayerIs ==
  ASSUME NEW ns \in Seq(Nodes), NEW v \in Points, NEW ef \in Nat \ {0}, NEW l \in Nat, NEW A,
         ClosedAt(ns, l, A), NEW entry, entry \in Live(ns) => entry \in A
  PROVE  LET t == SearchLayer(ns, v, entry, ef, l) IN
         /\ t \in Seq(A) /\ Distinct(t)
         /\ entry \in Live(ns) => t # << >>
<1>1. CASE entry \notin Live(ns)
  <2>1. SearchLayer(ns, v, entry, ef, l) = << >>
    BY <1>1 DEF SearchLayer
  <2>2. << >> \in Seq(A) /\ Distinct(<< >>)
    BY DEF Distinct
  <2> QED
    BY <1>1, <2>1, <2>2
<1>2. CASE entry \in Live(ns)
  <2> DEFINE R == Explored(ns, v, entry, ef, l)
  <2>1. R \in (SUBSET A) \ {{}} /\ A \in SUBSET Live(ns)
    BY <1>2, ExploredIs DEF ClosedAt
  <2>2. SearchLayer(ns, v, entry, ef, l) = Nearest(ns, v, R, ef)
    BY <1>2 DEF SearchLayer
  <2> DEFINE t == Nearest(ns, v, R, ef)
  <2> HIDE DEF R
  <2>3. t \in Seq(R) /\ Distinct(t) /\ t # << >>
    BY <2>1, NearestIs
  <2> HIDE DEF t
  <2>4. t \in Seq(A)
    BY <2>1, <2>3, SeqMonotonic
  <2> QED
    BY <2>2, <2>3, <2>4 DEF t
<1> QED
  BY <1>1, <1>2

-----------------------------------------------------------------------------
(* Hnsw: the way down. *)

LEMMA DownwardsIs ==
  ASSUME NEW high \in Nat, NEW low \in Nat
  PROVE  LET w == Downwards(high, low) IN
         /\ w \in Seq(Nat) /\ Len(w) \in Nat
         /\ \A i \in 1 .. Len(w) : w[i] = high - i + 1 /\ w[i] \in low .. high
         /\ high >= low => Len(w) = high - low + 1
<1>1. CASE high < low
  <2>1. Downwards(high, low) = << >>
    BY <1>1 DEF Downwards
  <2>2. << >> \in Seq(Nat) /\ Len(<< >>) = 0
    OBVIOUS
  <2> QED
    BY <1>1, <2>1, <2>2
<1>2. CASE ~(high < low)
  <2> DEFINE n == high - low + 1
             w == [i \in 1 .. n |-> high - i + 1]
  <2>1. n \in Nat /\ \A i \in 1 .. n : high - i + 1 \in low .. high /\ high - i + 1 \in Nat
    BY <1>2
  <2>2. w \in [1 .. n -> Nat]
    BY <2>1
  <2>3. w \in Seq(Nat) /\ Len(w) = n
    BY <2>1, <2>2
  <2>4. Downwards(high, low) = w
    BY <1>2 DEF Downwards
  <2>5. \A i \in 1 .. n : w[i] = high - i + 1
    OBVIOUS
  <2> HIDE DEF w, n
  <2> QED
    BY <2>1, <2>3, <2>4, <2>5 DEF n
<1> QED
  BY <1>1, <1>2

LEMMA LowerIs ==
  ASSUME NEW ns \in Seq(Nodes), NEW v \in Points, NEW l \in Nat, NEW A, ClosedAt(ns, l, A), NEW ep \in A
  PROVE  Lower(ns, v, ep, l) \in A
<1> DEFINE t == SearchLayer(ns, v, ep, 1, l)
<1>1. t \in Seq(A) /\ t # << >>
  <2>1. ep \in Live(ns) /\ 1 \in Nat \ {0}
    BY DEF ClosedAt
  <2> QED
    BY <2>1, SearchLayerIs
<1>2. Lower(ns, v, ep, l) = IF t = << >> THEN ep ELSE t[1]
  BY DEF Lower
<1> HIDE DEF t
<1> QED
  BY <1>1, <1>2

Down(ns, entry, v, way) ==
  CHOOSE f : f = [i \in 0 .. Len(way) |-> IF i = 0 THEN entry ELSE Lower(ns, v, f[i - 1], way[i])]

LEMMA DownIs ==
  ASSUME NEW ns \in Seq(Nodes), NEW v \in Points, NEW A, \A l \in Nat : ClosedAt(ns, l, A),
         NEW entry \in A, NEW way \in Seq(Nat)
  PROVE  Down(ns, entry, v, way)[Len(way)] \in A
<1> DEFINE N == Len(way)
           D == A
           Op(x, i) == Lower(ns, v, x, way[i])
           F(f) == [i \in 0 .. N |-> IF i = 0 THEN entry ELSE Op(f[i - 1], i)]
           g == [i \in 1 .. N |-> [x \in D |-> Op(x, i)]]
           h == Down(ns, entry, v, way)
<1>1. N \in Nat /\ entry \in D
  OBVIOUS
<1>2. \A i \in 1 .. N, x \in D : Op(x, i) \in D
  <2> SUFFICES ASSUME NEW i \in 1 .. N, NEW x \in D PROVE Op(x, i) \in D
    OBVIOUS
  <2>1. way[i] \in Nat
    OBVIOUS
  <2> QED
    BY <2>1, LowerIs
<1>3. \A f : f = F(f) => h = F(h)
  BY DEF Down
<1> HIDE DEF N, D, Op, h
<1>4. g \in [1 .. N -> [D -> D]] /\ \A i \in 1 .. N, x \in D : g[i][x] = Op(x, i)
  BY <1>2
<1> HIDE DEF g
<1>5. Follows(D, N, entry, g, h) /\ \A i \in 0 .. N : h[i] \in D
  <2>1. ASSUME NEW f \in [0 .. N -> D], Follows(D, N, entry, g, f) PROVE Follows(D, N, entry, g, h)
    <3>1. \A i \in 1 .. N : f[i] = Op(f[i - 1], i)
      BY <1>1, <1>4, <2>1 DEF Follows
    <3>2. f = F(f)
      BY <1>1, <2>1, <3>1 DEF Follows
    <3>3. h = F(h)
      BY <1>3, <3>2
    <3>4. h[0] = entry /\ \A i \in 1 .. N : h[i] = Op(h[i - 1], i)
      BY <1>1, <3>3
    <3> QED
      BY <1>4, <3>4 DEF Follows
  <2> QED
    BY <1>1, <1>4, <2>1, LoopIs
<1>6. h[N] \in D
  BY <1>1, <1>5
<1> QED
  BY <1>6 DEF N, D, h

(* Nor does the way down from layer to layer leave it. *)
LEMMA DescendIs ==
  ASSUME NEW ns \in Seq(Nodes), NEW v \in Points, NEW A, \A l \in Nat : ClosedAt(ns, l, A),
         NEW entry \in A, NEW top \in Nat, NEW low \in Nat
  PROVE  Descend(ns, entry, top, v, low) \in A
<1> DEFINE way == Downwards(top, low + 1)
<1>1. way \in Seq(Nat)
  <2>1. low + 1 \in Nat
    OBVIOUS
  <2> QED
    BY <2>1, DownwardsIs
<1>2. Descend(ns, entry, top, v, low) = Down(ns, entry, v, way)[Len(way)]
  BY DEF Descend, Down
<1> HIDE DEF way
<1> QED
  BY <1>1, <1>2, DownIs

-----------------------------------------------------------------------------
(* Hnsw: links back.  Linking leaves every node its id, its vector and its layers. *)

Same(ns, ms) ==
  /\ ms \in Seq(Nodes) /\ Len(ms) = Len(ns)
  /\ \A i \in DOMAIN ns : /\ ms[i].id = ns[i].id /\ ms[i].vector = ns[i].vector
                          /\ Len(ms[i].layers) = Len(ns[i].layers)

(* The links of layer k - 1 of the node i. *)
Row(ns, i, k) == ns[i].layers[k]

LEMMA RowIs ==
  ASSUME NEW ns \in Seq(Nodes), NEW i \in DOMAIN ns
  PROVE  /\ Len(ns[i].layers) \in Nat /\ DOMAIN ns[i].layers = 1 .. Len(ns[i].layers)
         /\ \A k \in 1 .. Len(ns[i].layers) : Row(ns, i, k) \in Seq(Nat \ {0})
<1>1. ns[i].layers \in Seq(Seq(Nat \ {0}))
  BY LiveNodes
<1> DEFINE x == ns[i].layers
           P == Seq(Nat \ {0})
<1>2. x \in Seq(P)
  BY <1>1
<1>3. \A k : Row(ns, i, k) = x[k]
  BY DEF Row
<1> HIDE DEF x, P
<1>4. Len(x) \in Nat /\ DOMAIN x = 1 .. Len(x) /\ \A k \in 1 .. Len(x) : x[k] \in P
  BY <1>2
<1> QED
  BY <1>3, <1>4 DEF x, P

LEMMA SameAsItself ==
  ASSUME NEW ns \in Seq(Nodes)
  PROVE  Same(ns, ns)
BY DEF Same

LEMMA SameTwice ==
  ASSUME NEW ns \in Seq(Nodes), NEW ms, NEW os, Same(ns, ms), Same(ms, os)
  PROVE  Same(ns, os)
<1>1. DOMAIN ms = DOMAIN ns
  BY LiveNodes DEF Same
<1> QED
  BY <1>1 DEF Same

LEMMA SameLive ==
  ASSUME NEW ns \in Seq(Nodes), NEW ms, Same(ns, ms)
  PROVE  ms \in Seq(Nodes) /\ DOMAIN ms = DOMAIN ns /\ Live(ms) = Live(ns)
<1>1. ms \in Seq(Nodes) /\ DOMAIN ms = DOMAIN ns
  BY LiveNodes DEF Same
<1> QED
  BY <1>1 DEF Same, Live

LEMMA WithLinksIs ==
  ASSUME NEW ns \in Seq(Nodes), NEW ix \in DOMAIN ns, NEW l \in Nat, l < Len(ns[ix].layers),
         NEW links \in Seq(Nat \ {0})
  PROVE  LET ms == WithLinks(ns, ix, l, links) IN
         /\ Same(ns, ms)
         /\ Row(ms, ix, l + 1) = links
         /\ \A i \in DOMAIN ns : \A k : ~(i = ix /\ k = l + 1) => Row(ms, i, k) = Row(ns, i, k)
<1> DEFINE x == ns[ix].layers
           y == [x EXCEPT ![l + 1] = links]
           n == [ns[ix] EXCEPT !.layers = y]
           ms == [ns EXCEPT ![ix] = n]
           P == Seq(Nat \ {0})
<1>1. x \in Seq(P) /\ links \in P /\ l < Len(x)
  BY LiveNodes
<1>2. ns[ix] \in Nodes /\ ns[ix].layers = x
  OBVIOUS
<1> HIDE DEF x, P
<1>3. /\ y \in Seq(P) /\ Len(y) = Len(x) /\ y[l + 1] = links /\ \A k : k # l + 1 => y[k] = x[k]
  <2>1. l + 1 \in 1 .. Len(x)
    BY <1>1
  <2>2. y \in Seq(P) /\ Len(y) = Len(x) /\ y[l + 1] = links
    BY <1>1, <2>1
  <2>3. ASSUME NEW k, k # l + 1 PROVE y[k] = x[k]
    BY <2>3, Z3
  <2> QED
    BY <2>2, <2>3
<1> HIDE DEF y
<1>4. n \in Nodes /\ n.id = ns[ix].id /\ n.vector = ns[ix].vector /\ n.layers = y
  BY <1>2, <1>3 DEF Nodes, P
<1> HIDE DEF n
<1>5. WithLinks(ns, ix, l, links) = ms
  BY DEF WithLinks, n, y, x
<1>6. /\ ms \in Seq(Nodes) /\ Len(ms) = Len(ns) /\ ms[ix] = n
      /\ \A i \in DOMAIN ns : i # ix => ms[i] = ns[i]
  BY <1>4
<1> HIDE DEF ms
<1>7. Same(ns, ms)
  BY <1>2, <1>3, <1>4, <1>6 DEF Same
<1>8. Row(ms, ix, l + 1) = links
  BY <1>3, <1>4, <1>6 DEF Row
<1>9. ASSUME NEW i \in DOMAIN ns, NEW k, ~(i = ix /\ k = l + 1) PROVE Row(ms, i, k) = Row(ns, i, k)
  BY <1>2, <1>3, <1>4, <1>6, <1>9 DEF Row
<1> QED
  BY <1>5, <1>7, <1>8, <1>9

LEMMA PruneIs ==
  ASSUME NEW ns \in Seq(Nodes), NEW ix \in Live(ns), NEW links
  PROVE  LET t == PruneConnections(ns, ix, links) IN
         /\ t \in Seq(Nat \ {0}) /\ ToSet(t) \subseteq ToSet(links) /\ Distinct(t) /\ Len(t) <= M
<1> DEFINE S == ToSet(links) \cap Live(ns)
           t == PruneConnections(ns, ix, links)
           v == ns[ix].vector
           P == Nat \ {0}
<1>1. v \in Points /\ S \in SUBSET Live(ns) /\ M \in Nat
  BY LiveNodes, HnswAssumption
<1>2. S \subseteq P /\ S \subseteq ToSet(links)
  BY LiveNodes
<1>3. t = Nearest(ns, v, S, M)
  BY DEF PruneConnections
<1> HIDE DEF S, t, v, P
<1>4. t \in Seq(S) /\ Distinct(t) /\ Len(t) <= M
  BY <1>1, <1>3, NearestIs
<1>5. t \in Seq(P)
  BY <1>2, <1>4, SeqMonotonic
<1>6. ToSet(t) \subseteq S
  BY <1>4 DEF ToSet
<1> QED
  BY <1>2, <1>4, <1>5, <1>6 DEF t, P

(* A sequence has as many elements as it is long when none comes twice. *)
LEMMA LengthOfDistinct ==
  ASSUME NEW S, NEW s \in Seq(S)
  PROVE  /\ IsFiniteSet(ToSet(s)) /\ Cardinality(ToSet(s)) <= Len(s)
         /\ Distinct(s) => Cardinality(ToSet(s)) = Len(s)
<1> DEFINE n == Len(s)
           T == ToSet(s)
           A == 1 .. n
<1>1. n \in Nat /\ DOMAIN s = A /\ s \in [A -> T]
  BY DEF ToSet
<1>2. \A e \in T : \E i \in A : s[i] = e
  BY <1>1 DEF ToSet
<1> HIDE DEF n, T
<1>3. IsFiniteSet(A) /\ Cardinality(A) = n
  BY <1>1, FS_Interval
<1>4. s \in Surjection(A, T)
  BY <1>1, <1>2 DEF Surjection
<1> HIDE DEF A
<1>5. IsFiniteSet(T) /\ Cardinality(T) <= Cardinality(A)
  BY <1>3, <1>4, FS_Surjection
<1>6. Distinct(s) => Cardinality(T) = Cardinality(A)
  <2>1. Distinct(s) => s \in Injection(A, T)
    BY <1>1 DEF Distinct, Injection, IsInjective
  <2> QED
    BY <1>3, <1>4, <2>1, FS_Surjection
<1> QED
  BY <1>3, <1>5, <1>6 DEF n, T

(* What a link back to ix makes of a list: it has no more than what it had and ix, and
   it has ix, or it lost a link. *)
LinkedBack(ix, old, new) ==
  /\ ToSet(new) \subseteq ToSet(old) \cup {ix}
  /\ Distinct(old) /\ ix \notin ToSet(old) => Distinct(new)
  /\ Distinct(old) => ix \in ToSet(new) \/ ~(ToSet(old) \subseteq ToSet(new))

LEMMA PrunedLoses ==
  ASSUME NEW P, NEW old \in Seq(P), NEW new \in Seq(P), Len(new) <= M, Len(old) + 1 > 2 * M, Distinct(old)
  PROVE  ~(ToSet(old) \subseteq ToSet(new))
<1> SUFFICES ASSUME ToSet(old) \subseteq ToSet(new) PROVE FALSE
  OBVIOUS
<1>1. M \in Nat \ {0}
  BY HnswAssumption
<1> DEFINE a == Cardinality(ToSet(old))
           b == Cardinality(ToSet(new))
           m == Len(old)
           n == Len(new)
<1>2. a = m /\ b <= n /\ IsFiniteSet(ToSet(new))
  BY LengthOfDistinct
<1>3. a <= b /\ a \in Nat /\ b \in Nat /\ m \in Nat /\ n \in Nat
  BY <1>2, FS_Subset, FS_CardinalityType
<1>4. n <= M /\ m + 1 > 2 * M
  OBVIOUS
<1> HIDE DEF a, b, m, n
<1> QED
  BY <1>1, <1>2, <1>3, <1>4

(* One link back changes one row of one node, if the node has that layer. *)
LEMMA LinkBackIs ==
  ASSUME NEW ns \in Seq(Nodes), NEW ix \in DOMAIN ns, NEW jx \in Live(ns), NEW l \in Nat
  PROVE  LET ms == LinkBack(ns, ix, jx, l) IN
         /\ Same(ns, ms)
         /\ l >= Len(ns[jx].layers) => ms = ns
         /\ l < Len(ns[jx].layers) => LinkedBack(ix, Row(ns, jx, l + 1), Row(ms, jx, l + 1))
         /\ \A i \in DOMAIN ns : \A k : ~(i = jx /\ k = l + 1) => Row(ms, i, k) = Row(ns, i, k)
<1> DEFINE P == Nat \ {0}
           ms == LinkBack(ns, ix, jx, l)
<1>0. jx \in DOMAIN ns /\ ix \in P
  BY LiveNodes
<1>1. CASE l >= Len(ns[jx].layers)
  <2>1. ms = ns
    BY <1>1 DEF LinkBack
  <2>2. ~(l < Len(ns[jx].layers))
    BY <1>1, RowIs, <1>0
  <2> QED
    BY <2>1, <2>2, SameAsItself
<1>2. CASE ~(l >= Len(ns[jx].layers))
  <2> DEFINE old == Row(ns, jx, l + 1)
             links == Append(old, ix)
             new == IF Len(links) > 2 * M THEN PruneConnections(ns, jx, links) ELSE links
  <2>1. l < Len(ns[jx].layers)
    BY <1>0, <1>2, RowIs
  <2>2. l + 1 \in 1 .. Len(ns[jx].layers)
    BY <1>0, <2>1, RowIs
  <2>3. old \in Seq(P)
    BY <1>0, <2>2, RowIs
  <2>4. ms = WithLinks(ns, jx, l, new)
    BY <1>2 DEF LinkBack, Row
  <2> HIDE DEF old, ms
  <2>5. links \in Seq(P) /\ Len(links) = Len(old) + 1
    BY <1>0, <2>3
  <2>6. ToSet(links) = ToSet(old) \cup {ix} /\ (Distinct(old) /\ ix \notin ToSet(old) => Distinct(links))
    BY <1>0, <2>3, AppendedSet
  <2> HIDE DEF links
  <2>7. ASSUME Len(links) > 2 * M PROVE new \in Seq(P) /\ LinkedBack(ix, old, new)
    <3> DEFINE t == PruneConnections(ns, jx, links)
    <3>1. t \in Seq(P) /\ ToSet(t) \subseteq ToSet(links) /\ Distinct(t) /\ Len(t) <= M
      BY PruneIs
    <3>2. new = t
      BY <2>7
    <3> HIDE DEF t, P
    <3>3. Distinct(old) => ~(ToSet(old) \subseteq ToSet(t))
      BY <2>3, <2>5, <2>7, <3>1, PrunedLoses
    <3> HIDE DEF new
    <3> QED
      BY <2>6, <3>1, <3>2, <3>3 DEF LinkedBack
  <2>8. ASSUME ~(Len(links) > 2 * M) PROVE new \in Seq(P) /\ LinkedBack(ix, old, new)
    <3>1. new = links
      BY <2>8
    <3> QED
      BY <2>5, <2>6, <3>1 DEF LinkedBack
  <2>9. new \in Seq(P) /\ LinkedBack(ix, old, new)
    <3> HIDE DEF new
    <3> QED
      BY <2>7, <2>8
  <2> HIDE DEF new
  <2>10. /\ Same(ns, ms) /\ Row(ms, jx, l + 1) = new
         /\ \A i \in DOMAIN ns : \A k : ~(i = jx /\ k = l + 1) => Row(ms, i, k) = Row(ns, i, k)
    BY <1>0, <2>1, <2>4, <2>9, WithLinksIs
  <2> QED
    BY <1>2, <2>9, <2>10 DEF old, ms
<1> QED
  BY <1>1, <1>2

(* The new node ix has the links nb on layer l, and n of these neighbours linked back. *)
LinkedSoFar(ns, ms, ix, nb, l, n) ==
  /\ Same(ns, ms)
  /\ \A i \in DOMAIN ns : \A k : k # l + 1 => Row(ms, i, k) = Row(ns, i, k)
  /\ Row(ms, ix, l + 1) = nb
  /\ \A i \in DOMAIN ns : i # ix /\ (\A m \in 1 .. n : nb[m] # i) => Row(ms, i, l + 1) = Row(ns, i, l + 1)
  /\ \A m \in 1 .. n : l < Len(ns[nb[m]].layers) =>
       LinkedBack(ix, Row(ns, nb[m], l + 1), Row(ms, nb[m], l + 1))

Linking(ns, ix, nb, l) ==
  CHOOSE f : f = [i \in 0 .. Len(nb) |->
                    IF i = 0 THEN WithLinks(ns, ix, l, nb) ELSE LinkBack(f[i - 1], ix, nb[i], l)]

LEMMA LinkStarts ==
  ASSUME NEW ns \in Seq(Nodes), NEW ix \in DOMAIN ns, NEW l \in Nat, l < Len(ns[ix].layers),
         NEW nb \in Seq(Nat \ {0})
  PROVE  LinkedSoFar(ns, WithLinks(ns, ix, l, nb), ix, nb, l, 0)
<1> DEFINE ms == WithLinks(ns, ix, l, nb)
<1>1. /\ Same(ns, ms) /\ Row(ms, ix, l + 1) = nb
      /\ \A i \in DOMAIN ns : \A k : ~(i = ix /\ k = l + 1) => Row(ms, i, k) = Row(ns, i, k)
  BY WithLinksIs
<1> HIDE DEF ms
<1>2. LinkedSoFar(ns, ms, ix, nb, l, 0)
  BY <1>1 DEF LinkedSoFar
<1> QED
  BY <1>2 DEF ms

LEMMA LinkGoesOn ==
  ASSUME NEW ns \in Seq(Nodes), NEW ix \in DOMAIN ns, NEW l \in Nat,
         NEW nb \in Seq(Live(ns)), Distinct(nb), ix \notin ToSet(nb),
         NEW n \in 1 .. Len(nb), NEW ms, LinkedSoFar(ns, ms, ix, nb, l, n - 1)
  PROVE  LinkedSoFar(ns, LinkBack(ms, ix, nb[n], l), ix, nb, l, n)
<1> DEFINE jx == nb[n]
           os == LinkBack(ms, ix, jx, l)
<1>1. jx \in Live(ns) /\ jx \in DOMAIN ns /\ jx # ix
  BY LiveNodes DEF ToSet
<1>2. n - 1 \in Nat /\ \A m \in 1 .. n : m = n \/ m \in 1 .. n - 1
  OBVIOUS
<1>3. \A m \in 1 .. n - 1 : nb[m] # jx
  <2> SUFFICES ASSUME NEW m \in 1 .. n - 1 PROVE nb[m] # jx
    OBVIOUS
  <2>1. m \in DOMAIN nb /\ n \in DOMAIN nb /\ m # n
    OBVIOUS
  <2> QED
    BY <2>1 DEF Distinct
<1> HIDE DEF jx
<1>4. Same(ns, ms) /\ ms \in Seq(Nodes) /\ DOMAIN ms = DOMAIN ns /\ Live(ms) = Live(ns)
  BY SameLive DEF LinkedSoFar
<1>5. /\ Same(ms, os)
      /\ l < Len(ms[jx].layers) => LinkedBack(ix, Row(ms, jx, l + 1), Row(os, jx, l + 1))
      /\ \A i \in DOMAIN ms : \A k : ~(i = jx /\ k = l + 1) => Row(os, i, k) = Row(ms, i, k)
  BY <1>1, <1>4, LinkBackIs
<1> HIDE DEF os
<1>6. Same(ns, os)
  BY <1>4, <1>5, SameTwice
<1>7. \A i \in DOMAIN ns : \A k : k # l + 1 => Row(os, i, k) = Row(ns, i, k)
  BY <1>4, <1>5 DEF LinkedSoFar
<1>8. Row(os, ix, l + 1) = nb
  BY <1>1, <1>4, <1>5 DEF LinkedSoFar
<1>9. ASSUME NEW i \in DOMAIN ns, i # ix, \A m \in 1 .. n : nb[m] # i
      PROVE  Row(os, i, l + 1) = Row(ns, i, l + 1)
  <2>1. i # jx
    BY <1>9 DEF jx
  <2>2. \A m \in 1 .. n - 1 : nb[m] # i
    BY <1>9
  <2> QED
    BY <1>4, <1>5, <1>9, <2>1, <2>2 DEF LinkedSoFar
<1>10. Row(ms, jx, l + 1) = Row(ns, jx, l + 1) /\ Len(ms[jx].layers) = Len(ns[jx].layers)
  BY <1>1, <1>3 DEF LinkedSoFar, Same
<1>11. ASSUME NEW m \in 1 .. n, l < Len(ns[nb[m]].layers)
       PROVE  LinkedBack(ix, Row(ns, nb[m], l + 1), Row(os, nb[m], l + 1))
  <2>1. CASE m = n
    <3>1. nb[m] = jx
      BY <2>1 DEF jx
    <3> QED
      BY <1>5, <1>10, <1>11, <3>1
  <2>2. CASE m \in 1 .. n - 1
    <3>1. nb[m] \in DOMAIN ns /\ nb[m] # jx
      BY <1>3, <2>2, LiveNodes
    <3>2. Row(os, nb[m], l + 1) = Row(ms, nb[m], l + 1)
      BY <1>4, <1>5, <3>1
    <3> QED
      BY <1>11, <2>2, <3>2 DEF LinkedSoFar
  <2> QED
    BY <1>2, <2>1, <2>2
<1>12. LinkedSoFar(ns, os, ix, nb, l, n)
  BY <1>6, <1>7, <1>8, <1>9, <1>11 DEF LinkedSoFar
<1> QED
  BY <1>12 DEF os, jx

LEMMA LinkAllSteps ==
  ASSUME NEW ns \in Seq(Nodes), NEW ix \in DOMAIN ns, NEW l \in Nat, l < Len(ns[ix].layers),
         NEW nb \in Seq(Live(ns))
  PROVE  LET f == Linking(ns, ix, nb, l) IN
         /\ f[0] = WithLinks(ns, ix, l, nb)
         /\ \A i \in 1 .. Len(nb) : f[i] = LinkBack(f[i - 1], ix, nb[i], l)
         /\ \A i \in 0 .. Len(nb) : Same(ns, f[i])
<1> DEFINE N == Len(nb)
           D == {ms \in Seq(Nodes) : Same(ns, ms)}
           b == WithLinks(ns, ix, l, nb)
           Op(x, i) == LinkBack(x, ix, nb[i], l)
           F(f) == [i \in 0 .. N |-> IF i = 0 THEN b ELSE Op(f[i - 1], i)]
           g == [i \in 1 .. N |-> [x \in D |-> Op(x, i)]]
           h == Linking(ns, ix, nb, l)
           P == Nat \ {0}
<1>1. N \in Nat /\ b \in D
  <2>1. Live(ns) \subseteq P
    BY LiveNodes
  <2> HIDE DEF P
  <2>2. nb \in Seq(P)
    BY <2>1, SeqMonotonic
  <2>3. Same(ns, b)
    BY <2>2, WithLinksIs DEF P
  <2> HIDE DEF b
  <2> QED
    BY <2>3 DEF Same
<1>2. \A i \in 1 .. N, x \in D : Op(x, i) \in D
  <2> SUFFICES ASSUME NEW i \in 1 .. N, NEW x \in D PROVE Op(x, i) \in D
    OBVIOUS
  <2>1. nb[i] \in Live(ns)
    OBVIOUS
  <2>2. x \in Seq(Nodes) /\ DOMAIN x = DOMAIN ns /\ Live(x) = Live(ns) /\ Same(ns, x)
    BY SameLive
  <2>3. Same(x, Op(x, i))
    BY <2>1, <2>2, LinkBackIs
  <2> HIDE DEF Op
  <2>4. Same(ns, Op(x, i))
    BY <2>2, <2>3, SameTwice
  <2> QED
    BY <2>4 DEF Same
<1>3. \A f : f = F(f) => h = F(h)
  BY DEF Linking
<1>4. \A x \in D : Same(ns, x)
  OBVIOUS
<1> HIDE DEF N, D, Op, h, b
<1>5. g \in [1 .. N -> [D -> D]] /\ \A i \in 1 .. N, x \in D : g[i][x] = Op(x, i)
  BY <1>2
<1> HIDE DEF g
<1>6. Follows(D, N, b, g, h) /\ \A i \in 0 .. N : h[i] \in D
  <2>1. ASSUME NEW f \in [0 .. N -> D], Follows(D, N, b, g, f) PROVE Follows(D, N, b, g, h)
    <3>1. \A i \in 1 .. N : f[i] = Op(f[i - 1], i)
      BY <1>1, <1>5, <2>1 DEF Follows
    <3>2. f = F(f)
      BY <1>1, <2>1, <3>1 DEF Follows
    <3>3. h = F(h)
      BY <1>3, <3>2
    <3>4. h[0] = b /\ \A i \in 1 .. N : h[i] = Op(h[i - 1], i)
      BY <1>1, <3>3
    <3> QED
      BY <1>5, <3>4 DEF Follows
  <2> QED
    BY <1>1, <1>5, <2>1, LoopIs
<1>7. h[0] = b /\ \A i \in 1 .. N : h[i] = Op(h[i - 1], i)
  BY <1>1, <1>5, <1>6 DEF Follows
<1> QED
  BY <1>4, <1>6, <1>7 DEF N, Op, h, b

LEMMA LinkAllRun ==
  ASSUME NEW ns, NEW ix, NEW nb, NEW l
  PROVE  LinkAll(ns, ix, nb, l) = Linking(ns, ix, nb, l)[Len(nb)]
BY DEF LinkAll, Linking

LEMMA LinkAllSame ==
  ASSUME NEW ns \in Seq(Nodes), NEW ix \in DOMAIN ns, NEW l \in Nat, l < Len(ns[ix].layers),
         NEW nb \in Seq(Live(ns))
  PROVE  Same(ns, LinkAll(ns, ix, nb, l))
<1>1. Len(nb) \in 0 .. Len(nb)
  OBVIOUS
<1>2. \A i \in 0 .. Len(nb) : Same(ns, Linking(ns, ix, nb, l)[i])
  BY LinkAllSteps
<1> QED
  BY <1>1, <1>2, LinkAllRun

LEMMA LinkAllIs ==
  ASSUME NEW ns \in Seq(Nodes), NEW ix \in DOMAIN ns, NEW l \in Nat, l < Len(ns[ix].layers),
         NEW nb \in Seq(Live(ns)), Distinct(nb), ix \notin ToSet(nb)
  PROVE  LinkedSoFar(ns, LinkAll(ns, ix, nb, l), ix, nb, l, Len(nb))
<1> DEFINE N == Len(nb)
           h == Linking(ns, ix, nb, l)
           E == [i \in 0 .. N |-> {ms \in Seq(Nodes) : LinkedSoFar(ns, ms, ix, nb, l, i)}]
<1>1. N \in Nat
  OBVIOUS
<1>2. h[0] = WithLinks(ns, ix, l, nb) /\ \A i \in 1 .. N : h[i] = LinkBack(h[i - 1], ix, nb[i], l)
  BY LinkAllSteps
<1>3. \A ms, i : LinkedSoFar(ns, ms, ix, nb, l, i) => ms \in Seq(Nodes)
  BY DEF LinkedSoFar, Same
<1>4. LinkedSoFar(ns, h[0], ix, nb, l, 0)
  <2> DEFINE P == Nat \ {0}
  <2>1. Live(ns) \subseteq P
    BY LiveNodes
  <2> HIDE DEF P
  <2>2. nb \in Seq(P)
    BY <2>1, SeqMonotonic
  <2> QED
    BY <1>2, <2>2, LinkStarts DEF P
<1>5. ASSUME NEW i \in 1 .. N, LinkedSoFar(ns, h[i - 1], ix, nb, l, i - 1) PROVE LinkedSoFar(ns, h[i], ix, nb, l, i)
  BY <1>2, <1>5, LinkGoesOn
<1> HIDE DEF h, N
<1>6. h[0] \in E[0] /\ \A i \in 1 .. N : h[i - 1] \in E[i - 1] => h[i] \in E[i]
  <2>1. 0 \in 0 .. N /\ \A i \in 1 .. N : i - 1 \in 0 .. N /\ i \in 0 .. N
    BY <1>1
  <2> QED
    BY <1>3, <1>4, <1>5, <2>1
<1> HIDE DEF E
<1>7. \A i \in 0 .. N : h[i] \in E[i]
  BY <1>1, <1>6, LoopStays
<1>8. LinkedSoFar(ns, h[N], ix, nb, l, N)
  BY <1>1, <1>7 DEF E
<1> QED
  BY <1>8, LinkAllRun DEF h, N

-----------------------------------------------------------------------------
(* Hnsw: a new node on its layers. *)

LinksFit(ns) ==
  \A i \in DOMAIN ns : \A k \in 1 .. Len(ns[i].layers) :
    ToSet(Row(ns, i, k)) \subseteq DOMAIN ns /\ Distinct(Row(ns, i, k))

(* No node has a link to ix on layer l. *)
Fresh(ns, ix, l) ==
  \A i \in DOMAIN ns : l < Len(ns[i].layers) => ix \notin ToSet(Row(ns, i, l + 1))

LEMMA FreshIsClosed ==
  ASSUME NEW ns \in Seq(Nodes), NEW ix, NEW l \in Nat, Fresh(ns, ix, l)
  PROVE  ClosedAt(ns, l, Live(ns) \ {ix})
<1> SUFFICES ASSUME NEW i \in Live(ns) PROVE ix \notin ToSet(LinksAt(ns, i, l))
  BY DEF ClosedAt
<1>1. i \in DOMAIN ns
  BY LiveNodes
<1>2. CASE l < Len(ns[i].layers)
  BY <1>1, <1>2 DEF LinksAt, Row, Fresh
<1>3. CASE ~(l < Len(ns[i].layers))
  <2>1. LinksAt(ns, i, l) = << >>
    BY <1>3 DEF LinksAt
  <2>2. ToSet(<< >>) = {}
    BY DEF ToSet
  <2> QED
    BY <2>1, <2>2
<1> QED
  BY <1>2, <1>3

(* On a layer the new node is linked to some nodes of any closed set that the search is in. *)
LEMMA LinkLayerIs ==
  ASSUME NEW s, s.ns \in Seq(Nodes), NEW l \in Nat, NEW A, ClosedAt(s.ns, l, A), s.ep \in A,
         NEW ix \in Live(s.ns)
  PROVE  \E nb \in Seq(A), e \in A :
           /\ nb # << >> /\ Distinct(nb)
           /\ LinkLayer(s, ix, l) = [ns |-> LinkAll(s.ns, ix, nb, l), ep |-> e]
<1> DEFINE found == SearchLayer(s.ns, s.ns[ix].vector, s.ep, EfConstruction, l)
           m == Min({M, Len(found)})
           nb == SubSeq(found, 1, m)
           e == IF found = << >> THEN s.ep ELSE found[1]
<1>1. s.ns[ix].vector \in Points /\ EfConstruction \in Nat \ {0} /\ s.ep \in Live(s.ns) /\ M \in Nat \ {0}
  BY LiveNodes, HnswAssumption DEF ClosedAt
<1>2. found \in Seq(A) /\ Distinct(found) /\ found # << >>
  BY <1>1, SearchLayerIs
<1>3. LinkLayer(s, ix, l) = [ns |-> LinkAll(s.ns, ix, nb, l), ep |-> e]
  BY DEF LinkLayer
<1>4. e = found[1]
  BY <1>2
<1> HIDE DEF found, e
<1>5. found[1] \in A /\ Len(found) \in Nat \ {0}
  BY <1>2
<1>6. m \in 1 .. Len(found)
  BY <1>1, <1>5, SmallerOfTwo
<1> HIDE DEF m
<1>7. m \in 0 .. Len(found)
  BY <1>5, <1>6
<1>8. nb \in Seq(A) /\ Len(nb) = m /\ Distinct(nb)
  BY <1>2, <1>7, FirstPart
<1> HIDE DEF nb
<1>9. nb # << >>
  BY <1>6, <1>8
<1> QED
  BY <1>3, <1>4, <1>5, <1>8, <1>9

(* After the layers down to way[i]. *)
Layering(s, ix, way) ==
  CHOOSE f : f = [i \in 0 .. Len(way) |-> IF i = 0 THEN s ELSE LinkLayer(f[i - 1], ix, way[i])]

Steps(ns) == [ns : {ms \in Seq(Nodes) : Same(ns, ms)}, ep : Live(ns)]

LEMMA LinkLayerStays ==
  ASSUME NEW ns \in Seq(Nodes), NEW ix \in Live(ns), NEW l \in Nat, l < Len(ns[ix].layers), NEW s \in Steps(ns)
  PROVE  LinkLayer(s, ix, l) \in Steps(ns)
<1>1. s.ns \in Seq(Nodes) /\ Same(ns, s.ns) /\ s.ep \in Live(ns) /\ ix \in DOMAIN ns
  BY LiveNodes DEF Steps
<1>2. DOMAIN s.ns = DOMAIN ns /\ Live(s.ns) = Live(ns) /\ Len(s.ns[ix].layers) = Len(ns[ix].layers)
  BY <1>1, SameLive DEF Same
<1>3. PICK nb \in Seq(Live(ns)), e \in Live(ns) :
        LinkLayer(s, ix, l) = [ns |-> LinkAll(s.ns, ix, nb, l), ep |-> e]
  <2>1. ClosedAt(s.ns, l, Live(ns))
    BY <1>2, AllAreClosed
  <2> QED
    BY <1>1, <1>2, <2>1, LinkLayerIs
<1>4. Same(s.ns, LinkAll(s.ns, ix, nb, l))
  BY <1>1, <1>2, LinkAllSame
<1>5. Same(ns, LinkAll(s.ns, ix, nb, l))
  BY <1>1, <1>4, SameTwice
<1> QED
  BY <1>3, <1>5 DEF Steps, Same

LayerByLayer(ns, s, ix, way, f) ==
  /\ f[0] = s /\ \A i \in 1 .. Len(way) : f[i] = LinkLayer(f[i - 1], ix, way[i])
  /\ \A i \in 0 .. Len(way) : f[i] \in Steps(ns)

LEMMA LinkLayersSteps ==
  ASSUME NEW ns \in Seq(Nodes), NEW ix \in Live(ns), NEW s \in Steps(ns), NEW way \in Seq(Nat),
         \A i \in 1 .. Len(way) : way[i] < Len(ns[ix].layers)
  PROVE  LayerByLayer(ns, s, ix, way, Layering(s, ix, way))
<1> DEFINE N == Len(way)
           D == Steps(ns)
           Op(x, i) == LinkLayer(x, ix, way[i])
           F(f) == [i \in 0 .. N |-> IF i = 0 THEN s ELSE Op(f[i - 1], i)]
           g == [i \in 1 .. N |-> [x \in D |-> Op(x, i)]]
           h == Layering(s, ix, way)
<1>1. N \in Nat /\ s \in D
  OBVIOUS
<1>2. \A i \in 1 .. N, x \in D : Op(x, i) \in D
  <2> SUFFICES ASSUME NEW i \in 1 .. N, NEW x \in D PROVE Op(x, i) \in D
    OBVIOUS
  <2>1. way[i] \in Nat /\ way[i] < Len(ns[ix].layers)
    OBVIOUS
  <2> QED
    BY <2>1, LinkLayerStays
<1>3. \A f : f = F(f) => h = F(h)
  BY DEF Layering
<1> HIDE DEF N, D, Op, h
<1>5. g \in [1 .. N -> [D -> D]] /\ \A i \in 1 .. N, x \in D : g[i][x] = Op(x, i)
  BY <1>2
<1> HIDE DEF g
<1>6. Follows(D, N, s, g, h) /\ \A i \in 0 .. N : h[i] \in D
  <2>1. ASSUME NEW f \in [0 .. N -> D], Follows(D, N, s, g, f) PROVE Follows(D, N, s, g, h)
    <3>1. \A i \in 1 .. N : f[i] = Op(f[i - 1], i)
      BY <1>1, <1>5, <2>1 DEF Follows
    <3>2. f = F(f)
      BY <1>1, <2>1, <3>1 DEF Follows
    <3>3. h = F(h)
      BY <1>3, <3>2
    <3>4. h[0] = s /\ \A i \in 1 .. N : h[i] = Op(h[i - 1], i)
      BY <1>1, <3>3
    <3> QED
      BY <1>5, <3>4 DEF Follows
  <2> QED
    BY <1>1, <1>5, <2>1, LoopIs
<1>7. h[0] = s /\ \A i \in 1 .. N : h[i] = Op(h[i - 1], i)
  BY <1>1, <1>5, <1>6 DEF Follows
<1> QED
  BY <1>6, <1>7 DEF N, D, Op, h, LayerByLayer

LEMMA LinksStillFit ==
  ASSUME NEW ns \in Seq(Nodes), NEW ms, NEW ix \in DOMAIN ns, NEW l \in Nat, NEW nb \in Seq(DOMAIN ns),
         Distinct(nb), LinkedSoFar(ns, ms, ix, nb, l, Len(nb)), LinksFit(ns), Fresh(ns, ix, l)
  PROVE  LinksFit(ms)
<1>1. ms \in Seq(Nodes) /\ DOMAIN ms = DOMAIN ns
  BY SameLive DEF LinkedSoFar
<1> SUFFICES ASSUME NEW i \in DOMAIN ns, NEW k \in 1 .. Len(ms[i].layers)
             PROVE  ToSet(Row(ms, i, k)) \subseteq DOMAIN ns /\ Distinct(Row(ms, i, k))
  BY <1>1 DEF LinksFit
<1>2. Len(ms[i].layers) = Len(ns[i].layers)
  BY DEF LinkedSoFar, Same
<1>3. ToSet(Row(ns, i, k)) \subseteq DOMAIN ns /\ Distinct(Row(ns, i, k))
  BY <1>2 DEF LinksFit
<1>4. CASE k # l + 1
  BY <1>3, <1>4 DEF LinkedSoFar
<1>5. CASE k = l + 1 /\ i = ix
  <2>1. Row(ms, i, k) = nb
    BY <1>5 DEF LinkedSoFar
  <2>2. ToSet(nb) \subseteq DOMAIN ns
    BY DEF ToSet
  <2> QED
    BY <2>1, <2>2
<1>6. CASE k = l + 1 /\ i # ix /\ \A m \in 1 .. Len(nb) : nb[m] # i
  BY <1>3, <1>6 DEF LinkedSoFar
<1>7. CASE k = l + 1 /\ i # ix /\ ~ \A m \in 1 .. Len(nb) : nb[m] # i
  <2>1. PICK m \in 1 .. Len(nb) : nb[m] = i
    BY <1>7
  <2>2. l < Len(ns[i].layers)
    BY <1>2, <1>7, RowIs
  <2>3. LinkedBack(ix, Row(ns, i, l + 1), Row(ms, i, l + 1))
    BY <2>1, <2>2 DEF LinkedSoFar
  <2>4. ix \notin ToSet(Row(ns, i, l + 1))
    BY <2>2 DEF Fresh
  <2> QED
    BY <1>3, <1>7, <2>3, <2>4 DEF LinkedBack
<1> QED
  BY <1>4, <1>5, <1>6, <1>7

(* The new node has links to others on the lowest layer, and each of them links back or
   lost a link. *)
Hooked(ns, ms, ix) ==
  /\ ToSet(Row(ms, ix, 1)) # {} /\ ToSet(Row(ms, ix, 1)) \subseteq Live(ns) \ {ix}
  /\ \A j \in ToSet(Row(ms, ix, 1)) :
       ix \in ToSet(Row(ms, j, 1)) \/ ~(ToSet(Row(ns, j, 1)) \subseteq ToSet(Row(ms, j, 1)))

LEMMA IsHooked ==
  ASSUME NEW ns \in Seq(Nodes), NEW ms, NEW ix \in DOMAIN ns, NEW nb \in Seq(Live(ns) \ {ix}), nb # << >>,
         LinkedSoFar(ns, ms, ix, nb, 0, Len(nb)), LinksFit(ns), \A i \in Live(ns) : Len(ns[i].layers) >= 1
  PROVE  Hooked(ns, ms, ix)
<1>1. Row(ms, ix, 1) = nb
  BY DEF LinkedSoFar
<1>2. ToSet(nb) # {} /\ ToSet(nb) \subseteq Live(ns) \ {ix}
  <2>1. 1 \in DOMAIN nb
    OBVIOUS
  <2> QED
    BY <2>1 DEF ToSet
<1>3. ASSUME NEW j \in ToSet(nb)
      PROVE  ix \in ToSet(Row(ms, j, 1)) \/ ~(ToSet(Row(ns, j, 1)) \subseteq ToSet(Row(ms, j, 1)))
  <2>1. PICK m \in 1 .. Len(nb) : j = nb[m]
    BY DEF ToSet
  <2>2. j \in DOMAIN ns /\ 0 < Len(ns[j].layers) /\ 1 \in 1 .. Len(ns[j].layers)
    BY <1>2, LiveNodes, RowIs
  <2>3. LinkedBack(ix, Row(ns, j, 1), Row(ms, j, 1))
    BY <2>1, <2>2 DEF LinkedSoFar
  <2>4. Distinct(Row(ns, j, 1))
    BY <2>2 DEF LinksFit
  <2> QED
    BY <2>3, <2>4 DEF LinkedBack
<1> QED
  BY <1>1, <1>2, <1>3 DEF Hooked

(* After i of the layers from n down to 0: the lower ones are as they were. *)
Layered(ns, s, ix, n, i) ==
  /\ s.ep \in Live(ns) \ {ix} /\ Same(ns, s.ns) /\ LinksFit(s.ns)
  /\ \A j \in DOMAIN ns : \A k \in 1 .. n - i + 1 : Row(s.ns, j, k) = Row(ns, j, k)
  /\ i = n + 1 => Hooked(ns, s.ns, ix)

LEMMA LayerGoesOn ==
  ASSUME NEW ns \in Seq(Nodes), NEW ix \in Live(ns), NEW n \in Nat, NEW i \in 1 .. n + 1, NEW s,
         Layered(ns, s, ix, n, i - 1), n < Len(ns[ix].layers), Fresh(ns, ix, n - i + 1),
         \A j \in Live(ns) : Len(ns[j].layers) >= 1
  PROVE  Layered(ns, LinkLayer(s, ix, n - i + 1), ix, n, i)
<1> DEFINE A == Live(ns) \ {ix}
<1>0. PICK l \in Nat : l = n - i + 1
  OBVIOUS
<1>1. s.ns \in Seq(Nodes) /\ DOMAIN s.ns = DOMAIN ns /\ Live(s.ns) = Live(ns)
  BY SameLive DEF Layered
<1>2. \A j \in DOMAIN ns : Len(s.ns[j].layers) = Len(ns[j].layers)
  BY DEF Layered, Same
<1>3. l + 1 \in 1 .. n - (i - 1) + 1 /\ \A k \in 1 .. n - i + 1 : k \in 1 .. n - (i - 1) + 1 /\ k # l + 1
  BY <1>0
<1>4. \A j \in DOMAIN ns : Row(s.ns, j, l + 1) = Row(ns, j, l + 1)
  BY <1>3 DEF Layered
<1>5. Fresh(s.ns, ix, l)
  BY <1>0, <1>1, <1>2, <1>4 DEF Fresh
<1>6. ClosedAt(s.ns, l, A)
  BY <1>1, <1>5, FreshIsClosed
<1>7. ix \in DOMAIN ns /\ l < Len(s.ns[ix].layers)
  BY <1>0, <1>2, LiveNodes, RowIs
<1>8. PICK nb \in Seq(A), e \in A :
        /\ nb # << >> /\ Distinct(nb)
        /\ LinkLayer(s, ix, l) = [ns |-> LinkAll(s.ns, ix, nb, l), ep |-> e]
  <2>1. s.ep \in A
    BY DEF Layered
  <2> HIDE DEF A
  <2> QED
    BY <1>1, <1>6, <2>1, LinkLayerIs
<1> DEFINE ms == LinkAll(s.ns, ix, nb, l)
<1>9. nb \in Seq(Live(ns)) /\ nb \in Seq(DOMAIN ns) /\ ix \notin ToSet(nb)
  <2>1. A \subseteq Live(ns) /\ A \subseteq DOMAIN ns
    BY LiveNodes
  <2>2. ix \notin ToSet(nb)
    BY DEF ToSet
  <2> HIDE DEF A
  <2>3. nb \in Seq(Live(ns))
    BY <2>1, SeqMonotonic
  <2>4. nb \in Seq(DOMAIN ns)
    BY <2>1, SeqMonotonic
  <2> QED
    BY <2>2, <2>3, <2>4
<1>10. LinkedSoFar(s.ns, ms, ix, nb, l, Len(nb))
  BY <1>1, <1>7, <1>8, <1>9, LinkAllIs
<1> HIDE DEF ms
<1>11. LinksFit(ms)
  BY <1>1, <1>5, <1>7, <1>8, <1>9, <1>10, LinksStillFit DEF Layered
<1>12. Same(ns, ms)
  BY <1>10, SameTwice DEF LinkedSoFar, Layered
<1>13. \A j \in DOMAIN ns : \A k \in 1 .. n - i + 1 : Row(ms, j, k) = Row(ns, j, k)
  BY <1>1, <1>3, <1>10 DEF LinkedSoFar, Layered
<1>14. ASSUME i = n + 1 PROVE Hooked(ns, ms, ix)
  <2>1. l = 0
    BY <1>0, <1>14
  <2>2. \A j \in Live(s.ns) : Len(s.ns[j].layers) >= 1
    BY <1>1, <1>2, LiveNodes
  <2>3. Hooked(s.ns, ms, ix)
    BY <1>1, <1>7, <1>8, <1>10, <2>1, <2>2, IsHooked DEF Layered
  <2>4. \A j \in DOMAIN ns : Row(s.ns, j, 1) = Row(ns, j, 1)
    BY <1>4, <2>1
  <2>5. \A j \in ToSet(Row(ms, ix, 1)) : j \in DOMAIN ns
    BY <1>1, <2>3, LiveNodes DEF Hooked
  <2> QED
    BY <1>1, <2>3, <2>4, <2>5 DEF Hooked
<1>15. LinkLayer(s, ix, l) = [ns |-> ms, ep |-> e]
  BY <1>8 DEF ms
<1> DEFINE t == LinkLayer(s, ix, l)
<1>16. t.ns = ms /\ t.ep \in A
  BY <1>15
<1> HIDE DEF t
<1>17. Layered(ns, t, ix, n, i)
  BY <1>11, <1>12, <1>13, <1>14, <1>16 DEF Layered
<1> QED
  BY <1>0, <1>17 DEF t

LEMMA LinkLayersRun ==
  ASSUME NEW s, NEW ix, NEW way
  PROVE  LinkLayers(s, ix, way) = Layering(s, ix, way)[Len(way)]
BY DEF LinkLayers, Layering

LEMMA LinkLayersIs ==
  ASSUME NEW ns \in Seq(Nodes), NEW ix \in Live(ns), NEW n \in Nat, NEW ep \in Live(ns) \ {ix},
         n < Len(ns[ix].layers), \A l \in Nat : Fresh(ns, ix, l),
         \A j \in Live(ns) : Len(ns[j].layers) >= 1, LinksFit(ns)
  PROVE  LET ms == LinkLayers([ns |-> ns, ep |-> ep], ix, Downwards(n, 0)).ns IN
         Same(ns, ms) /\ LinksFit(ms) /\ Hooked(ns, ms, ix)
<1> DEFINE way == Downwards(n, 0)
           s == [ns |-> ns, ep |-> ep]
           h == Layering(s, ix, way)
           E == [i \in 0 .. n + 1 |-> {x \in Steps(ns) : Layered(ns, x, ix, n, i)}]
<1>1. way \in Seq(Nat) /\ Len(way) = n + 1 /\ \A i \in 1 .. n + 1 : way[i] = n - i + 1
  <2>1. n >= 0 /\ 0 \in Nat
    OBVIOUS
  <2> HIDE DEF way
  <2>2. way \in Seq(Nat) /\ (n >= 0 => Len(way) = n - 0 + 1) /\ \A i \in 1 .. Len(way) : way[i] = n - i + 1
    BY <2>1, DownwardsIs DEF way
  <2>3. n - 0 + 1 = n + 1
    OBVIOUS
  <2> QED
    BY <2>1, <2>2, <2>3
<1>2. s \in Steps(ns) /\ s.ns = ns /\ s.ep = ep
  BY SameAsItself DEF Steps
<1> HIDE DEF way, s
<1>3. \A i \in 1 .. Len(way) : way[i] < Len(ns[ix].layers)
  <2>1. Len(ns[ix].layers) \in Nat
    BY LiveNodes, RowIs
  <2> QED
    BY <1>1, <2>1
<1>3a. LayerByLayer(ns, s, ix, way, h)
  BY <1>1, <1>2, <1>3, LinkLayersSteps
<1> HIDE DEF h
<1>4. h[0] = s /\ \A i \in 1 .. n + 1 : h[i] = LinkLayer(h[i - 1], ix, n - i + 1)
  BY <1>1, <1>3a DEF LayerByLayer
<1>5. \A i \in 0 .. n + 1 : h[i] \in Steps(ns)
  BY <1>1, <1>3a DEF LayerByLayer
<1>6. Layered(ns, h[0], ix, n, 0)
  <2>1. 0 # n + 1
    OBVIOUS
  <2> QED
    BY <1>2, <1>4, <2>1, SameAsItself DEF Layered
<1>7. ASSUME NEW i \in 1 .. n + 1, Layered(ns, h[i - 1], ix, n, i - 1) PROVE Layered(ns, h[i], ix, n, i)
  <2>1. n - i + 1 \in Nat
    OBVIOUS
  <2> QED
    BY <1>4, <1>7, <2>1, LayerGoesOn
<1>8. h[0] \in E[0] /\ \A i \in 1 .. n + 1 : h[i - 1] \in E[i - 1] => h[i] \in E[i]
  <2>1. 0 \in 0 .. n + 1 /\ \A i \in 1 .. n + 1 : i - 1 \in 0 .. n + 1 /\ i \in 0 .. n + 1
    OBVIOUS
  <2> QED
    BY <1>5, <1>6, <1>7, <2>1
<1> HIDE DEF E
<1>9. \A i \in 0 .. n + 1 : h[i] \in E[i]
  <2>1. n + 1 \in Nat
    OBVIOUS
  <2> QED
    BY <1>8, <2>1, LoopStays
<1>10. Layered(ns, h[n + 1], ix, n, n + 1)
  <2>1. n + 1 \in 0 .. n + 1
    OBVIOUS
  <2> QED
    BY <1>9, <2>1 DEF E
<1>11. LinkLayers(s, ix, way) = h[n + 1]
  BY <1>1, LinkLayersRun DEF h
<1> QED
  BY <1>10, <1>11 DEF Layered, s, way

-----------------------------------------------------------------------------
(* Hnsw: the index is sound.  A live node has layers and a removed one has none, the
   links are of numbers in the list and none comes twice, and the entry point lives
   unless nothing does. *)

LayersFit(ns, top) ==
  \A i \in DOMAIN ns : IF i \in Live(ns) THEN Len(ns[i].layers) \in 1 .. top + 1 ELSE Len(ns[i].layers) = 0

Entered(ns, entry) == IF Live(ns) = {} THEN entry = 0 ELSE entry \in Live(ns)

Sound(ns, entry, top) ==
  ns \in Seq(Nodes) /\ top \in Levels \cup {0} /\ LayersFit(ns, top) /\ LinksFit(ns) /\ Entered(ns, entry)

NewNode(id, v, lvl) == [id |-> id, vector |-> v, layers |-> [l \in 1 .. lvl + 1 |-> << >>]]

LEMMA NewNodeIs ==
  ASSUME NEW ns \in Seq(Nodes), NEW id \in Ids, NEW v \in Points, NEW lvl \in Nat
  PROVE  LET ms == Append(ns, NewNode(id, v, lvl)) IN
         /\ ms \in Seq(Nodes) /\ Len(ms) = Len(ns) + 1 /\ Len(ms) \in DOMAIN ms
         /\ DOMAIN ms = DOMAIN ns \cup {Len(ms)}
         /\ \A i \in DOMAIN ns : i # Len(ms) /\ ms[i] = ns[i]
         /\ ms[Len(ms)].id = id /\ ms[Len(ms)].vector = v /\ Len(ms[Len(ms)].layers) = lvl + 1
         /\ \A k \in 1 .. lvl + 1 : Row(ms, Len(ms), k) = << >>
         /\ Live(ms) = Live(ns) \cup {Len(ms)}
<1> DEFINE e == NewNode(id, v, lvl)
           ms == Append(ns, e)
           P == Nat \ {0}
           row == [l \in 1 .. lvl + 1 |-> << >>]
<1>1. lvl + 1 \in Nat
  OBVIOUS
<1>2. << >> \in Seq(P)
  OBVIOUS
<1>3. row \in Seq(Seq(P)) /\ Len(row) = lvl + 1 /\ \A k \in 1 .. lvl + 1 : row[k] = << >>
  <2> DEFINE Q == Seq(P)
             n == lvl + 1
  <2>1. << >> \in Q /\ n \in Nat
    BY <1>1, <1>2
  <2> HIDE DEF Q, n
  <2>2. [l \in 1 .. n |-> << >>] \in Seq(Q) /\ Len([l \in 1 .. n |-> << >>]) = n
    BY <2>1
  <2> QED
    BY <2>2 DEF Q, n
<1>4. e = [id |-> id, vector |-> v, layers |-> row]
  BY DEF NewNode
<1> HIDE DEF row, e
<1>5. e \in Nodes /\ e.id = id /\ e.vector = v /\ e.layers = row
  <2>1. row \in Seq(Seq(Nat \ {0}))
    BY <1>3
  <2> QED
    BY <1>4, <2>1 DEF Nodes
<1>6. Len(ns) \in Nat /\ DOMAIN ns = 1 .. Len(ns)
  BY LiveNodes
<1>7. /\ ms \in Seq(Nodes) /\ Len(ms) = Len(ns) + 1 /\ ms[Len(ns) + 1] = e
      /\ \A i \in 1 .. Len(ns) : ms[i] = ns[i]
  BY <1>5
<1>8. DOMAIN ms = 1 .. Len(ns) + 1
  BY <1>6, <1>7
<1> HIDE DEF ms
<1>9. /\ Len(ms) \in DOMAIN ms /\ DOMAIN ms = DOMAIN ns \cup {Len(ms)}
      /\ \A i \in DOMAIN ns : i # Len(ms) /\ ms[i] = ns[i]
  BY <1>6, <1>7, <1>8
<1>10. ms[Len(ms)] = e
  BY <1>7
<1>11. \A k \in 1 .. lvl + 1 : Row(ms, Len(ms), k) = << >>
  BY <1>3, <1>5, <1>10 DEF Row
<1>12. v # Nil
  BY HnswAssumption
<1>13. Live(ms) = Live(ns) \cup {Len(ms)}
  BY <1>5, <1>9, <1>10, <1>12 DEF Live
<1> QED
  BY <1>3, <1>5, <1>7, <1>9, <1>10, <1>11, <1>13 DEF ms, e

LEMMA NewNodeFits ==
  ASSUME NEW ns \in Seq(Nodes), NEW id \in Ids, NEW v \in Points, NEW lvl \in Nat, LinksFit(ns)
  PROVE  LET ms == Append(ns, NewNode(id, v, lvl)) IN
         LinksFit(ms) /\ \A l \in Nat : Fresh(ms, Len(ms), l)
<1> DEFINE ms == Append(ns, NewNode(id, v, lvl))
           ix == Len(ms)
<1>1. /\ ms \in Seq(Nodes) /\ Len(ms) = Len(ns) + 1 /\ Len(ms) \in DOMAIN ms
      /\ DOMAIN ms = DOMAIN ns \cup {ix}
      /\ \A i \in DOMAIN ns : i # ix /\ ms[i] = ns[i]
      /\ Len(ms[ix].layers) = lvl + 1 /\ \A k \in 1 .. lvl + 1 : Row(ms, ix, k) = << >>
  BY NewNodeIs
<1> HIDE DEF ms, ix
<1>2. ToSet(<< >>) = {} /\ Distinct(<< >>)
  BY DEF ToSet, Distinct
<1>3. ASSUME NEW i \in DOMAIN ms, NEW k \in 1 .. Len(ms[i].layers)
      PROVE  ToSet(Row(ms, i, k)) \subseteq DOMAIN ns /\ Distinct(Row(ms, i, k))
  <2>1. CASE i = ix
    BY <1>1, <1>2, <2>1
  <2>2. CASE i \in DOMAIN ns
    BY <1>1, <2>2 DEF LinksFit, Row
  <2> QED
    BY <1>1, <2>1, <2>2
<1>4. LinksFit(ms)
  BY <1>1, <1>3 DEF LinksFit
<1>5. ASSUME NEW l \in Nat PROVE Fresh(ms, ix, l)
  <2> SUFFICES ASSUME NEW i \in DOMAIN ms, l < Len(ms[i].layers) PROVE ix \notin ToSet(Row(ms, i, l + 1))
    BY DEF Fresh
  <2>1. l + 1 \in 1 .. Len(ms[i].layers)
    BY <1>1, RowIs
  <2> QED
    BY <1>1, <1>3, <2>1
<1> QED
  BY <1>4, <1>5 DEF ms, ix

LEMMA LargerOfTwo ==
  ASSUME NEW m \in Nat, NEW n \in Nat
  PROVE  Max({m, n}) = IF m >= n THEN m ELSE n
BY DEF Max

Grown(ns, ms, id, v) ==
  /\ Len(ms) = Len(ns) + 1 /\ \A i \in DOMAIN ns : ms[i].id = ns[i].id /\ ms[i].vector = ns[i].vector
  /\ ms[Len(ms)].id = id /\ ms[Len(ms)].vector = v

LEMMA FirstInserted ==
  ASSUME NEW ns, NEW entry, NEW top, Sound(ns, entry, top), entry = 0,
         NEW id \in Ids, NEW v \in Points, NEW lvl \in Levels
  PROVE  LET ms == Append(ns, NewNode(id, v, lvl)) IN
         Sound(ms, Len(ms), lvl) /\ Grown(ns, ms, id, v) /\ Live(ns) = {}
<1> DEFINE ms == Append(ns, NewNode(id, v, lvl))
<1>1. ns \in Seq(Nodes) /\ LinksFit(ns) /\ lvl \in Nat /\ Live(ns) = {}
  <2>1. ns \in Seq(Nodes) /\ Entered(ns, entry)
    BY DEF Sound
  <2>2. 0 \notin Live(ns)
    BY <2>1, LiveNodes
  <2> QED
    BY <2>1, <2>2, HnswAssumption DEF Sound, Entered
<1>2. /\ ms \in Seq(Nodes) /\ Len(ms) = Len(ns) + 1
      /\ DOMAIN ms = DOMAIN ns \cup {Len(ms)} /\ \A i \in DOMAIN ns : i # Len(ms) /\ ms[i] = ns[i]
      /\ ms[Len(ms)].id = id /\ ms[Len(ms)].vector = v /\ Len(ms[Len(ms)].layers) = lvl + 1
      /\ Live(ms) = Live(ns) \cup {Len(ms)}
  BY <1>1, NewNodeIs
<1>3. LinksFit(ms)
  BY <1>1, NewNodeFits
<1> HIDE DEF ms
<1>4. LayersFit(ms, lvl)
  <2>1. ASSUME NEW i \in DOMAIN ns PROVE i \notin Live(ms) /\ Len(ms[i].layers) = 0
    BY <1>1, <1>2 DEF Sound, LayersFit
  <2>2. Len(ms) \in Live(ms) /\ lvl + 1 \in 1 .. lvl + 1
    BY <1>1, <1>2
  <2> QED
    BY <1>2, <2>1, <2>2 DEF LayersFit
<1>5. Entered(ms, Len(ms))
  BY <1>2 DEF Entered
<1> QED
  BY <1>1, <1>2, <1>3, <1>4, <1>5 DEF Sound, Grown, ms

LEMMA NextInserted ==
  ASSUME NEW ns, NEW entry, NEW top, Sound(ns, entry, top), entry # 0,
         NEW id \in Ids, NEW v \in Points, NEW lvl \in Levels
  PROVE  LET nn == Append(ns, NewNode(id, v, lvl))
             ep == Descend(nn, entry, top, v, lvl)
             ms == LinkLayers([ns |-> nn, ep |-> ep], Len(nn), Downwards(Min({lvl, top}), 0)).ns
         IN
         /\ Sound(ms, IF lvl > top THEN Len(nn) ELSE entry, Max({lvl, top}))
         /\ Grown(ns, ms, id, v) /\ Hooked(nn, ms, Len(nn))
<1> DEFINE nn == Append(ns, NewNode(id, v, lvl))
           ix == Len(nn)
           A == Live(nn) \ {ix}
           ep == Descend(nn, entry, top, v, lvl)
           n == Min({lvl, top})
           ms == LinkLayers([ns |-> nn, ep |-> ep], ix, Downwards(n, 0)).ns
<1>1. ns \in Seq(Nodes) /\ LinksFit(ns) /\ lvl \in Nat /\ top \in Nat /\ entry \in Live(ns)
  BY HnswAssumption DEF Sound, Entered
<1>2. /\ nn \in Seq(Nodes) /\ Len(nn) = Len(ns) + 1 /\ ix \in DOMAIN nn
      /\ DOMAIN nn = DOMAIN ns \cup {ix} /\ \A i \in DOMAIN ns : i # ix /\ nn[i] = ns[i]
      /\ nn[ix].id = id /\ nn[ix].vector = v /\ Len(nn[ix].layers) = lvl + 1
      /\ Live(nn) = Live(ns) \cup {ix}
  BY <1>1, NewNodeIs
<1>3. LinksFit(nn) /\ \A l \in Nat : Fresh(nn, ix, l)
  BY <1>1, NewNodeFits
<1> HIDE DEF nn, ix
<1>4. entry \in A /\ Live(ns) \subseteq DOMAIN ns
  BY <1>1, <1>2, LiveNodes
<1>5. ep \in A
  <2>1. \A l \in Nat : ClosedAt(nn, l, A)
    BY <1>2, <1>3, FreshIsClosed
  <2> HIDE DEF A
  <2> QED
    BY <1>1, <1>2, <1>4, <2>1, DescendIs
<1>6. n = (IF lvl <= top THEN lvl ELSE top)
  BY <1>1, SmallerOfTwo
<1> HIDE DEF ep, n
<1>7. n \in Nat /\ n < Len(nn[ix].layers)
  BY <1>1, <1>2, <1>6
<1>8. \A j \in Live(nn) : Len(nn[j].layers) >= 1
  <2>1. \A j \in Live(ns) : Len(ns[j].layers) \in 1 .. top + 1
    BY <1>4 DEF Sound, LayersFit
  <2>2. \A j \in Live(ns) : Len(nn[j].layers) \in 1 .. top + 1
    BY <1>2, <1>4, <2>1
  <2> QED
    BY <1>1, <1>2, <2>2
<1>9. Same(nn, ms) /\ LinksFit(ms) /\ Hooked(nn, ms, ix)
  <2>1. ix \in Live(nn)
    BY <1>2
  <2> QED
    BY <1>2, <1>3, <1>5, <1>7, <1>8, <2>1, LinkLayersIs
<1> HIDE DEF ms
<1>10. ms \in Seq(Nodes) /\ DOMAIN ms = DOMAIN nn /\ Live(ms) = Live(nn) /\ Len(ms) = ix
  BY <1>2, <1>9, SameLive DEF Same, ix
<1>11. Grown(ns, ms, id, v)
  BY <1>2, <1>9, <1>10 DEF Grown, Same
<1> DEFINE t == Max({lvl, top})
<1>12. t = (IF lvl >= top THEN lvl ELSE top)
  BY <1>1, LargerOfTwo
<1>13. t \in Levels \cup {0}
  BY <1>12 DEF Sound
<1> HIDE DEF t
<1>14. LayersFit(ms, t)
  <2>1. ASSUME NEW i \in DOMAIN ns
        PROVE  IF i \in Live(ms) THEN Len(ms[i].layers) \in 1 .. t + 1 ELSE Len(ms[i].layers) = 0
    <3>1. i \in Live(ms) <=> i \in Live(ns)
      BY <1>2, <1>10
    <3>2. Len(ms[i].layers) = Len(ns[i].layers)
      BY <1>2, <1>9 DEF Same
    <3>3. IF i \in Live(ns) THEN Len(ns[i].layers) \in 1 .. top + 1 ELSE Len(ns[i].layers) = 0
      BY DEF Sound, LayersFit
    <3> QED
      BY <1>1, <1>12, <3>1, <3>2, <3>3
  <2>2. ix \in Live(ms) /\ Len(ms[ix].layers) \in 1 .. t + 1
    <3>1. Len(ms[ix].layers) = lvl + 1
      BY <1>2, <1>9 DEF Same
    <3> QED
      BY <1>1, <1>2, <1>10, <1>12, <3>1
  <2> QED
    BY <1>2, <1>10, <2>1, <2>2 DEF LayersFit
<1>15. Entered(ms, IF lvl > top THEN ix ELSE entry)
  BY <1>2, <1>4, <1>10 DEF Entered
<1> QED
  BY <1>9, <1>10, <1>11, <1>13, <1>14, <1>15 DEF Sound, ms, t, n, ep, ix, nn

(* All nodes live, and no part of them but the whole is left by no link of the lowest
   layer. *)
Joined(ns) ==
  /\ Live(ns) = DOMAIN ns
  /\ \A A \in SUBSET DOMAIN ns : A # {} /\ (\A i \in A : ToSet(Row(ns, i, 1)) \subseteq A) => A = DOMAIN ns

KeptLinks(ns, ms) == \A i \in DOMAIN ns : ToSet(Row(ns, i, 1)) \subseteq ToSet(Row(ms, i, 1))

LEMMA GrownLive ==
  ASSUME NEW ns \in Seq(Nodes), NEW ms \in Seq(Nodes), NEW id, NEW v \in Points, Grown(ns, ms, id, v)
  PROVE  DOMAIN ms = DOMAIN ns \cup {Len(ms)} /\ Len(ms) \notin DOMAIN ns /\ Live(ms) = Live(ns) \cup {Len(ms)}
<1>1. DOMAIN ms = DOMAIN ns \cup {Len(ms)} /\ Len(ms) \notin DOMAIN ns
  BY LiveNodes DEF Grown
<1>2. v # Nil
  BY HnswAssumption
<1> QED
  BY <1>1, <1>2 DEF Grown, Live

LEMMA EmptyList ==
  ASSUME NEW ns \in Seq(Nodes), DOMAIN ns = {}
  PROVE  Len(ns) = 0
BY LiveNodes

LEMMA FirstJoined ==
  ASSUME NEW ms \in Seq(Nodes), Len(ms) = 1, Live(ms) = DOMAIN ms
  PROVE  Joined(ms)
<1>1. DOMAIN ms = {1}
  BY LiveNodes
<1> QED
  BY <1>1 DEF Joined

(* An insertion that drops no link of a former node keeps the list joined: a closed part
   that has the new node has an old one, and one that has all the old has the new. *)
LEMMA JoinedStays ==
  ASSUME NEW ns \in Seq(Nodes), NEW ms \in Seq(Nodes), NEW id \in Ids, NEW v \in Points, NEW lvl \in Nat,
         \A i \in DOMAIN ns : ToSet(Row(ns, i, 1)) \subseteq DOMAIN ns,
         Grown(ns, ms, id, v), Joined(ns), KeptLinks(ns, ms),
         Hooked(Append(ns, NewNode(id, v, lvl)), ms, Len(ms))
  PROVE  Joined(ms)
<1> DEFINE nn == Append(ns, NewNode(id, v, lvl))
           ix == Len(ms)
<1>1. /\ DOMAIN ms = DOMAIN ns \cup {ix} /\ ix \notin DOMAIN ns /\ Live(ms) = DOMAIN ms
      /\ Live(nn) \ {ix} = DOMAIN ns /\ \A i \in DOMAIN ns : nn[i] = ns[i]
  <2>1. /\ Len(nn) = Len(ns) + 1 /\ \A i \in DOMAIN ns : nn[i] = ns[i]
        /\ Live(nn) = Live(ns) \cup {Len(nn)}
    BY NewNodeIs
  <2> HIDE DEF nn
  <2>2. Len(nn) = ix
    BY <2>1 DEF Grown
  <2> HIDE DEF ix
  <2>3. DOMAIN ms = DOMAIN ns \cup {ix} /\ ix \notin DOMAIN ns /\ Live(ms) = Live(ns) \cup {ix}
    BY GrownLive DEF ix
  <2>4. Live(ns) = DOMAIN ns
    BY DEF Joined
  <2> QED
    BY <2>1, <2>2, <2>3, <2>4
<1>2. ASSUME NEW j \in ToSet(Row(ms, ix, 1)) PROVE j \in DOMAIN ns /\ ix \in ToSet(Row(ms, j, 1))
  <2>1. j \in Live(nn) \ {ix}
    BY DEF Hooked
  <2>2. j \in DOMAIN ns
    BY <1>1, <2>1 DEF Joined
  <2>3. Row(nn, j, 1) = Row(ns, j, 1)
    BY <1>1, <2>2 DEF Row
  <2>4. ix \in ToSet(Row(ms, j, 1)) \/ ~(ToSet(Row(nn, j, 1)) \subseteq ToSet(Row(ms, j, 1)))
    BY DEF Hooked
  <2> QED
    BY <2>2, <2>3, <2>4 DEF KeptLinks
<1>3. ToSet(Row(ms, ix, 1)) # {}
  BY DEF Hooked
<1> HIDE DEF nn, ix
<1> SUFFICES ASSUME NEW A \in SUBSET DOMAIN ms, A # {}, \A i \in A : ToSet(Row(ms, i, 1)) \subseteq A
             PROVE  A = DOMAIN ms
  BY <1>1 DEF Joined
<1> DEFINE B == A \cap DOMAIN ns
<1>4. B # {}
  <2>1. CASE ix \in A
    BY <1>2, <1>3, <2>1
  <2>2. CASE ix \notin A
    BY <1>1, <2>2
  <2> QED
    BY <2>1, <2>2
<1>5. B = DOMAIN ns
  <2>2. \A i \in B : ToSet(Row(ns, i, 1)) \subseteq B
    BY DEF KeptLinks
  <2>3. B \in SUBSET DOMAIN ns
    OBVIOUS
  <2> HIDE DEF B
  <2> QED
    BY <1>4, <2>2, <2>3 DEF Joined
<1>6. ix \in A
  BY <1>2, <1>3, <1>5
<1> QED
  BY <1>1, <1>5, <1>6

(* The whole of Add for a new id: a sound index, with one node more. *)
LEMMA InsertedIs ==
  ASSUME NEW x, Sound(x.nodes, x.entry, x.top), NEW id \in Ids, NEW v \in Points, NEW lvl \in Levels
  PROVE  LET y == Inserted(x, id, v, lvl) IN
         /\ Sound(y.nodes, y.entry, y.top) /\ Grown(x.nodes, y.nodes, id, v)
         /\ Joined(x.nodes) /\ KeptLinks(x.nodes, y.nodes) => Joined(y.nodes)
<1> DEFINE y == Inserted(x, id, v, lvl)
           nn == Append(x.nodes, NewNode(id, v, lvl))
           ep == Descend(nn, x.entry, x.top, v, lvl)
           ms == LinkLayers([ns |-> nn, ep |-> ep], Len(nn), Downwards(Min({lvl, x.top}), 0)).ns
<1>0. x.nodes \in Seq(Nodes) /\ lvl \in Nat
  BY HnswAssumption DEF Sound
<1>1. CASE x.entry = 0
  <2>1. Sound(nn, Len(nn), lvl) /\ Grown(x.nodes, nn, id, v) /\ Live(x.nodes) = {}
    BY <1>1, FirstInserted
  <2>2. y.nodes = nn /\ y.entry = Len(nn) /\ y.top = lvl
    BY <1>1 DEF Inserted, NewNode
  <2> HIDE DEF y, nn
  <2>3. nn \in Seq(Nodes)
    BY <2>1 DEF Sound
  <2>4. ASSUME Joined(x.nodes) PROVE Joined(nn)
    <3>1. DOMAIN x.nodes = {}
      BY <2>1, <2>4 DEF Joined
    <3>2. Len(nn) = 1
      <4>1. Len(x.nodes) = 0
        BY <1>0, <3>1, EmptyList, Zenon
      <4> QED
        BY <2>1, <4>1 DEF Grown
    <3>3. Live(nn) = DOMAIN nn
      <4>1. DOMAIN nn = DOMAIN x.nodes \cup {Len(nn)} /\ Live(nn) = Live(x.nodes) \cup {Len(nn)}
        BY <1>0, <2>1, <2>3, GrownLive
      <4> QED
        BY <2>1, <3>1, <4>1
    <3> QED
      BY <2>3, <3>2, <3>3, FirstJoined
  <2> QED
    BY <2>1, <2>2, <2>4 DEF y
<1>2. CASE x.entry # 0
  <2>1. /\ Sound(ms, IF lvl > x.top THEN Len(nn) ELSE x.entry, Max({lvl, x.top}))
        /\ Grown(x.nodes, ms, id, v) /\ Hooked(nn, ms, Len(nn))
    BY <1>2, NextInserted
  <2>2. y.nodes = ms /\ y.entry = (IF lvl > x.top THEN Len(nn) ELSE x.entry) /\ y.top = Max({lvl, x.top})
    BY <1>2 DEF Inserted, NewNode
  <2>3. Len(nn) = Len(x.nodes) + 1
    BY <1>0, NewNodeIs
  <2> HIDE DEF y, ms
  <2>4. ms \in Seq(Nodes) /\ Len(ms) = Len(nn)
    BY <2>1, <2>3 DEF Sound, Grown
  <2>5. ASSUME Joined(x.nodes), KeptLinks(x.nodes, ms) PROVE Joined(ms)
    <3>1. \A i \in DOMAIN x.nodes : ToSet(Row(x.nodes, i, 1)) \subseteq DOMAIN x.nodes
      <4> SUFFICES ASSUME NEW i \in DOMAIN x.nodes PROVE ToSet(Row(x.nodes, i, 1)) \subseteq DOMAIN x.nodes
        OBVIOUS
      <4>1. 1 \in 1 .. Len(x.nodes[i].layers)
        BY <2>5 DEF Sound, LayersFit, Joined
      <4> QED
        BY <4>1 DEF Sound, LinksFit
    <3> QED
      BY <1>0, <2>1, <2>4, <2>5, <3>1, JoinedStays
  <2> QED
    BY <2>1, <2>2, <2>5 DEF y
<1> QED
  BY <1>1, <1>2

-----------------------------------------------------------------------------
(* Hnsw: the elements of a sequence that are in a set. *)

Picking(s, S) ==
  CHOOSE f : f = [i \in 0 .. Len(s) |->
                    IF i = 0 THEN << >> ELSE IF s[i] \in S THEN Append(f[i - 1], s[i]) ELSE f[i - 1]]

LEMMA OnlyRun ==
  ASSUME NEW s, NEW S
  PROVE  Only(s, S) = Picking(s, S)[Len(s)]
BY DEF Only, Picking

(* What was picked of the first n. *)
Picked(s, S, n, t) ==
  /\ ToSet(t) = {s[k] : k \in 1 .. n} \cap S
  /\ Distinct(s) => Distinct(t)
  /\ (\A k \in 1 .. n : s[k] \in S) => Len(t) = n /\ \A k \in 1 .. n : t[k] = s[k]

PickOne(s, S, i, t) == IF s[i] \in S THEN Append(t, s[i]) ELSE t

LEMMA PickGoesOn ==
  ASSUME NEW T, NEW s \in Seq(T), NEW S, NEW i \in 1 .. Len(s), NEW t \in Seq(T), Picked(s, S, i - 1, t)
  PROVE  Picked(s, S, i, PickOne(s, S, i, t))
<1>1. /\ s[i] \in T /\ i \in Nat /\ i - 1 \in Nat /\ \A k \in 1 .. i : k = i \/ k \in 1 .. i - 1
      /\ \A k \in 1 .. i - 1 : k \in 1 .. i /\ k # i /\ k \in DOMAIN s /\ i \in DOMAIN s
  OBVIOUS
<1>2. CASE s[i] \notin S
  <2>1. PickOne(s, S, i, t) = t
    BY <1>2 DEF PickOne
  <2>2. {s[k] : k \in 1 .. i} \cap S = {s[k] : k \in 1 .. i - 1} \cap S
    BY <1>1, <1>2
  <2>3. i \in 1 .. i
    OBVIOUS
  <2>4. ~ \A k \in 1 .. i : s[k] \in S
    BY <1>2, <2>3
  <2> QED
    BY <2>1, <2>2, <2>4 DEF Picked
<1>3. CASE s[i] \in S
  <2> DEFINE u == Append(t, s[i])
  <2>1. PickOne(s, S, i, t) = u
    BY <1>3 DEF PickOne
  <2>2. ToSet(u) = ToSet(t) \cup {s[i]} /\ (Distinct(t) /\ s[i] \notin ToSet(t) => Distinct(u))
    BY <1>1, AppendedSet
  <2>3. Len(u) = Len(t) + 1 /\ u[Len(t) + 1] = s[i] /\ \A k \in 1 .. Len(t) : u[k] = t[k]
    BY <1>1
  <2> HIDE DEF u
  <2>4. {s[k] : k \in 1 .. i} \cap S = ({s[k] : k \in 1 .. i - 1} \cap S) \cup {s[i]}
    <3>1. i \in 1 .. i
      OBVIOUS
    <3> QED
      BY <1>1, <1>3, <3>1
  <2>5. Distinct(s) => s[i] \notin ToSet(t)
    BY <1>1 DEF Picked, Distinct
  <2>6. ASSUME \A k \in 1 .. i : s[k] \in S PROVE Len(u) = i /\ \A k \in 1 .. i : u[k] = s[k]
    <3>1. Len(t) = i - 1 /\ \A k \in 1 .. i - 1 : t[k] = s[k]
      BY <1>1, <2>6 DEF Picked
    <3>2. Len(u) = i /\ u[i] = s[i] /\ \A k \in 1 .. i - 1 : u[k] = s[k]
      BY <1>1, <2>3, <3>1
    <3> QED
      BY <1>1, <3>2
  <2> QED
    BY <2>1, <2>2, <2>4, <2>5, <2>6 DEF Picked
<1> QED
  BY <1>2, <1>3

LEMMA OnlyIs ==
  ASSUME NEW T, NEW s \in Seq(T), NEW S
  PROVE  LET t == Only(s, S) IN
         /\ t \in Seq(T) /\ ToSet(t) = ToSet(s) \cap S
         /\ Distinct(s) => Distinct(t)
         /\ ToSet(s) \subseteq S => t = s
<1> DEFINE N == Len(s)
           D == Seq(T)
           Op(x, i) == PickOne(s, S, i, x)
           F(f) == [i \in 0 .. N |-> IF i = 0 THEN << >> ELSE Op(f[i - 1], i)]
           g == [i \in 1 .. N |-> [x \in D |-> Op(x, i)]]
           h == Picking(s, S)
<1>1. N \in Nat /\ << >> \in D
  OBVIOUS
<1>2. \A i \in 1 .. N, x \in D : Op(x, i) \in D
  <2> SUFFICES ASSUME NEW i \in 1 .. N, NEW x \in D PROVE Op(x, i) \in D
    OBVIOUS
  <2>1. s[i] \in T /\ Append(x, s[i]) \in Seq(T)
    OBVIOUS
  <2> QED
    BY <2>1 DEF PickOne
<1>3. \A f : f = F(f) => h = F(h)
  BY DEF Picking, PickOne
<1>4. \A i \in 1 .. N, x \in D : Picked(s, S, i - 1, x) => Picked(s, S, i, Op(x, i))
  BY PickGoesOn
<1> HIDE DEF N, D, Op, h
<1>5. g \in [1 .. N -> [D -> D]] /\ \A i \in 1 .. N, x \in D : g[i][x] = Op(x, i)
  BY <1>2
<1> HIDE DEF g
<1>6. Follows(D, N, << >>, g, h) /\ \A i \in 0 .. N : h[i] \in D
  <2>1. ASSUME NEW f \in [0 .. N -> D], Follows(D, N, << >>, g, f) PROVE Follows(D, N, << >>, g, h)
    <3>1. \A i \in 1 .. N : f[i] = Op(f[i - 1], i)
      BY <1>1, <1>5, <2>1 DEF Follows
    <3>2. f = F(f)
      BY <1>1, <2>1, <3>1 DEF Follows
    <3>3. h = F(h)
      BY <1>3, <3>2
    <3>4. h[0] = << >> /\ \A i \in 1 .. N : h[i] = Op(h[i - 1], i)
      BY <1>1, <3>3
    <3> QED
      BY <1>5, <3>4 DEF Follows
  <2> QED
    BY <1>1, <1>5, <2>1, LoopIs
<1>7. h[0] = << >> /\ \A i \in 1 .. N : h[i] = Op(h[i - 1], i)
  BY <1>1, <1>5, <1>6 DEF Follows
<1> DEFINE E == [i \in 0 .. N |-> {t \in D : Picked(s, S, i, t)}]
<1>8. h[0] \in E[0] /\ \A i \in 1 .. N : h[i - 1] \in E[i - 1] => h[i] \in E[i]
  <2>1. Picked(s, S, 0, << >>)
    <3>1. ToSet(<< >>) = {} /\ Distinct(<< >>)
      BY DEF ToSet, Distinct
    <3> QED
      BY <3>1 DEF Picked
  <2>2. 0 \in 0 .. N /\ \A i \in 1 .. N : i - 1 \in 0 .. N /\ i \in 0 .. N
    BY <1>1
  <2> QED
    BY <1>1, <1>4, <1>6, <1>7, <2>1, <2>2
<1> HIDE DEF E
<1>9. \A i \in 0 .. N : h[i] \in E[i]
  BY <1>1, <1>8, LoopStays
<1> DEFINE t == h[N]
<1>10. t \in D /\ Picked(s, S, N, t)
  BY <1>1, <1>9 DEF E
<1>11. Only(s, S) = t
  BY OnlyRun DEF h, N
<1> HIDE DEF t
<1>12. ToSet(s) = {s[k] : k \in 1 .. N} /\ N = Len(s)
  BY DEF ToSet, N
<1>13. t \in Seq(T)
  BY <1>10 DEF D
<1>14. ToSet(s) \subseteq S => t = s
  <2> SUFFICES ASSUME ToSet(s) \subseteq S PROVE t = s
    OBVIOUS
  <2>1. Len(t) = N /\ \A k \in 1 .. N : t[k] = s[k]
    BY <1>10, <1>12 DEF Picked
  <2> QED
    BY <1>12, <1>13, <2>1
<1> QED
  BY <1>10, <1>11, <1>12, <1>13, <1>14 DEF Picked

-----------------------------------------------------------------------------
(* Hnsw: what a removal, a file and a new index of its rows leave. *)

(* A removal leaves links that fit, though some may lead to the hole. *)
LEMMA UnlinkedIs ==
  ASSUME Sound(nodes, entryIx, maxLvl), NEW ix \in Live(nodes)
  PROVE  LET ms == Unlinked(ix) IN
         /\ ms \in Seq(Nodes) /\ DOMAIN ms = DOMAIN nodes /\ Live(ms) = Live(nodes) \ {ix}
         /\ LayersFit(ms, maxLvl) /\ LinksFit(ms)
<1> DEFINE P == Nat \ {0}
           RowLeft(jx, l) == IF jx \in ToSet(LinksAt(nodes, ix, l - 1))
                           THEN Only(nodes[jx].layers[l], ToSet(nodes[jx].layers[l]) \ {ix})
                           ELSE nodes[jx].layers[l]
           layersLeft(jx) == [l \in DOMAIN nodes[jx].layers |-> RowLeft(jx, l)]
           Left(jx) == IF jx = ix THEN [nodes[jx] EXCEPT !.vector = Nil, !.layers = << >>]
                       ELSE [nodes[jx] EXCEPT !.layers = layersLeft(jx)]
           ms == [jx \in DOMAIN nodes |-> Left(jx)]
<1>1. /\ nodes \in Seq(Nodes) /\ LinksFit(nodes) /\ LayersFit(nodes, maxLvl)
      /\ Len(nodes) \in Nat /\ DOMAIN nodes = 1 .. Len(nodes) /\ ix \in DOMAIN nodes
  BY LiveNodes DEF Sound
<1>2. Unlinked(ix) = ms
  BY DEF Unlinked
<1>3. ASSUME NEW jx \in DOMAIN nodes, NEW l \in 1 .. Len(nodes[jx].layers)
      PROVE  RowLeft(jx, l) \in Seq(P) /\ ToSet(RowLeft(jx, l)) \subseteq DOMAIN nodes /\ Distinct(RowLeft(jx, l))
  <2> DEFINE old == nodes[jx].layers[l]
  <2>1. old \in Seq(P) /\ ToSet(old) \subseteq DOMAIN nodes /\ Distinct(old)
    BY <1>1, RowIs DEF LinksFit, Row
  <2> HIDE DEF old, P
  <2>2. /\ Only(old, ToSet(old) \ {ix}) \in Seq(P) /\ Distinct(Only(old, ToSet(old) \ {ix}))
        /\ ToSet(Only(old, ToSet(old) \ {ix})) \subseteq ToSet(old)
    BY <2>1, OnlyIs
  <2>3. RowLeft(jx, l) = old \/ RowLeft(jx, l) = Only(old, ToSet(old) \ {ix})
    BY DEF old
  <2> HIDE DEF RowLeft
  <2> QED
    BY <2>1, <2>2, <2>3
<1> HIDE DEF RowLeft
<1>4. ASSUME NEW jx \in DOMAIN nodes
      PROVE  /\ layersLeft(jx) \in Seq(Seq(P)) /\ Len(layersLeft(jx)) = Len(nodes[jx].layers)
             /\ \A l \in 1 .. Len(nodes[jx].layers) : layersLeft(jx)[l] = RowLeft(jx, l)
  <2> DEFINE n == Len(nodes[jx].layers)
             Q == Seq(P)
  <2>1. n \in Nat /\ DOMAIN nodes[jx].layers = 1 .. n
    BY <1>1, RowIs
  <2>2. \A l \in 1 .. n : RowLeft(jx, l) \in Q
    BY <1>3
  <2> HIDE DEF n, Q
  <2>3. [l \in 1 .. n |-> RowLeft(jx, l)] \in Seq(Q) /\ Len([l \in 1 .. n |-> RowLeft(jx, l)]) = n
    BY <2>1, <2>2
  <2>4. layersLeft(jx) = [l \in 1 .. n |-> RowLeft(jx, l)]
    BY <2>1
  <2> QED
    BY <2>3, <2>4 DEF n, Q
<1> HIDE DEF layersLeft
<1>5. ASSUME NEW jx \in DOMAIN nodes
      PROVE  /\ Left(jx) \in Nodes
             /\ jx = ix => Left(jx).vector = Nil /\ Left(jx).layers = << >>
             /\ jx # ix => Left(jx).vector = nodes[jx].vector /\ Left(jx).layers = layersLeft(jx)
  <2>1. nodes[jx] \in Nodes
    BY <1>1, LiveNodes
  <2>2. CASE jx = ix
    <3> DEFINE n == [nodes[jx] EXCEPT !.vector = Nil, !.layers = << >>]
    <3>1. << >> \in Seq(Seq(Nat \ {0}))
      OBVIOUS
    <3>2. n \in Nodes /\ n.vector = Nil /\ n.layers = << >>
      BY <2>1, <3>1 DEF Nodes
    <3>3. Left(jx) = n
      BY <2>2
    <3> HIDE DEF n, Left
    <3> QED
      BY <2>2, <3>2, <3>3
  <2>3. CASE jx # ix
    BY <1>4, <2>1, <2>3 DEF Nodes, P
  <2> QED
    BY <2>2, <2>3
<1> HIDE DEF Left
<1>6. ms \in Seq(Nodes) /\ DOMAIN ms = DOMAIN nodes /\ \A jx \in DOMAIN nodes : ms[jx] = Left(jx)
  <2> DEFINE n == Len(nodes)
  <2>1. n \in Nat /\ DOMAIN nodes = 1 .. n
    BY <1>1
  <2>2. ms \in [1 .. n -> Nodes]
    BY <1>5, <2>1
  <2>3. ms \in Seq(Nodes)
    BY <2>1, <2>2
  <2> QED
    BY <2>3
<1> HIDE DEF ms
<1>7. Live(ms) = Live(nodes) \ {ix}
  BY <1>5, <1>6 DEF Live
<1>8. ASSUME NEW jx \in DOMAIN nodes
      PROVE  IF jx \in Live(ms) THEN Len(ms[jx].layers) \in 1 .. maxLvl + 1 ELSE Len(ms[jx].layers) = 0
  <2>1. CASE jx = ix
    <3>1. Len(<< >>) = 0
      OBVIOUS
    <3> QED
      BY <1>5, <1>6, <1>7, <2>1, <3>1
  <2>2. CASE jx # ix
    <3>1. Len(ms[jx].layers) = Len(nodes[jx].layers)
      BY <1>4, <1>5, <1>6, <2>2
    <3> QED
      BY <1>1, <1>7, <2>2, <3>1 DEF LayersFit
  <2> QED
    BY <2>1, <2>2
<1>9. ASSUME NEW jx \in DOMAIN nodes, NEW l \in 1 .. Len(ms[jx].layers)
      PROVE  ToSet(Row(ms, jx, l)) \subseteq DOMAIN nodes /\ Distinct(Row(ms, jx, l))
  <2>1. CASE jx = ix
    <3>1. Len(<< >>) = 0
      OBVIOUS
    <3>2. Len(ms[jx].layers) = 0
      BY <1>5, <1>6, <2>1, <3>1
    <3> QED
      BY <3>2
  <2>2. CASE jx # ix
    <3>1. Len(ms[jx].layers) = Len(nodes[jx].layers) /\ ms[jx].layers = layersLeft(jx)
      BY <1>4, <1>5, <1>6, <2>2
    <3>2. Row(ms, jx, l) = RowLeft(jx, l)
      BY <1>4, <3>1 DEF Row
    <3> QED
      BY <1>3, <3>1, <3>2
  <2> QED
    BY <2>1, <2>2
<1> QED
  BY <1>2, <1>6, <1>7, <1>8, <1>9 DEF LayersFit, LinksFit

(* The file has the living nodes, in their order. *)
LEMMA SavedIs ==
  ASSUME Sound(nodes, entryIx, maxLvl)
  PROVE  /\ Saved \in Seq(Nodes) /\ Live(Saved) = DOMAIN Saved
         /\ ToSet(Saved) = {nodes[i] : i \in Live(nodes)}
         /\ Live(nodes) = DOMAIN nodes => Saved = nodes
<1> DEFINE S == {nodes[i] : i \in Live(nodes)}
<1>1. nodes \in Seq(Nodes) /\ Live(nodes) \subseteq DOMAIN nodes
  BY LiveNodes DEF Sound
<1>2. ToSet(nodes) = {nodes[i] : i \in DOMAIN nodes}
  BY DEF ToSet
<1>3. Saved = Only(nodes, S)
  BY DEF Saved
<1>4. S \subseteq ToSet(nodes) /\ (Live(nodes) = DOMAIN nodes => ToSet(nodes) \subseteq S)
  BY <1>1, <1>2
<1>5. \A n \in S : n.vector # Nil
  BY DEF Live
<1> HIDE DEF S
<1>6. /\ Saved \in Seq(Nodes) /\ ToSet(Saved) = ToSet(nodes) \cap S
      /\ ToSet(nodes) \subseteq S => Saved = nodes
  BY <1>1, <1>3, OnlyIs
<1>7. ToSet(Saved) = S
  BY <1>4, <1>6
<1>8. \A i \in DOMAIN Saved : Saved[i].vector # Nil
  BY <1>5, <1>7 DEF ToSet
<1>9. Live(Saved) = DOMAIN Saved
  BY <1>8 DEF Live
<1> QED
  BY <1>4, <1>6, <1>7, <1>9 DEF S

LEMMA VectorOfSaved ==
  ASSUME Sound(nodes, entryIx, maxLvl)
  PROVE  VectorOf(Saved) = VectorOf(nodes)
<1>1. Live(Saved) = DOMAIN Saved /\ ToSet(Saved) = {nodes[i] : i \in Live(nodes)}
  BY SavedIs
<1>2. ASSUME NEW e \in VectorOf(Saved) PROVE e \in VectorOf(nodes)
  <2>1. PICK i \in DOMAIN Saved : e = [id |-> Saved[i].id, vector |-> Saved[i].vector]
    BY <1>1 DEF VectorOf
  <2>2. Saved[i] \in {nodes[j] : j \in Live(nodes)}
    BY <1>1 DEF ToSet
  <2> QED
    BY <2>1, <2>2 DEF VectorOf
<1>3. ASSUME NEW e \in VectorOf(nodes) PROVE e \in VectorOf(Saved)
  <2>1. PICK j \in Live(nodes) : e = [id |-> nodes[j].id, vector |-> nodes[j].vector]
    BY DEF VectorOf
  <2>2. nodes[j] \in ToSet(Saved)
    BY <1>1
  <2>3. PICK i \in DOMAIN Saved : Saved[i] = nodes[j]
    BY <2>2 DEF ToSet
  <2> QED
    BY <1>1, <2>1, <2>3 DEF VectorOf
<1> QED
  BY <1>2, <1>3

LEMMA EmptyIsSound ==
  Sound(<< >>, 0, 0) /\ Live(<< >>) = {} /\ Joined(<< >>)
<1>1. << >> \in Seq(Nodes) /\ DOMAIN << >> = {}
  OBVIOUS
<1> QED
  BY <1>1 DEF Sound, LayersFit, LinksFit, Entered, Live, Joined

LEMMA LoadedIsSound ==
  ASSUME Sound(nodes, entryIx, maxLvl), Saved # << >>, Loads(Saved)
  PROVE  Sound(Saved, entryIx, maxLvl)
<1>1. Saved \in Seq(Nodes) /\ Live(Saved) = DOMAIN Saved /\ ToSet(Saved) = {nodes[i] : i \in Live(nodes)}
  BY SavedIs
<1>2. nodes \in Seq(Nodes) /\ Live(nodes) \subseteq DOMAIN nodes
  BY LiveNodes DEF Sound
<1>3. DOMAIN Saved = 1 .. Len(Saved)
  BY <1>1
<1>4. ASSUME NEW i \in DOMAIN Saved
      PROVE  /\ Len(Saved[i].layers) \in 1 .. maxLvl + 1
             /\ \A k \in 1 .. Len(Saved[i].layers) :
                  ToSet(Row(Saved, i, k)) \subseteq DOMAIN Saved /\ Distinct(Row(Saved, i, k))
  <2>1. PICK j \in Live(nodes) : Saved[i] = nodes[j]
    <3>1. Saved[i] \in ToSet(Saved)
      BY DEF ToSet
    <3> QED
      BY <1>1, <3>1
  <2>2. Len(Saved[i].layers) \in 1 .. maxLvl + 1
    BY <1>2, <2>1 DEF Sound, LayersFit
  <2>3. ASSUME NEW k \in 1 .. Len(Saved[i].layers)
        PROVE  ToSet(Row(Saved, i, k)) \subseteq DOMAIN Saved /\ Distinct(Row(Saved, i, k))
    <3>1. Distinct(Row(Saved, i, k))
      BY <1>2, <2>1 DEF Sound, LinksFit, Row
    <3>2. k \in DOMAIN Saved[i].layers
      BY <1>1, RowIs
    <3> QED
      BY <1>3, <3>1, <3>2 DEF Loads, Row
  <2> QED
    BY <2>2, <2>3
<1>5. LayersFit(Saved, maxLvl) /\ LinksFit(Saved)
  BY <1>1, <1>4 DEF LayersFit, LinksFit
<1>6. Entered(Saved, entryIx)
  BY <1>1, <1>3 DEF Loads, Entered
<1> QED
  BY <1>1, <1>5, <1>6 DEF Sound

(* An index that has no holes loads. *)
LEMMA WholeLoads ==
  ASSUME Sound(nodes, entryIx, maxLvl), Live(nodes) = DOMAIN nodes
  PROVE  Loads(nodes)
<1>1. nodes \in Seq(Nodes) /\ Len(nodes) \in Nat /\ DOMAIN nodes = 1 .. Len(nodes) /\ LinksFit(nodes)
  BY LiveNodes DEF Sound
<1>2. ASSUME nodes # << >> PROVE entryIx \in 1 .. Len(nodes)
  <2>1. Len(nodes) # 0
    BY <1>1, <1>2
  <2>2. 1 \in DOMAIN nodes
    <3>1. PICK n \in Nat : n = Len(nodes)
      BY <1>1
    <3>2. 1 \in 1 .. n
      BY <2>1, <3>1
    <3> QED
      BY <1>1, <3>1, <3>2
  <2> QED
    BY <1>1, <2>2 DEF Sound, Entered
<1>3. ASSUME NEW i \in DOMAIN nodes, NEW l \in DOMAIN nodes[i].layers
      PROVE  ToSet(nodes[i].layers[l]) \subseteq 1 .. Len(nodes) /\ Len(nodes[i].layers[l]) <= 4 * Len(nodes)
  <2> DEFINE r == nodes[i].layers[l]
             P == Nat \ {0}
             c == Cardinality(ToSet(r))
             m == Len(r)
             n == Len(nodes)
  <2>1. l \in 1 .. Len(nodes[i].layers)
    BY <1>1, RowIs
  <2>2. r \in Seq(P) /\ ToSet(r) \subseteq 1 .. n /\ Distinct(r)
    BY <1>1, <2>1, RowIs DEF LinksFit, Row
  <2> HIDE DEF r, P
  <2>3. c = m /\ m \in Nat
    BY <2>2, LengthOfDistinct
  <2>4. n \in Nat
    BY <1>1
  <2> HIDE DEF n, m
  <2>5. IsFiniteSet(1 .. n) /\ Cardinality(1 .. n) = n
    BY <2>4, FS_Interval
  <2>6. c <= n
    BY <2>2, <2>5, FS_Subset
  <2> HIDE DEF c
  <2>7. m <= 4 * n
    BY <2>3, <2>4, <2>6
  <2> QED
    BY <2>2, <2>7 DEF r, n, m
<1> QED
  BY <1>2, <1>3 DEF Loads

Building(recs, lvls) ==
  CHOOSE f : f = [i \in 0 .. Len(recs) |->
                    IF i = 0 THEN Empty ELSE Inserted(f[i - 1], recs[i].id, recs[i].vector, lvls[i])]

LEMMA RebuiltRun ==
  ASSUME NEW recs, NEW lvls
  PROVE  Rebuilt(recs, lvls) = Building(recs, lvls)[Len(recs)]
BY DEF Rebuilt, Building

(* The first n recs are in the index x, at their places. *)
Built(recs, n, x) ==
  /\ Sound(x.nodes, x.entry, x.top) /\ Len(x.nodes) = n
  /\ \A k \in 1 .. n : x.nodes[k].id = recs[k].id /\ x.nodes[k].vector = recs[k].vector

Indexes == [nodes : Seq(Nodes), entry : Nat, top : Levels \cup {0}]

LEMMA InsertedFits ==
  ASSUME NEW x, Sound(x.nodes, x.entry, x.top), NEW id \in Ids, NEW v \in Points, NEW lvl \in Levels
  PROVE  Inserted(x, id, v, lvl) \in Indexes
<1> DEFINE y == Inserted(x, id, v, lvl)
<1>1. Sound(y.nodes, y.entry, y.top)
  BY InsertedIs
<1>2. y = [nodes |-> y.nodes, entry |-> y.entry, top |-> y.top]
  BY DEF Inserted
<1> HIDE DEF y
<1>3. y.nodes \in Seq(Nodes) /\ y.top \in Levels \cup {0} /\ Entered(y.nodes, y.entry)
  BY <1>1 DEF Sound
<1>4. y.entry \in Nat
  BY <1>3, LiveNodes DEF Entered
<1>5. [nodes |-> y.nodes, entry |-> y.entry, top |-> y.top] \in Indexes
  BY <1>3, <1>4 DEF Indexes
<1>6. y \in Indexes
  BY <1>2, <1>5
<1> QED
  BY <1>6 DEF y

LEMMA BuildGoesOn ==
  ASSUME NEW recs \in Seq(Rows), NEW i \in 1 .. Len(recs), NEW lvl \in Levels,
         NEW x, Built(recs, i - 1, x)
  PROVE  Built(recs, i, Inserted(x, recs[i].id, recs[i].vector, lvl))
<1> DEFINE id == recs[i].id
           v == recs[i].vector
           y == Inserted(x, id, v, lvl)
<1>1. id \in Ids /\ v \in Points
  <2>1. recs[i] \in Rows
    OBVIOUS
  <2> QED
    BY <2>1 DEF Rows
<1>2. Sound(y.nodes, y.entry, y.top) /\ Grown(x.nodes, y.nodes, id, v)
  BY <1>1, InsertedIs DEF Built
<1> HIDE DEF y
<1>3. Len(y.nodes) = i
  BY <1>2 DEF Built, Grown
<1>4. DOMAIN x.nodes = 1 .. i - 1
  BY LiveNodes DEF Built, Sound
<1>5. ASSUME NEW k \in 1 .. i PROVE y.nodes[k].id = recs[k].id /\ y.nodes[k].vector = recs[k].vector
  <2>1. CASE k = i
    BY <1>2, <1>3, <2>1 DEF Grown
  <2>2. CASE k # i
    <3>1. k \in 1 .. i - 1
      BY <2>2
    <3> QED
      BY <1>2, <1>4, <3>1 DEF Built, Grown
  <2> QED
    BY <2>1, <2>2
<1> QED
  BY <1>2, <1>3, <1>5 DEF Built, y

(* Adding the rows one by one gives a sound index of their vectors, whatever the levels. *)
LEMMA RebuiltIs ==
  ASSUME NEW recs \in Seq(Rows), NEW lvls \in [DOMAIN recs -> Levels]
  PROVE  LET y == Rebuilt(recs, lvls) IN
         Sound(y.nodes, y.entry, y.top) /\ VectorOf(y.nodes) = ToSet(recs)
<1> DEFINE N == Len(recs)
           D == {x \in Indexes : Sound(x.nodes, x.entry, x.top)}
           b == Empty
           Op(x, i) == Inserted(x, recs[i].id, recs[i].vector, lvls[i])
           F(f) == [i \in 0 .. N |-> IF i = 0 THEN b ELSE Op(f[i - 1], i)]
           g == [i \in 1 .. N |-> [x \in D |-> Op(x, i)]]
           h == Building(recs, lvls)
<1>0. N \in Nat /\ DOMAIN recs = 1 .. N /\ \A i \in 1 .. N : recs[i] \in Rows
  OBVIOUS
<1>1. N \in Nat /\ b \in D
  <2>1. b = [nodes |-> << >>, entry |-> 0, top |-> 0] /\ b.nodes = << >> /\ b.entry = 0 /\ b.top = 0
    BY DEF Empty
  <2>2. b \in Indexes
    <3>1. << >> \in Seq(Nodes) /\ 0 \in Nat /\ 0 \in Levels \cup {0}
      OBVIOUS
    <3> QED
      BY <2>1, <3>1 DEF Indexes
  <2> HIDE DEF b
  <2> QED
    BY <1>0, <2>1, <2>2, EmptyIsSound
<1>2. \A i \in 1 .. N, x \in D : Op(x, i) \in D
  <2> SUFFICES ASSUME NEW i \in 1 .. N, NEW x \in D PROVE Op(x, i) \in D
    OBVIOUS
  <2>1. recs[i].id \in Ids /\ recs[i].vector \in Points /\ lvls[i] \in Levels
    BY <1>0 DEF Rows
  <2>2. LET y == Op(x, i) IN Sound(y.nodes, y.entry, y.top)
    BY <2>1, InsertedIs
  <2>3. Op(x, i) \in Indexes
    BY <2>1, InsertedFits
  <2> HIDE DEF Op
  <2> QED
    BY <2>2, <2>3
<1>3. \A f : f = F(f) => h = F(h)
  BY DEF Building
<1>4. \A i \in 1 .. N, x \in D : Built(recs, i - 1, x) => Built(recs, i, Op(x, i))
  <2> SUFFICES ASSUME NEW i \in 1 .. N, NEW x \in D, Built(recs, i - 1, x) PROVE Built(recs, i, Op(x, i))
    OBVIOUS
  <2>1. lvls[i] \in Levels
    BY <1>0
  <2> QED
    BY <2>1, BuildGoesOn
<1>4a. Built(recs, 0, b)
  <2>1. b.nodes = << >> /\ b.entry = 0 /\ b.top = 0
    BY DEF Empty
  <2>2. Len(<< >>) = 0
    OBVIOUS
  <2> HIDE DEF b
  <2> QED
    BY <2>1, <2>2, EmptyIsSound DEF Built
<1> HIDE DEF N, D, Op, h, b
<1>5. g \in [1 .. N -> [D -> D]] /\ \A i \in 1 .. N, x \in D : g[i][x] = Op(x, i)
  BY <1>2
<1> HIDE DEF g
<1>6. Follows(D, N, b, g, h) /\ \A i \in 0 .. N : h[i] \in D
  <2>1. ASSUME NEW f \in [0 .. N -> D], Follows(D, N, b, g, f) PROVE Follows(D, N, b, g, h)
    <3>1. \A i \in 1 .. N : f[i] = Op(f[i - 1], i)
      BY <1>1, <1>5, <2>1 DEF Follows
    <3>2. f = F(f)
      BY <1>1, <2>1, <3>1 DEF Follows
    <3>3. h = F(h)
      BY <1>3, <3>2
    <3>4. h[0] = b /\ \A i \in 1 .. N : h[i] = Op(h[i - 1], i)
      BY <1>1, <3>3
    <3> QED
      BY <1>5, <3>4 DEF Follows
  <2> QED
    BY <1>1, <1>5, <2>1, LoopIs
<1>7. h[0] = b /\ \A i \in 1 .. N : h[i] = Op(h[i - 1], i)
  BY <1>1, <1>5, <1>6 DEF Follows
<1> DEFINE E == [i \in 0 .. N |-> {x \in D : Built(recs, i, x)}]
<1>8. h[0] \in E[0] /\ \A i \in 1 .. N : h[i - 1] \in E[i - 1] => h[i] \in E[i]
  <2>1. 0 \in 0 .. N /\ \A i \in 1 .. N : i - 1 \in 0 .. N /\ i \in 0 .. N
    BY <1>1
  <2> QED
    BY <1>1, <1>4, <1>4a, <1>6, <1>7, <2>1
<1> HIDE DEF E
<1>9. \A i \in 0 .. N : h[i] \in E[i]
  BY <1>1, <1>8, LoopStays
<1> DEFINE y == h[N]
<1>10. Built(recs, N, y)
  BY <1>1, <1>9 DEF E
<1>11. Rebuilt(recs, lvls) = y
  BY RebuiltRun DEF h, N
<1> HIDE DEF y
<1> DEFINE ms == y.nodes
<1>12. /\ ms \in Seq(Nodes) /\ DOMAIN ms = DOMAIN recs
       /\ \A k \in DOMAIN recs : ms[k].id = recs[k].id /\ ms[k].vector = recs[k].vector
  BY <1>0, <1>10, LiveNodes DEF Built, Sound
<1> HIDE DEF ms
<1>13. \A k \in DOMAIN recs : recs[k].vector # Nil /\ recs[k] = [id |-> recs[k].id, vector |-> recs[k].vector]
  BY <1>0, HnswAssumption DEF Rows
<1>14. VectorOf(ms) = ToSet(recs)
  <2>1. Live(ms) = DOMAIN recs
    BY <1>12, <1>13 DEF Live
  <2>2. \A k \in DOMAIN recs : recs[k] = [id |-> ms[k].id, vector |-> ms[k].vector]
    BY <1>12, <1>13
  <2>3. ToSet(recs) = {recs[k] : k \in DOMAIN recs}
    BY DEF ToSet
  <2> QED
    BY <2>1, <2>2, <2>3 DEF VectorOf
<1> QED
  BY <1>10, <1>11, <1>14 DEF Built, ms

-----------------------------------------------------------------------------
(* Hnsw: the invariant.  The index is sound, and while nothing was cut all of it is
   joined. *)

HnswInv ==
  /\ Sound(nodes, entryIx, maxLvl)
  /\ added \in Ids \cup {0} /\ removed \in 0 .. MaxRemoved /\ restarts \in 0 .. MaxRestarts
  /\ read \subseteq Rows /\ cut \in BOOLEAN /\ (cut \/ Joined(nodes))

LEMMA IndexOfIs ==
  ASSUME NEW id \in LiveIds(nodes)
  PROVE  IndexOf(id) \in Live(nodes) /\ nodes[IndexOf(id)].id = id
<1>1. \E ix \in Live(nodes) : nodes[ix].id = id
  BY DEF LiveIds
<1> QED
  BY <1>1 DEF IndexOf

LEMMA IdsAreNumbers ==
  Ids \subseteq Nat /\ \A id \in Ids : \A n \in Ids \cup {0} : Max({n, id}) \in Ids
<1>1. Cardinality(Ids) \in Nat /\ Ids = 1 .. Cardinality(Ids)
  BY HnswAssumption, FS_CardinalityType
<1> DEFINE c == Cardinality(Ids)
<1>2. c \in Nat /\ Ids = 1 .. c
  BY <1>1
<1> HIDE DEF c
<1>3. Ids \subseteq Nat
  BY <1>2
<1> SUFFICES ASSUME NEW id \in Ids, NEW n \in Ids \cup {0} PROVE Max({n, id}) \in Ids
  BY <1>3
<1>4. id \in Nat /\ n \in Nat /\ 1 <= id
  BY <1>2
<1>5. Max({n, id}) = IF n >= id THEN n ELSE id
  BY <1>4, LargerOfTwo
<1>6. n >= id => n \in Ids
  BY <1>4
<1> QED
  BY <1>5, <1>6

LEMMA HnswInvFirst == HnswInit => HnswInv
<1> SUFFICES ASSUME HnswInit PROVE HnswInv
  OBVIOUS
<1>1. nodes = << >> /\ entryIx = 0 /\ maxLvl = 0
  BY DEF HnswInit
<1>2. Sound(nodes, entryIx, maxLvl) /\ Joined(nodes)
  BY <1>1, EmptyIsSound
<1>3. MaxRemoved \in Nat /\ MaxRestarts \in Nat
  BY HnswAssumption
<1>4. added = 0 /\ removed = 0 /\ restarts = 0 /\ read = {} /\ cut = FALSE
  BY DEF HnswInit
<1>5. added \in Ids \cup {0} /\ removed \in 0 .. MaxRemoved /\ restarts \in 0 .. MaxRestarts
  BY <1>3, <1>4
<1>6. read \subseteq Rows /\ cut \in BOOLEAN
  BY <1>4
<1> QED
  BY <1>2, <1>5, <1>6, Zenon DEF HnswInv

LEMMA AddKeepsTheInv ==
  ASSUME HnswInv, NEW id \in Ids, NEW lvl \in Levels, NEW v \in VectorsOf[id], Add(id, v, lvl)
  PROVE  HnswInv'
<1> DEFINE x == [nodes |-> nodes, entry |-> entryIx, top |-> maxLvl]
<1>1. v \in Points
  BY HnswAssumption
<1>2. PICK ns, ns2 : ns = nodes /\ ns2 = nodes'
  OBVIOUS
<1>3. PICK y : y = Inserted(x, id, v, lvl)
  OBVIOUS
<1>4. nodes' = y.nodes /\ entryIx' = y.entry /\ maxLvl' = y.top
  BY <1>3 DEF Add, Becomes
<1>5. x.nodes = nodes /\ x.entry = entryIx /\ x.top = maxLvl
  OBVIOUS
<1>6. Sound(x.nodes, x.entry, x.top)
  BY <1>5 DEF HnswInv
<1> HIDE DEF x
<1>7. /\ Sound(y.nodes, y.entry, y.top)
      /\ Joined(x.nodes) /\ KeptLinks(x.nodes, y.nodes) => Joined(y.nodes)
  BY <1>1, <1>3, <1>6, InsertedIs
<1>8. Sound(nodes, entryIx, maxLvl)'
  BY <1>4, <1>7
<1>9. ASSUME ~cut, ~LinkDropped PROVE Joined(nodes)'
  <2>1. Joined(ns)
    BY <1>2, <1>9 DEF HnswInv
  <2>2. KeptLinks(ns, ns2)
    <3> SUFFICES ASSUME NEW i \in DOMAIN ns PROVE ToSet(Row(ns, i, 1)) \subseteq ToSet(Row(ns2, i, 1))
      BY DEF KeptLinks
    <3>1. ns \in Seq(Nodes) /\ i \in Live(ns)
      BY <1>2, <2>1 DEF HnswInv, Sound, Joined
    <3>2. Len(ns[i].layers) \in 1 .. maxLvl + 1
      BY <1>2, <3>1 DEF HnswInv, Sound, LayersFit
    <3>3. 1 \in DOMAIN ns[i].layers
      BY <3>1, <3>2, RowIs
    <3> QED
      BY <1>2, <1>9, <3>3 DEF LinkDropped, Row
  <2>3. Joined(y.nodes)
    BY <1>2, <1>4, <1>5, <1>7, <2>1, <2>2
  <2> QED
    BY <1>4, <2>3
<1>10. added' \in Ids \cup {0}
  BY IdsAreNumbers DEF Add, HnswInv
<1>11. removed' = removed /\ restarts' = restarts /\ read' = read /\ cut' = (cut \/ LinkDropped)
  BY DEF Add
<1>12. cut' \in BOOLEAN /\ (cut' \/ Joined(nodes)')
  BY <1>9, <1>11
<1> QED
  BY <1>8, <1>10, <1>11, <1>12 DEF HnswInv

LEMMA ReplaceKeepsTheInv ==
  ASSUME HnswInv, NEW id \in Ids, NEW v \in VectorsOf[id], Replace(id, v)
  PROVE  HnswInv'
<1> DEFINE ix == IndexOf(id)
           n == [nodes[ix] EXCEPT !.vector = v]
           ms == [nodes EXCEPT ![ix] = n]
<1>1. v \in Points /\ v # Nil
  BY HnswAssumption
<1>2. ix \in Live(nodes)
  BY IndexOfIs DEF Replace
<1>3. nodes \in Seq(Nodes) /\ ix \in DOMAIN nodes /\ nodes[ix] \in Nodes
  BY <1>2, LiveNodes DEF HnswInv, Sound
<1>4. nodes' = ms
  BY DEF Replace
<1> HIDE DEF ix
<1>5. n \in Nodes /\ n.vector = v /\ n.layers = nodes[ix].layers
  BY <1>1, <1>3 DEF Nodes
<1> HIDE DEF n
<1>6. /\ ms \in Seq(Nodes) /\ DOMAIN ms = DOMAIN nodes /\ ms[ix] = n
      /\ \A i \in DOMAIN nodes : i # ix => ms[i] = nodes[i]
  BY <1>3, <1>5
<1> HIDE DEF ms
<1>7. Live(ms) = Live(nodes) /\ \A i \in DOMAIN nodes : ms[i].layers = nodes[i].layers
  BY <1>1, <1>2, <1>5, <1>6 DEF Live
<1>8. LayersFit(ms, maxLvl) /\ LinksFit(ms) /\ Entered(ms, entryIx)
  BY <1>6, <1>7 DEF HnswInv, Sound, LayersFit, LinksFit, Entered, Row
<1>9. Sound(ms, entryIx, maxLvl)
  BY <1>6, <1>8 DEF HnswInv, Sound
<1>10. /\ maxLvl' = maxLvl /\ entryIx' = entryIx /\ added' = added /\ removed' = removed
       /\ restarts' = restarts /\ read' = read /\ cut' = TRUE
  BY DEF Replace
<1>11. Sound(nodes, entryIx, maxLvl)'
  BY <1>4, <1>9, <1>10
<1> QED
  BY <1>10, <1>11 DEF HnswInv

LEMMA RemoveKeepsTheInv ==
  ASSUME HnswInv, NEW id \in Ids, RemoveVector(id)
  PROVE  HnswInv'
<1> DEFINE ix == IndexOf(id)
           ms == Unlinked(ix)
<1>1. ix \in Live(nodes)
  BY IndexOfIs DEF RemoveVector
<1>2. /\ ms \in Seq(Nodes) /\ DOMAIN ms = DOMAIN nodes /\ Live(ms) = Live(nodes) \ {ix}
      /\ LayersFit(ms, maxLvl) /\ LinksFit(ms)
  BY <1>1, UnlinkedIs DEF HnswInv
<1>3. nodes' = ms
  BY DEF RemoveVector
<1>4. entryIx' = IF ix # entryIx THEN entryIx ELSE IF Live(nodes') = {} THEN 0 ELSE Min(Live(nodes'))
  BY DEF RemoveVector, EntryWithout
<1> HIDE DEF ix, ms
<1>5. Live(nodes') = Live(ms)
  BY <1>3
<1>6. entryIx \in Live(nodes)
  BY <1>1 DEF HnswInv, Sound, Entered
<1>7. Entered(ms, entryIx')
  <2>1. Live(ms) # {} => Min(Live(ms)) \in Live(ms)
    <3>1. Live(ms) \in SUBSET Nat
      BY <1>2, LiveNodes
    <3> QED
      BY <3>1, MinIsLeast
  <2> QED
    BY <1>1, <1>2, <1>4, <1>5, <1>6, <2>1 DEF Entered
<1>8. Sound(ms, entryIx', maxLvl)
  BY <1>2, <1>7 DEF HnswInv, Sound
<1>9. /\ maxLvl' = maxLvl /\ added' = added /\ removed < MaxRemoved /\ removed' = removed + 1
      /\ restarts' = restarts /\ read' = read /\ cut' = TRUE
  BY DEF RemoveVector
<1>10. Sound(nodes, entryIx, maxLvl)'
  BY <1>3, <1>8, <1>9
<1>11. removed' \in 0 .. MaxRemoved
  BY <1>9, HnswAssumption DEF HnswInv
<1> QED
  BY <1>9, <1>10, <1>11 DEF HnswInv

LEMMA RestartKeepsTheInv ==
  ASSUME HnswInv, Restart
  PROVE  HnswInv' /\ VectorOf(nodes') \in {VectorOf(nodes), read'}
         /\ (Live(nodes) = DOMAIN nodes => nodes' = nodes /\ entryIx' = entryIx)
<1>1. Sound(nodes, entryIx, maxLvl)
  BY DEF HnswInv
<1>2. /\ Saved \in Seq(Nodes) /\ Live(Saved) = DOMAIN Saved
      /\ Live(nodes) = DOMAIN nodes => Saved = nodes
  BY <1>1, SavedIs
<1>3. VectorOf(Saved) = VectorOf(nodes)
  BY <1>1, VectorOfSaved
<1>4. Live(nodes) = DOMAIN nodes => Loads(Saved)
  BY <1>1, <1>2, WholeLoads
<1>5. restarts < MaxRestarts /\ restarts' = restarts + 1 /\ added' = added /\ removed' = removed
  BY DEF Restart
<1>6. restarts' \in 0 .. MaxRestarts
  BY <1>5, HnswAssumption DEF HnswInv
<1>7. ASSUME Sound(nodes, entryIx, maxLvl)', read' \subseteq Rows, cut' \in BOOLEAN, cut' \/ Joined(nodes)' PROVE HnswInv'
  BY <1>5, <1>6, <1>7 DEF HnswInv
<1>8. CASE Loads(Saved) /\ Saved # << >>
  <2>1. nodes' = Saved /\ entryIx' = entryIx /\ maxLvl' = maxLvl /\ cut' = (cut /\ Saved # << >>)
       /\ read' = read
    BY <1>8 DEF Restart, LoadFile, RebuildIndex, Becomes
  <2>2. Sound(Saved, entryIx, maxLvl)
    BY <1>1, <1>8, LoadedIsSound
  <2>3. Sound(nodes, entryIx, maxLvl)'
    BY <2>1, <2>2
  <2>4. cut' = cut
    BY <1>8, <2>1 DEF HnswInv
  <2>5. cut' \/ Joined(nodes)'
    <3> SUFFICES ASSUME ~cut PROVE Joined(nodes)'
      BY <2>4
    <3>1. Joined(nodes)
      BY DEF HnswInv
    <3>2. Joined(Saved)
      BY <1>2, <3>1 DEF Joined
    <3> QED
      BY <2>1, <3>2
  <2>6. HnswInv'
    BY <1>7, <2>1, <2>3, <2>4, <2>5 DEF HnswInv
  <2>7. VectorOf(nodes') = VectorOf(nodes)
    BY <1>3, <2>1
  <2> QED
    BY <1>2, <2>1, <2>6, <2>7
<1>9. CASE Loads(Saved) /\ Saved = << >>
  <2>1. nodes' = << >> /\ entryIx' = 0 /\ maxLvl' = 0 /\ cut' = FALSE /\ read' = read
    <3>1. Becomes(Empty) /\ cut' = FALSE /\ read' = read
      BY <1>9 DEF Restart, LoadFile, RebuildIndex
    <3> QED
      BY <3>1 DEF Becomes, Empty
  <2>2. Sound(nodes, entryIx, maxLvl)' /\ Joined(nodes)'
    BY <2>1, EmptyIsSound
  <2>3. HnswInv'
    BY <1>7, <2>1, <2>2 DEF HnswInv
  <2>4. VectorOf(nodes') = VectorOf(nodes)
    BY <1>3, <1>9, <2>1
  <2>5. ASSUME Live(nodes) = DOMAIN nodes PROVE nodes' = nodes /\ entryIx' = entryIx
    <3>1. nodes = << >>
      BY <1>2, <1>9, <2>5
    <3>2. entryIx = 0
      BY <1>1, <3>1, EmptyIsSound DEF Sound, Entered
    <3> QED
      BY <2>1, <3>1, <3>2
  <2> QED
    BY <2>3, <2>4, <2>5
<1>10. CASE ~Loads(Saved)
  <2>0. PICK table \in Tables :
          /\ \E lvls \in [DOMAIN table -> Levels] : Becomes(Rebuilt(table, lvls))
          /\ read' = ToSet(table) /\ cut' = TRUE
    BY <1>10 DEF Restart, LoadFile, RebuildIndex
  <2>1. PICK lvls \in [DOMAIN table -> Levels] : Becomes(Rebuilt(table, lvls))
    BY <2>0
  <2>2. PICK y : y = Rebuilt(table, lvls)
    OBVIOUS
  <2>3. table \in Seq(Rows)
    BY HnswAssumption
  <2>4. Sound(y.nodes, y.entry, y.top) /\ VectorOf(y.nodes) = ToSet(table)
    BY <2>2, <2>3, RebuiltIs
  <2>5. nodes' = y.nodes /\ entryIx' = y.entry /\ maxLvl' = y.top
    BY <2>1, <2>2 DEF Becomes
  <2>6. Sound(nodes, entryIx, maxLvl)'
    BY <2>4, <2>5
  <2>7. read' \subseteq Rows
    BY <2>0, <2>3 DEF ToSet
  <2>8. HnswInv'
    BY <1>7, <2>0, <2>6, <2>7
  <2>9. VectorOf(nodes') = read'
    BY <2>0, <2>4, <2>5
  <2> QED
    BY <1>4, <1>10, <2>8, <2>9
<1> QED
  BY <1>8, <1>9, <1>10

LEMMA HnswInvStep == HnswInv /\ [HnswNext]_hnswVars => HnswInv'
<1> SUFFICES ASSUME HnswInv, [HnswNext]_hnswVars PROVE HnswInv'
  OBVIOUS
<1>1. CASE \E id \in Ids : \E v \in VectorsOf[id] : Replace(id, v)
  BY <1>1, ReplaceKeepsTheInv
<1>2. CASE \E id \in Ids : \E v \in VectorsOf[id] : \E lvl \in Levels : Add(id, v, lvl)
  BY <1>2, AddKeepsTheInv
<1>3. CASE \E id \in Ids : RemoveVector(id)
  BY <1>3, RemoveKeepsTheInv
<1>4. CASE Restart
  BY <1>4, RestartKeepsTheInv
<1>5. CASE UNCHANGED hnswVars
  <2>1. /\ nodes' = nodes /\ maxLvl' = maxLvl /\ entryIx' = entryIx /\ added' = added
        /\ removed' = removed /\ restarts' = restarts /\ read' = read /\ cut' = cut
    BY <1>5 DEF hnswVars
  <2>2. Sound(nodes, entryIx, maxLvl)' <=> Sound(nodes, entryIx, maxLvl)
    BY <2>1
  <2>3. Joined(nodes)' <=> Joined(nodes)
    BY <2>1
  <2> QED
    BY <2>1, <2>2, <2>3 DEF HnswInv
<1> QED
  BY <1>1, <1>2, <1>3, <1>4, <1>5 DEF HnswNext

-----------------------------------------------------------------------------
(* Hnsw: a search that has room for every live node as a result drops none, and so all
   that it meets and that lives is a result. *)

Full(ns, s) == s \in States(Live(ns)) /\ s.results = s.visited \cap Live(ns) /\ s.open \subseteq s.results

Roomy(ns, ef) == ef \in Nat /\ Cardinality(Live(ns)) <= ef

(* t comes of s by meeting nodes: what was closed is what is closed. *)
MeetsMore(ns, s, t) ==
  /\ Full(ns, t) /\ s.visited \subseteq t.visited
  /\ t.results \ t.open = s.results \ s.open

LEMMA RoomForOne ==
  ASSUME NEW ns \in Seq(Nodes), NEW ef, Roomy(ns, ef), NEW R \in SUBSET Live(ns), NEW ix \in Live(ns) \ R
  PROVE  Cardinality(R) < ef
<1> DEFINE L == Live(ns)
           a == Cardinality(R)
           b == Cardinality(L)
<1>1. IsFiniteSet(L) /\ R \subseteq L
  BY LiveNodes
<1>2. a <= b /\ a \in Nat /\ b \in Nat
  BY <1>1, FS_Subset, FS_CardinalityType
<1>3. a # b
  <2>1. R # L
    OBVIOUS
  <2> HIDE DEF L
  <2> QED
    BY <1>1, <2>1, FS_Subset
<1>4. ef \in Nat /\ b <= ef
  BY DEF Roomy
<1> HIDE DEF a, b
<1>5. a < ef
  BY <1>2, <1>3, <1>4
<1> QED
  BY <1>5 DEF a

LEMMA MeetAdds ==
  ASSUME NEW ns \in Seq(Nodes), NEW v, NEW ef, Roomy(ns, ef), NEW s, Full(ns, s), NEW ix
  PROVE  LET t == Meet(ns, v, ef, s, ix) IN
         MeetsMore(ns, s, t) /\ (ix \in DOMAIN ns => ix \in t.visited)
<1> DEFINE t == Meet(ns, v, ef, s, ix)
<1>1. t \in States(Live(ns))
  BY MeetFits DEF Full
<1>2. CASE ~IsNew(ns, s, ix)
  <2>1. t = s
    BY <1>2, MeetCases
  <2> QED
    BY <1>2, <2>1 DEF MeetsMore, IsNew
<1>3. CASE IsNew(ns, s, ix) /\ ix \in Live(ns)
  <2>1. ix \notin s.results /\ s.results \in SUBSET Live(ns)
    BY <1>3 DEF Full, IsNew
  <2>2. Cardinality(s.results) < ef
    BY <1>3, <2>1, RoomForOne
  <2>3. Counts(ns, v, ef, s, ix) /\ Kept(ns, v, ef, s) = s.results
    BY <1>3, <2>2 DEF Counts, Kept, Live
  <2>4. t = [visited |-> s.visited \cup {ix}, open |-> s.open \cup {ix}, results |-> s.results \cup {ix}]
    BY <1>3, <2>3, MeetCases
  <2>5. /\ t.visited = s.visited \cup {ix} /\ t.open = s.open \cup {ix} /\ t.results = s.results \cup {ix}
    BY <2>4
  <2> HIDE DEF t
  <2>6. MeetsMore(ns, s, t) /\ ix \in t.visited
    BY <1>1, <1>3, <2>1, <2>5 DEF MeetsMore, Full
  <2> QED
    BY <2>6 DEF t
<1>4. CASE IsNew(ns, s, ix) /\ ix \notin Live(ns)
  <2>1. ~Counts(ns, v, ef, s, ix)
    BY <1>4 DEF Counts, Live, IsNew
  <2>2. t = [s EXCEPT !.visited = @ \cup {ix}]
    BY <1>4, <2>1, MeetCases
  <2>3. t.visited = s.visited \cup {ix} /\ t.open = s.open /\ t.results = s.results
    BY <2>2 DEF Full, States
  <2> HIDE DEF t
  <2>4. MeetsMore(ns, s, t) /\ ix \in t.visited
    BY <1>1, <1>4, <2>3 DEF MeetsMore, Full
  <2> QED
    BY <2>4 DEF t
<1> QED
  BY <1>2, <1>3, <1>4

LEMMA MeetAllAdds ==
  ASSUME NEW ns \in Seq(Nodes), NEW v, NEW ef, Roomy(ns, ef), NEW s, Full(ns, s), NEW links \in Seq(Nat)
  PROVE  LET t == MeetAll(ns, v, ef, s, links) IN
         MeetsMore(ns, s, t) /\ ToSet(links) \cap DOMAIN ns \subseteq t.visited
<1> DEFINE N == Len(links)
           h == Met(ns, v, ef, s, links)
           After(t, i) == MeetsMore(ns, s, t) /\ \A k \in 1 .. i : links[k] \in DOMAIN ns => links[k] \in t.visited
           E == [i \in 0 .. N |-> {t \in States(Live(ns)) : After(t, i)}]
<1>1. N \in Nat
  OBVIOUS
<1>2. h[0] = s /\ \A i \in 1 .. N : h[i] = Meet(ns, v, ef, h[i - 1], links[i])
  <2>1. s \in States(Live(ns)) /\ ToSet(links) \cap Live(ns) \subseteq Live(ns)
    BY DEF Full
  <2>2. OneByOne(ns, v, ef, Live(ns), s, links, h)
    BY <2>1, MetIs
  <2> HIDE DEF h
  <2> QED
    BY <2>2 DEF OneByOne
<1> HIDE DEF h, N
<1>3. After(h[0], 0)
  BY <1>2 DEF MeetsMore
<1>4. ASSUME NEW i \in 1 .. N, After(h[i - 1], i - 1) PROVE After(h[i], i)
  <2>1. Full(ns, h[i - 1])
    BY <1>4 DEF MeetsMore
  <2>2. MeetsMore(ns, h[i - 1], h[i]) /\ (links[i] \in DOMAIN ns => links[i] \in h[i].visited)
    BY <1>2, <2>1, MeetAdds
  <2>3. MeetsMore(ns, s, h[i])
    BY <1>4, <2>2 DEF MeetsMore
  <2>4. \A k \in 1 .. i : k = i \/ k \in 1 .. i - 1
    OBVIOUS
  <2>5. \A k \in 1 .. i : links[k] \in DOMAIN ns => links[k] \in h[i].visited
    BY <1>4, <2>2, <2>4 DEF MeetsMore
  <2> QED
    BY <2>3, <2>5
<1>5. \A t, i : After(t, i) => t \in States(Live(ns))
  BY DEF MeetsMore, Full
<1> HIDE DEF After
<1>6. h[0] \in E[0] /\ \A i \in 1 .. N : h[i - 1] \in E[i - 1] => h[i] \in E[i]
  <2>1. 0 \in 0 .. N /\ \A i \in 1 .. N : i - 1 \in 0 .. N /\ i \in 0 .. N
    BY <1>1
  <2> QED
    BY <1>3, <1>4, <1>5, <2>1
<1> HIDE DEF E
<1>7. \A i \in 0 .. N : h[i] \in E[i]
  BY <1>1, <1>6, LoopStays
<1>8. After(h[N], N)
  BY <1>1, <1>7 DEF E
<1>9. MeetAll(ns, v, ef, s, links) = h[N]
  BY MeetAllIs DEF h, N
<1> DEFINE t == h[N]
<1> HIDE DEF t
<1>10. MeetsMore(ns, s, t) /\ \A k \in 1 .. N : links[k] \in DOMAIN ns => links[k] \in t.visited
  BY <1>8 DEF After, t
<1>11. ToSet(links) = {links[k] : k \in 1 .. N}
  BY DEF ToSet, N
<1> QED
  BY <1>9, <1>10, <1>11 DEF t

(* After i rounds: the links of what is closed lead to results, and i nodes are closed
   unless nothing is open. *)
Exact(ns, l, s, i) ==
  /\ Full(ns, s)
  /\ \A j \in s.results \ s.open : ToSet(LinksAt(ns, j, l)) \cap Live(ns) \subseteq s.results
  /\ s.open = {} \/ Cardinality(s.results \ s.open) >= i

LEMMA ExpandIsExact ==
  ASSUME NEW ns \in Seq(Nodes), NEW v \in Points, NEW ef, Roomy(ns, ef), NEW l \in Nat,
         NEW i \in Nat \ {0}, NEW s, Exact(ns, l, s, i - 1)
  PROVE  Exact(ns, l, Expand(ns, v, ef, l, s), i)
<1> DEFINE L == Live(ns)
           c == Closest(ns, v, s.open)
           u == [s EXCEPT !.open = @ \ {c}]
           t == MeetAll(ns, v, ef, u, LinksAt(ns, c, l))
           w == [s EXCEPT !.open = {}]
<1>1. Full(ns, s) /\ s \in States(L) /\ s.results \subseteq L /\ s.open \subseteq s.results /\ IsFiniteSet(L)
  BY LiveNodes DEF Exact, Full
<1>2. CASE s.open = {}
  <2>1. Expand(ns, v, ef, l, s) = s
    BY <1>2 DEF Expand
  <2> QED
    BY <1>2, <2>1 DEF Exact
<1>3. CASE s.open # {} /\ Cardinality(s.results) >= ef /\ Expand(ns, v, ef, l, s) = w
  <2>1. s.results = L
    <3> DEFINE R == s.results
               a == Cardinality(R)
               b == Cardinality(L)
    <3>1. R \subseteq L
      BY <1>1
    <3> HIDE DEF R, L
    <3>2. a <= b /\ (a = b => R = L) /\ a \in Nat /\ b \in Nat
      BY <1>1, <3>1, FS_Subset, FS_CardinalityType
    <3>3. ef \in Nat /\ b <= ef /\ a >= ef
      BY <1>3 DEF Roomy, R, L
    <3> HIDE DEF a, b
    <3>4. a = b
      BY <3>2, <3>3
    <3> QED
      BY <3>2, <3>4 DEF R
  <2>2. w \in States(L) /\ w.open = {} /\ w.results = L /\ w.visited = s.visited
    BY <1>1, <2>1 DEF States
  <2> HIDE DEF w
  <2>3. Full(ns, w)
    BY <1>1, <2>1, <2>2 DEF Full
  <2> QED
    BY <1>3, <2>2, <2>3 DEF Exact
<1>4. CASE s.open # {} /\ Expand(ns, v, ef, l, s) = t
  <2>1. /\ c \in s.open /\ c \in DOMAIN ns /\ c \in L /\ LinksAt(ns, c, l) \in Seq(Nat)
        /\ u \in States(L)
    BY <1>1, <1>4, AllAreClosed, ClosestOpen
  <2>2. u.visited = s.visited /\ u.open = s.open \ {c} /\ u.results = s.results
    BY <1>1 DEF States
  <2> HIDE DEF c, u
  <2>3. Full(ns, u)
    BY <1>1, <2>1, <2>2 DEF Full
  <2>4. MeetsMore(ns, u, t) /\ ToSet(LinksAt(ns, c, l)) \cap DOMAIN ns \subseteq t.visited
    BY <2>1, <2>3, MeetAllAdds
  <2> HIDE DEF t
  <2>5. t.results \ t.open = (s.results \ s.open) \cup {c} /\ c \notin s.results \ s.open
    BY <1>1, <2>1, <2>2, <2>4 DEF MeetsMore
  <2>6. Full(ns, t) /\ s.results \subseteq t.results
    BY <1>1, <2>2, <2>4 DEF MeetsMore, Full
  <2>7. ASSUME NEW j \in t.results \ t.open PROVE ToSet(LinksAt(ns, j, l)) \cap L \subseteq t.results
    <3>1. CASE j = c
      BY <2>1, <2>4, <2>6, <3>1, LiveNodes DEF Full
    <3>2. CASE j # c
      <4>1. j \in s.results \ s.open
        BY <2>5, <3>2
      <4> QED
        BY <2>6, <4>1 DEF Exact
    <3> QED
      BY <3>1, <3>2
  <2>8. Cardinality(t.results \ t.open) >= i
    <3> DEFINE C == s.results \ s.open
               a == Cardinality(C)
    <3>1. IsFiniteSet(C)
      BY <1>1, FS_Subset
    <3>2. a >= i - 1
      BY <1>4 DEF Exact
    <3> HIDE DEF C
    <3>3. Cardinality(C \cup {c}) = a + 1 /\ a \in Nat
      BY <2>5, <3>1, FS_AddElement, FS_CardinalityType DEF C
    <3> HIDE DEF a
    <3>4. a + 1 >= i
      BY <3>2, <3>3
    <3> QED
      BY <2>5, <3>3, <3>4 DEF C
  <2> QED
    BY <1>4, <2>6, <2>7, <2>8 DEF Exact
<1>5. \/ s.open = {}
      \/ s.open # {} /\ Cardinality(s.results) >= ef /\ Expand(ns, v, ef, l, s) = w
      \/ s.open # {} /\ Expand(ns, v, ef, l, s) = t
  BY Zenon DEF Expand
<1> QED
  BY <1>2, <1>3, <1>4, <1>5

LEMMA ExpandVisits ==
  ASSUME NEW ns \in Seq(Nodes), NEW v \in Points, NEW ef, Roomy(ns, ef), NEW l \in Nat, NEW s, Full(ns, s)
  PROVE  s.visited \subseteq Expand(ns, v, ef, l, s).visited
<1> DEFINE c == Closest(ns, v, s.open)
           u == [s EXCEPT !.open = @ \ {c}]
           t == MeetAll(ns, v, ef, u, LinksAt(ns, c, l))
           w == [s EXCEPT !.open = {}]
<1>1. s \in States(Live(ns)) /\ s.open \subseteq s.results
  BY DEF Full
<1>2. w.visited = s.visited /\ u.visited = s.visited /\ u.open \subseteq s.open /\ u.results = s.results
  BY <1>1 DEF States
<1>3. ASSUME s.open # {} PROVE s.visited \subseteq t.visited
  <2>1. LinksAt(ns, c, l) \in Seq(Nat) /\ u \in States(Live(ns))
    BY <1>1, <1>3, AllAreClosed, ClosestOpen
  <2> HIDE DEF u, c
  <2>2. Full(ns, u)
    BY <1>1, <1>2, <2>1 DEF Full
  <2>3. MeetsMore(ns, u, t)
    BY <2>1, <2>2, MeetAllAdds
  <2> HIDE DEF t
  <2> QED
    BY <1>2, <2>3 DEF MeetsMore
<1>4. s.open = {} => Expand(ns, v, ef, l, s) = s
  BY DEF Expand
<1>5. s.open # {} => Expand(ns, v, ef, l, s) = w \/ Expand(ns, v, ef, l, s) = t
  BY Zenon DEF Expand
<1> HIDE DEF t, w
<1> QED
  BY <1>2, <1>3, <1>4, <1>5

(* A search that has room ends with nothing open: what it found is closed. *)
LEMMA ExploredIsExact ==
  ASSUME NEW ns \in Seq(Nodes), NEW v \in Points, NEW ef, Roomy(ns, ef), NEW l \in Nat, NEW entry \in Live(ns)
  PROVE  LET R == Explored(ns, v, entry, ef, l) IN ClosedAt(ns, l, R) /\ entry \in R
<1> DEFINE N == Len(ns)
           L == Live(ns)
           h == Run(ns, v, entry, ef, l)
           After(x, i) == Exact(ns, l, x, i) /\ entry \in x.visited
           E == [i \in 0 .. N |-> {x \in States(L) : After(x, i)}]
<1>1. N \in Nat /\ L \subseteq 1 .. N /\ IsFiniteSet(1 .. N) /\ Cardinality(1 .. N) = N
  BY LiveNodes
<1>2. RoundByRound(ns, v, ef, l, L, entry, h)
  BY AllAreClosed, RunIs
<1> HIDE DEF h
<1>3. h[0] = SearchStart(entry) /\ \A i \in 1 .. N : h[i] = Expand(ns, v, ef, l, h[i - 1])
  BY <1>2 DEF RoundByRound
<1>4. \A i \in 0 .. N : h[i] \in States(L)
  BY <1>2 DEF RoundByRound
<1> HIDE DEF N
<1>5. After(h[0], 0)
  <2> DEFINE x == SearchStart(entry)
  <2>1. x.visited = {entry} /\ x.open = {entry} /\ x.results = {entry}
    BY DEF SearchStart
  <2>2. x \in States(L)
    BY <1>1, <1>3, <1>4
  <2> HIDE DEF x
  <2>3. x.results \ x.open = {}
    BY <2>1
  <2>4. Cardinality(x.results \ x.open) >= 0
    <3>1. Cardinality({}) = 0
      BY FS_EmptySet
    <3>2. Cardinality(x.results \ x.open) = 0
      BY <2>3, <3>1, Zenon
    <3> QED
      BY <3>2
  <2>5. Full(ns, x)
    BY <2>1, <2>2 DEF Full
  <2>6. After(x, 0)
    BY <2>1, <2>3, <2>4, <2>5 DEF Exact
  <2> HIDE DEF After
  <2> QED
    BY <1>3, <2>6 DEF x
<1>6. ASSUME NEW i \in 1 .. N, After(h[i - 1], i - 1) PROVE After(h[i], i)
  <2>1. i \in Nat \ {0}
    OBVIOUS
  <2>2. Exact(ns, l, h[i], i)
    BY <1>3, <1>6, <2>1, ExpandIsExact
  <2>3. entry \in h[i].visited
    <3>1. Full(ns, h[i - 1]) /\ entry \in h[i - 1].visited
      BY <1>6 DEF Exact
    <3>2. h[i] = Expand(ns, v, ef, l, h[i - 1])
      BY <1>3
    <3> QED
      BY <3>1, <3>2, ExpandVisits
  <2> QED
    BY <2>2, <2>3
<1> HIDE DEF After
<1>7. h[0] \in E[0] /\ \A i \in 1 .. N : h[i - 1] \in E[i - 1] => h[i] \in E[i]
  <2>1. 0 \in 0 .. N /\ \A i \in 1 .. N : i - 1 \in 0 .. N /\ i \in 0 .. N
    BY <1>1
  <2> QED
    BY <1>4, <1>5, <1>6, <2>1
<1> HIDE DEF E
<1>8. \A i \in 0 .. N : h[i] \in E[i]
  BY <1>1, <1>7, LoopStays
<1> DEFINE x == h[N]
<1>9. After(x, N)
  BY <1>1, <1>8 DEF E
<1>10. Explored(ns, v, entry, ef, l) = x.results
  BY ExploredRun DEF h, N
<1> HIDE DEF x
<1>11. /\ x.results = x.visited \cap L /\ x.open \subseteq x.results /\ x.results \subseteq L
       /\ \A j \in x.results \ x.open : ToSet(LinksAt(ns, j, l)) \cap L \subseteq x.results
       /\ x.open = {} \/ Cardinality(x.results \ x.open) >= N
       /\ entry \in x.visited
  BY <1>9 DEF After, Exact, Full
<1>12. x.open = {}
  <2> DEFINE C == x.results \ x.open
             I == 1 .. N
             a == Cardinality(C)
  <2>1. C \subseteq I /\ IsFiniteSet(I) /\ Cardinality(I) = N
    BY <1>1, <1>11
  <2> SUFFICES ASSUME x.open # {} PROVE FALSE
    OBVIOUS
  <2>2. a >= N
    BY <1>11
  <2> HIDE DEF C, I
  <2>3. a <= N /\ a \in Nat /\ (a = N => C = I)
    BY <2>1, FS_Subset, FS_CardinalityType
  <2> HIDE DEF a
  <2>4. C = I
    BY <1>1, <2>2, <2>3
  <2> QED
    BY <1>1, <1>11, <2>4 DEF C, I
<1>13. ClosedAt(ns, l, x.results) /\ entry \in x.results
  BY <1>11, <1>12 DEF ClosedAt
<1> QED
  BY <1>10, <1>13

(* With room, what a search of the lowest layer explores is what it can reach. *)
LEMMA ReachedIs ==
  ASSUME nodes \in Seq(Nodes), NEW v \in Points, NEW ef, Roomy(nodes, ef), NEW from \in Live(nodes)
  PROVE  Explored(nodes, v, from, ef, 0) = Reached(from)
<1> DEFINE R == Explored(nodes, v, from, ef, 0)
<1>1. ClosedAt(nodes, 0, R) /\ from \in R
  BY ExploredIsExact
<1>2. \A A \in SUBSET Live(nodes) : from \in A /\ Closed(A) => R \subseteq A
  <2> SUFFICES ASSUME NEW A \in SUBSET Live(nodes), from \in A, Closed(A) PROVE R \subseteq A
    OBVIOUS
  <2>1. ClosedAt(nodes, 0, A)
    BY DEF Closed, ClosedAt
  <2> QED
    BY <2>1, ExploredIs
<1> HIDE DEF R
<1>3. R \in SUBSET Live(nodes) /\ Closed(R)
  BY <1>1 DEF ClosedAt, Closed
<1>4. Reached(from) \subseteq R
  BY <1>1, <1>3 DEF Reached
<1>5. R \subseteq Reached(from)
  BY <1>2, <1>3 DEF Reached
<1> QED
  BY <1>4, <1>5 DEF R

(* A shorter row of the closest begins every longer one. *)
LEMMA SortedPrefix ==
  ASSUME NEW ns \in Seq(Nodes), NEW v \in Points, NEW S \in SUBSET Live(ns)
  PROVE  \A j \in 0 .. Cardinality(S) : \A i \in 0 .. j : \A k \in 1 .. i :
           Sorted(ns, v, S)[j][k] = Sorted(ns, v, S)[i][k]
<1> DEFINE N == Cardinality(S)
           h == Sorted(ns, v, S)
           E == [j \in 0 .. N |-> {s \in Seq(S) : \A i \in 0 .. j : \A k \in 1 .. i : s[k] = h[i][k]}]
<1>0. IsFiniteSet(S)
  BY LiveNodes, FS_Subset
<1>1. N \in Nat
  BY <1>0, FS_CardinalityType
<1>2. \A i \in 1 .. N : h[i] = Followed(ns, v, S, h[i - 1])
  BY <1>0, SortedIs
<1>3. \A i \in 0 .. N : h[i] \in Seq(S) /\ Len(h[i]) = i
  BY SortedRows
<1> HIDE DEF h, N
<1>4. h[0] \in E[0]
  BY <1>1, <1>3
<1>5. ASSUME NEW j \in 1 .. N, h[j - 1] \in E[j - 1] PROVE h[j] \in E[j]
  <2> DEFINE s == h[j - 1]
             t == h[j]
             e == Closest(ns, v, S \ ToSet(s))
  <2>1. j - 1 \in 0 .. N /\ j \in 0 .. N /\ j \in Nat
    BY <1>1
  <2>2. s \in Seq(S) /\ Len(s) = j - 1 /\ t \in Seq(S)
    BY <1>3, <2>1
  <2>3. \A i \in 0 .. j - 1 : \A k \in 1 .. i : s[k] = h[i][k]
    BY <1>5, <2>1
  <2>4. t = Append(s, e)
    BY <1>2 DEF Followed
  <2>5. t = h[j]
    OBVIOUS
  <2> HIDE DEF s, t, e
  <2>6. \A k \in 1 .. j - 1 : t[k] = s[k]
    <3> DEFINE D == S \cup {e}
    <3>1. s \in Seq(D) /\ e \in D
      BY <2>2, SeqMonotonic
    <3> HIDE DEF D
    <3> QED
      BY <2>2, <2>4, <3>1
  <2>7. ASSUME NEW i \in 0 .. j, NEW k \in 1 .. i PROVE t[k] = h[i][k]
    <3>1. CASE i = j
      BY <2>5, <3>1
    <3>2. CASE i # j
      <4>1. i \in 0 .. j - 1 /\ k \in 1 .. j - 1
        BY <2>1, <3>2
      <4> QED
        BY <2>3, <2>6, <4>1
    <3> QED
      BY <3>1, <3>2
  <2> QED
    BY <2>1, <2>2, <2>5, <2>7
<1> HIDE DEF E
<1>6. \A j \in 0 .. N : h[j] \in E[j]
  BY <1>1, <1>4, <1>5, LoopStays
<1> QED
  BY <1>6 DEF E, h, N

(* The first k of all of S in order are the k nearest. *)
LEMMA FirstOfNearest ==
  ASSUME NEW ns \in Seq(Nodes), NEW v \in Points, NEW S \in SUBSET Live(ns),
         NEW ef \in Nat, Cardinality(S) <= ef, NEW k \in Nat
  PROVE  LET t == Nearest(ns, v, S, ef) IN SubSeq(t, 1, Min({k, Len(t)})) = Nearest(ns, v, S, k)
<1> DEFINE N == Cardinality(S)
           h == Sorted(ns, v, S)
<1>0. IsFiniteSet(S)
  BY LiveNodes, FS_Subset
<1>1. N \in Nat
  BY <1>0, FS_CardinalityType
<1>2. \A i \in 0 .. N : h[i] \in Seq(S) /\ Len(h[i]) = i
  BY SortedRows
<1>3. \A j \in 0 .. N : \A i \in 0 .. j : \A n \in 1 .. i : h[j][n] = h[i][n]
  BY SortedPrefix
<1>4. \A n : Nearest(ns, v, S, n) = h[Min({n, N})]
  BY <1>0, SortedIs
<1>5. N <= ef
  OBVIOUS
<1> HIDE DEF h, N
<1> DEFINE m == Min({k, N})
<1>6. m \in 0 .. N /\ Min({ef, N}) = N
  BY <1>1, <1>5, SmallerOfTwo
<1> HIDE DEF m
<1> DEFINE t == h[N]
<1>7. t \in Seq(S) /\ Len(t) = N /\ m \in 0 .. Len(t)
  BY <1>1, <1>2, <1>6
<1>8. \A n \in 1 .. m : t[n] = h[m][n]
  BY <1>1, <1>3, <1>6
<1>9. t = Nearest(ns, v, S, ef)
  BY <1>4, <1>6
<1> HIDE DEF t
<1> DEFINE u == SubSeq(t, 1, m)
<1>10. u \in Seq(S) /\ Len(u) = m /\ \A n \in 1 .. m : u[n] = t[n]
  BY <1>7, FirstPart
<1> HIDE DEF u
<1>11. h[m] \in Seq(S) /\ Len(h[m]) = m
  BY <1>2, <1>6
<1>12. u = h[m]
  <2> DEFINE w == h[m]
  <2>1. w \in Seq(S) /\ Len(w) = m /\ \A n \in 1 .. m : u[n] = w[n]
    BY <1>8, <1>10, <1>11
  <2> HIDE DEF w
  <2>2. u = w
    BY <1>10, <2>1, SeqEqual
  <2> QED
    BY <2>2 DEF w
<1> QED
  BY <1>4, <1>7, <1>9, <1>12 DEF u, m

LEMMA StartIs ==
  ASSUME HnswInv, entryIx # 0, NEW v \in Points
  PROVE  Start(v) \in Live(nodes)
<1>1. nodes \in Seq(Nodes) /\ maxLvl \in Nat /\ entryIx \in Live(nodes)
  BY HnswAssumption DEF HnswInv, Sound, Entered
<1> QED
  BY <1>1, AllAreClosed, DescendIs DEF Start

(* From every node of an index that lost no link a search reaches every node. *)
LEMMA AllIsReached ==
  ASSUME HnswInv, ~cut, NEW from \in Live(nodes)
  PROVE  Reached(from) = Live(nodes)
<1>1. Sound(nodes, entryIx, maxLvl) /\ Joined(nodes)
  BY DEF HnswInv
<1>2. nodes \in Seq(Nodes) /\ LinksFit(nodes) /\ Live(nodes) = DOMAIN nodes
  BY <1>1 DEF Sound, Joined
<1>3. \A i \in DOMAIN nodes : 1 \in 1 .. Len(nodes[i].layers)
  <2>1. \A i \in DOMAIN nodes : Len(nodes[i].layers) \in 1 .. maxLvl + 1
    BY <1>1, <1>2 DEF Sound, LayersFit
  <2>2. maxLvl \in Nat
    BY <1>1, HnswAssumption DEF Sound
  <2> SUFFICES ASSUME NEW i \in DOMAIN nodes PROVE 1 \in 1 .. Len(nodes[i].layers)
    OBVIOUS
  <2> DEFINE n == Len(nodes[i].layers)
  <2>3. n \in 1 .. maxLvl + 1
    BY <2>1
  <2> HIDE DEF n
  <2>4. 1 \in 1 .. n
    BY <2>2, <2>3
  <2> QED
    BY <2>4 DEF n
<1>4. \A i \in DOMAIN nodes : LinksAt(nodes, i, 0) = Row(nodes, i, 1)
  <2> SUFFICES ASSUME NEW i \in DOMAIN nodes PROVE LinksAt(nodes, i, 0) = Row(nodes, i, 1)
    OBVIOUS
  <2> DEFINE n == Len(nodes[i].layers)
  <2>1. 1 \in 1 .. n /\ n \in Nat
    BY <1>2, <1>3, RowIs
  <2> HIDE DEF n
  <2>2. 0 < n /\ 0 + 1 = 1
    BY <2>1
  <2> QED
    BY <2>2 DEF LinksAt, Row, n
<1>5. \A i \in DOMAIN nodes : ToSet(Row(nodes, i, 1)) \subseteq DOMAIN nodes
  BY <1>2, <1>3 DEF LinksFit
<1> SUFFICES ASSUME NEW ix \in Live(nodes), NEW A \in SUBSET Live(nodes), from \in A, Closed(A)
             PROVE  ix \in A
  BY DEF Reached
<1>6. \A i \in A : ToSet(Row(nodes, i, 1)) \subseteq A
  BY <1>2, <1>4, <1>5 DEF Closed
<1>7. A = DOMAIN nodes
  BY <1>1, <1>2, <1>6 DEF Joined
<1> QED
  BY <1>2, <1>7

(* What a search returns: the first k of what it finds on the lowest layer. *)
LEMMA SearchIs ==
  ASSUME HnswInv, entryIx # 0, NEW v \in Points, NEW k \in Nat \ {0}
  PROVE  LET ef    == Max({EfSearch, k})
             found == SearchLayer(nodes, v, Start(v), ef, 0) IN
         /\ Search(v, k) = SubSeq(found, 1, Min({k, Len(found)}))
         /\ found \in Seq(Live(nodes)) /\ found # << >>
         /\ ef \in Nat \ {0} /\ EfSearch <= ef
<1> DEFINE ef == Max({EfSearch, k})
           found == SearchLayer(nodes, v, Start(v), ef, 0)
<1>1. ef \in Nat \ {0} /\ EfSearch <= ef
  <2>1. EfSearch \in Nat \ {0} /\ k \in Nat
    BY HnswAssumption
  <2>2. ef = IF EfSearch >= k THEN EfSearch ELSE k
    BY <2>1, LargerOfTwo
  <2> QED
    BY <2>1, <2>2
<1>2. Search(v, k) = SubSeq(found, 1, Min({k, Len(found)}))
  BY DEF Search
<1> HIDE DEF ef
<1>3. nodes \in Seq(Nodes) /\ Start(v) \in Live(nodes) /\ ClosedAt(nodes, 0, Live(nodes))
  BY StartIs, AllAreClosed DEF HnswInv, Sound
<1>4. found \in Seq(Live(nodes)) /\ found # << >>
  BY <1>1, <1>3, SearchLayerIs
<1> QED
  BY <1>1, <1>2, <1>4 DEF ef

LEMMA SearchAnswers ==
  ASSUME HnswInv, entryIx # 0, NEW v \in Points, NEW k \in Nat \ {0}
  PROVE  Search(v, k) # << >> /\ ToSet(Search(v, k)) \subseteq Live(nodes)
<1> DEFINE L == Live(nodes)
<1>1. PICK found : /\ Search(v, k) = SubSeq(found, 1, Min({k, Len(found)}))
                   /\ found \in Seq(L) /\ found # << >>
  BY SearchIs
<1> HIDE DEF L
<1> DEFINE n == Min({k, Len(found)})
           t == SubSeq(found, 1, n)
<1>2. Len(found) \in Nat \ {0}
  BY <1>1
<1>3. n \in 0 .. Len(found) /\ n # 0
  BY <1>2, SmallerOfTwo
<1> HIDE DEF n
<1>4. t \in Seq(L) /\ Len(t) = n /\ ToSet(t) \subseteq ToSet(found)
  BY <1>1, <1>3, FirstPart
<1>5. t = Search(v, k)
  BY <1>1 DEF n
<1> HIDE DEF t
<1>6. t # << >>
  BY <1>3, <1>4
<1>7. ToSet(found) \subseteq L
  <2>1. \A i \in DOMAIN found : found[i] \in L
    BY <1>1
  <2> QED
    BY <2>1 DEF ToSet
<1> QED
  BY <1>4, <1>5, <1>6, <1>7 DEF L

LEMMA InvTypesIndex == HnswInv => HnswTypeOK
<1> SUFFICES ASSUME HnswInv PROVE HnswTypeOK
  OBVIOUS
<1>1. Sound(nodes, entryIx, maxLvl)
  BY DEF HnswInv
<1>2. nodes \in Seq(Nodes) /\ maxLvl \in Levels \cup {0} /\ maxLvl \in Nat
  BY <1>1, HnswAssumption DEF Sound
<1>3. ASSUME NEW ix \in DOMAIN nodes
      PROVE  /\ nodes[ix].id \in Ids /\ nodes[ix].vector \in Points \cup {Nil}
             /\ Len(nodes[ix].layers) <= maxLvl + 1
             /\ \A l \in DOMAIN nodes[ix].layers : nodes[ix].layers[l] \in Seq(Nat \ {0})
  <2>1. nodes[ix].id \in Ids /\ nodes[ix].vector \in Points \cup {Nil}
    BY <1>2, LiveNodes
  <2>2. Len(nodes[ix].layers) <= maxLvl + 1
    <3> DEFINE n == Len(nodes[ix].layers)
    <3>1. n \in 1 .. maxLvl + 1 \/ n = 0
      BY <1>1 DEF Sound, LayersFit
    <3> HIDE DEF n
    <3>2. n <= maxLvl + 1
      BY <1>2, <3>1
    <3> QED
      BY <3>2 DEF n
  <2>3. \A l \in DOMAIN nodes[ix].layers : nodes[ix].layers[l] \in Seq(Nat \ {0})
    BY <1>2, RowIs DEF Row
  <2> QED
    BY <2>1, <2>2, <2>3
<1>4. entryIx \in DOMAIN nodes \cup {0}
  BY <1>1 DEF Sound, Entered, Live
<1>5. /\ added \in Ids \cup {0} /\ removed \in 0 .. MaxRemoved /\ restarts \in 0 .. MaxRestarts
      /\ read \subseteq Rows /\ cut \in BOOLEAN
  BY DEF HnswInv
<1> QED
  BY <1>2, <1>3, <1>4, <1>5 DEF HnswTypeOK

LEMMA InvAnswers == HnswInv => AnswersWhileThereAreVectors
<1> SUFFICES ASSUME HnswInv, Live(nodes) # {}, NEW v \in Points
             PROVE  Search(v, 1) # << >> /\ ToSet(Search(v, EfSearch)) \subseteq Live(nodes)
  BY DEF AnswersWhileThereAreVectors
<1>1. entryIx # 0
  <2>1. nodes \in Seq(Nodes) /\ entryIx \in Live(nodes)
    BY DEF HnswInv, Sound, Entered
  <2> QED
    BY <2>1, LiveNodes
<1>2. EfSearch \in Nat \ {0} /\ 1 \in Nat \ {0}
  BY HnswAssumption
<1> QED
  BY <1>1, <1>2, SearchAnswers

LEMMA InvIsExact == HnswInv => SearchIsExact
<1> SUFFICES ASSUME HnswInv, entryIx # 0, NEW v \in Points
             PROVE  /\ Len(nodes) <= EfSearch => Search(v, 2) = Nearest(nodes, v, Reached(Start(v)), 2)
                    /\ ~cut => Reached(Start(v)) = Live(nodes)
  BY DEF SearchIsExact
<1>1. Start(v) \in Live(nodes) /\ nodes \in Seq(Nodes)
  BY StartIs DEF HnswInv, Sound
<1>2. ~cut => Reached(Start(v)) = Live(nodes)
  BY <1>1, AllIsReached
<1>3. ASSUME Len(nodes) <= EfSearch PROVE Search(v, 2) = Nearest(nodes, v, Reached(Start(v)), 2)
  <2> DEFINE ef == Max({EfSearch, 2})
             found == SearchLayer(nodes, v, Start(v), ef, 0)
  <2>1. /\ found = SearchLayer(nodes, v, Start(v), ef, 0)
        /\ Search(v, 2) = SubSeq(found, 1, Min({2, Len(found)}))
        /\ ef \in Nat \ {0} /\ EfSearch <= ef
    <3>1. 2 \in Nat \ {0}
      OBVIOUS
    <3> QED
      BY <3>1, SearchIs
  <2> HIDE DEF ef, found
  <2> DEFINE R == Reached(Start(v))
             n == Len(nodes)
  <2>2. R \in SUBSET Live(nodes) /\ Live(nodes) \subseteq DOMAIN nodes
    BY DEF Reached, Live
  <2>3. n \in Nat /\ n <= ef
    BY <1>1, <1>3, <2>1, LiveNodes, HnswAssumption
  <2>4. IsFiniteSet(DOMAIN nodes) /\ Cardinality(DOMAIN nodes) = n
    BY <1>1, LiveNodes
  <2> HIDE DEF R, n
  <2>5. \A S \in SUBSET DOMAIN nodes : Cardinality(S) <= ef
    <3> SUFFICES ASSUME NEW S \in SUBSET DOMAIN nodes PROVE Cardinality(S) <= ef
      OBVIOUS
    <3>1. Cardinality(S) <= n /\ Cardinality(S) \in Nat
      BY <2>4, FS_Subset, FS_CardinalityType
    <3> QED
      BY <2>1, <2>3, <3>1
  <2>6. Roomy(nodes, ef)
    BY <2>1, <2>2, <2>5 DEF Roomy
  <2>7. found = Nearest(nodes, v, R, ef)
    <3>1. found = Nearest(nodes, v, Explored(nodes, v, Start(v), ef, 0), ef)
      BY <1>1, <2>1 DEF SearchLayer
    <3>2. Explored(nodes, v, Start(v), ef, 0) = R
      BY <1>1, <2>6, ReachedIs DEF R
    <3> QED
      BY <3>1, <3>2
  <2>8. SubSeq(found, 1, Min({2, Len(found)})) = Nearest(nodes, v, R, 2)
    <3>1. Cardinality(R) <= ef /\ ef \in Nat /\ 2 \in Nat
      BY <2>1, <2>2, <2>5
    <3> QED
      BY <1>1, <2>2, <2>7, <3>1, FirstOfNearest
  <2> QED
    BY <2>1, <2>8 DEF R
<1> QED
  BY <1>2, <1>3

LEMMA InvOfTheIndex == HnswSpec => []HnswInv
<1> QED
  BY HnswInvFirst, HnswInvStep, PTL DEF HnswSpec

(* The index is well formed in every state: the graph as a list of nodes with their
   layers, and the entry point among them (hnsw.go, Index). *)
THEOREM HnswTypeOKAlways == HnswSpec => []HnswTypeOK
<1> QED
  BY InvOfTheIndex, InvTypesIndex, PTL

(* However many vectors are added, replaced and removed, and through restarts, a search
   has an answer as long as a vector is left, and answers with vectors that are there
   (hnsw.go, Search, Remove). *)
THEOREM AnswersWhileThereAreVectorsAlways == HnswSpec => []AnswersWhileThereAreVectors
<1> QED
  BY InvOfTheIndex, InvAnswers, PTL

(* The greedy search with its bounded list of results returns exactly the nearest that
   links lead to when the list has room for all, and links lead to all as long as none
   was dropped (hnsw.go, searchLayer, Add, pruneConnections). *)
THEOREM SearchIsExactAlways == HnswSpec => []SearchIsExact
<1> QED
  BY InvOfTheIndex, InvIsExact, PTL

(* A restart keeps every id with its vector, or gives the index exactly the rows that
   the table gave to a rebuild, whichever rows those are; and an index without holes is
   loaded as it was (hnsw.go, Save, Load; sqlite.go, NewSQLite; sqlite_migrate.go,
   rebuildIndex). *)
THEOREM RestartKeepsTheVectorsAlways == HnswSpec => RestartKeepsTheVectors
<1>1. ASSUME HnswInv, [HnswNext]_hnswVars, restarts' # restarts
      PROVE  /\ VectorOf(nodes') \in {VectorOf(nodes), read'}
             /\ Live(nodes) = DOMAIN nodes => nodes' = nodes /\ entryIx' = entryIx
  <2>1. Restart
    BY <1>1, Zenon DEF HnswNext, hnswVars, Replace, Add, RemoveVector
  <2> QED
    BY <1>1, <2>1, RestartKeepsTheInv
<1> QED
  BY <1>1, InvOfTheIndex, PTL DEF HnswSpec, RestartKeepsTheVectors
=============================================================================
