------------------------------ MODULE RememberProofs ------------------------------
(***************************************************************************)
(* What queries, the cache and calls of Add keep, for any numbers of them   *)
(* and any memories.                                                       *)
(***************************************************************************)
EXTENDS Remember, Query, Tiers, MemoryStoreProofs, FiniteSetTheorems, SequenceTheorems,
        WellFoundedInduction

-----------------------------------------------------------------------------
(* Query.  What a query holds it read once, and since then only it, or nobody alone,
   can have strengthened the row: two that hold a memory are both crowded, and while
   one is, what a memory got from queries not crowded does not grow. *)
Copies     == [id : Recalled, stability : Nat]
AnswerOf(q) == query[q].answer

MemoryStates == {"active", "stale", "resolved", "deleted", "gone"}

QueryTypes ==
  /\ memory \in [Recalled -> [state : MemoryStates, stability : Nat, accesses : Nat]]
  /\ alone \in [Recalled -> Nat]
  /\ query \in [Queriers -> [pc : {"idle", "read", "words", "rank", "stats", "strengthen"},
                            ids : SUBSET Recalled, worded : SUBSET Recalled,
                            found : SUBSET Copies, answer : Seq(Copies)]]

(* Where found is filled, and where the answer is. *)
InTurn ==
  \A q \in Queriers :
    /\ query[q].pc \in {"stats", "strengthen"} => query[q].found = {} /\ query[q].answer # <<>>
    /\ query[q].pc \in {"idle", "read", "words", "rank"} => query[q].answer = <<>>
    /\ query[q].pc \in {"idle", "read"} => query[q].found = {}

HeldOnce ==
  \A q \in Queriers :
    /\ \A c, d \in query[q].found : c.id = d.id => c = d
    /\ \A m, n \in 1 .. Len(query[q].answer) :
         query[q].answer[m].id = query[q].answer[n].id => m = n

CrowdsMarked ==
  \A p, q \in Queriers : \A i \in Recalled :
    p # q /\ i \in Holds(p) /\ i \in Holds(q) => <<p, i>> \in crowded

GainsHeld ==
  /\ \A i \in Recalled : memory[i].stability >= alone[i]
  /\ \A q \in Queriers : \A c \in query[q].found : c.stability >= alone[c.id]
  /\ \A q \in Queriers : \A n \in 1 .. Len(query[q].answer) :
       query[q].answer[n].stability >= alone[query[q].answer[n].id]

QueryInv == QueryTypes /\ InTurn /\ HeldOnce /\ CrowdsMarked /\ GainsHeld

LEMMA HoldsWhat ==
  ASSUME QueryTypes, NEW q \in Queriers, NEW i
  PROVE  i \in Holds(q) <=> \/ \E c \in query[q].found : c.id = i
                            \/ \E n \in 1 .. Len(query[q].answer) : query[q].answer[n].id = i
<1>1. DOMAIN query[q].answer = 1 .. Len(query[q].answer)
  BY DEF QueryTypes
<1> QED
  BY <1>1 DEF Holds, IdsIn, Range

LEMMA MinOfTwo ==
  ASSUME NEW a \in Nat, NEW b \in Nat
  PROVE  Min({a, b}) \in Nat /\ Min({a, b}) <= a /\ Min({a, b}) <= b /\ Min({a, b}) \in {a, b}
<1>1. \E x \in {a, b} : \A y \in {a, b} : x <= y
  OBVIOUS
<1> QED
  BY <1>1 DEF Min

(* What a query is at. *)
Records == [pc : {"idle", "read", "words", "rank", "stats", "strengthen"},
            ids : SUBSET Recalled, worded : SUBSET Recalled, found : SUBSET Copies, answer : Seq(Copies)]

LEMMA OneQueryMoves ==
  ASSUME query \in [Queriers -> Records], NEW q \in Queriers, NEW w \in Records,
         query' = [query EXCEPT ![q] = w]
  PROVE  /\ query' \in [Queriers -> Records] /\ query'[q] = w
         /\ \A p \in Queriers \ {q} : query'[p] = query[p]
OBVIOUS

LEMMA NothingNew ==
  ASSUME QueryInv, QueryTypes', InTurn', HeldOnce',
         crowded' = crowded, alone' = alone,
         \A i \in Recalled : memory'[i].stability = memory[i].stability,
         \A p \in Queriers :
           /\ \A c \in query'[p].found : c \in query[p].found
           /\ \A n \in 1 .. Len(query'[p].answer) :
                \/ query'[p].answer[n] \in query[p].found
                \/ \E m \in 1 .. Len(query[p].answer) : query'[p].answer[n] = query[p].answer[m]
  PROVE  QueryInv'
<1>1. ASSUME NEW p \in Queriers, NEW i \in Recalled, i \in Holds(p)' PROVE i \in Holds(p)
  <2>1. \/ \E c \in query'[p].found : c.id = i
        \/ \E n \in 1 .. Len(query'[p].answer) : query'[p].answer[n].id = i
    <3>1. DOMAIN query'[p].answer = 1 .. Len(query'[p].answer)
      BY DEF QueryTypes
    <3> QED  BY <1>1, <3>1 DEF Holds, IdsIn, Range
  <2> QED  BY <2>1, HoldsWhat DEF QueryInv
<1>2. CrowdsMarked'
  BY <1>1 DEF CrowdsMarked, QueryInv
<1>3. GainsHeld'
  BY DEF GainsHeld, QueryInv
<1> QED
  BY <1>2, <1>3 DEF QueryInv

LEMMA SubSeqOf ==
  ASSUME NEW S, NEW s \in Seq(S), NEW n \in 0 .. Len(s)
  PROVE  /\ SubSeq(s, 1, n) \in Seq(S) /\ Len(SubSeq(s, 1, n)) = n
         /\ \A m \in 1 .. n : SubSeq(s, 1, n)[m] = s[m]
OBVIOUS

LEMMA FindCandidatesKeeps ==
  ASSUME QueryInv, NEW q \in Queriers, NEW t \in Subjects, FindCandidates(q, t) PROVE QueryInv'
<1> DEFINE w == [NoQuery EXCEPT !.pc = "read", !.worded = t.worded, !.ids = t.near \cap vectors]
<1>1. t.worded \in SUBSET Recalled /\ t.near \cap vectors \in SUBSET Recalled
  BY QueryAssumption
<1>2. w \in Records /\ w.found = {} /\ w.answer = <<>> /\ w.pc = "read"
  <2>1. NoQuery \in Records /\ NoQuery.found = {} /\ NoQuery.answer = <<>>
    BY DEF NoQuery, Records
  <2> HIDE DEF NoQuery
  <2> QED  BY <1>1, <2>1 DEF Records
<1>3. query \in [Queriers -> Records]
  BY DEF QueryInv, QueryTypes, Records
<1>4. query' = [query EXCEPT ![q] = w] /\ UNCHANGED <<memory, crowded, alone>>
  BY DEF FindCandidates
<1> HIDE DEF w
<1>5. /\ query' \in [Queriers -> Records] /\ query'[q] = w
      /\ \A p \in Queriers \ {q} : query'[p] = query[p]
  BY <1>2, <1>3, <1>4, OneQueryMoves
<1>6. QueryTypes'
  BY <1>4, <1>5 DEF QueryInv, QueryTypes, Records
<1>7. InTurn' /\ HeldOnce'
  BY <1>2, <1>5 DEF QueryInv, InTurn, HeldOnce
<1>8. ASSUME NEW p \in Queriers
      PROVE  /\ \A c \in query'[p].found : c \in query[p].found
             /\ \A n \in 1 .. Len(query'[p].answer) :
                  \/ query'[p].answer[n] \in query[p].found
                  \/ \E m \in 1 .. Len(query[p].answer) : query'[p].answer[n] = query[p].answer[m]
  BY <1>2, <1>5
<1> QED
  BY <1>4, <1>6, <1>7, <1>8, NothingNew

LEMMA RankKeeps == ASSUME QueryInv, NEW q \in Queriers, Rank(q) PROVE QueryInv'
<1>0. PICK K \in Diverse(query[q].found) : \E s \in SetToSeqs(K) :
        LET top == SubSeq(s, 1, Min({Len(s), MostResults}))
        IN query' = [query EXCEPT ![q] = IF top = <<>> THEN NoQuery
                                         ELSE [@ EXCEPT !.pc = "stats", !.answer = top, !.found = {}]]
  BY DEF Rank
<1>1. PICK s \in SetToSeqs(K) :
        LET top == SubSeq(s, 1, Min({Len(s), MostResults}))
        IN query' = [query EXCEPT ![q] = IF top = <<>> THEN NoQuery
                                         ELSE [@ EXCEPT !.pc = "stats", !.answer = top, !.found = {}]]
  BY <1>0
<1> DEFINE n == Min({Len(s), MostResults})
           top == SubSeq(s, 1, n)
           w == IF top = <<>> THEN NoQuery
                ELSE [query[q] EXCEPT !.pc = "stats", !.answer = top, !.found = {}]
<1>2. UNCHANGED <<memory, crowded, alone>> /\ query[q].pc = "rank"
  BY DEF Rank
<1>3. query \in [Queriers -> Records] /\ query[q] \in Records
  BY DEF QueryInv, QueryTypes, Records
<1>4. K \subseteq query[q].found /\ K \subseteq Copies
  BY <1>3 DEF Diverse, Records
<1>5. IsFiniteSet(K)
  <2>1. \A c, d \in query[q].found : c.id = d.id => c = d
    BY DEF QueryInv, HeldOnce
  <2> DEFINE f == [c \in K |-> c.id]
  <2>2. f \in [K -> Recalled]
    BY <1>4 DEF Copies
  <2>3. f \in Injection(K, Recalled)
    BY <1>4, <2>1, <2>2 DEF Injection, IsInjective
  <2> QED  BY <2>3, QueryAssumption, FS_Injection
<1>6. /\ s \in Seq(Copies) /\ Len(s) \in Nat
      /\ \A i \in 1 .. Len(s) : s[i] \in query[q].found
      /\ \A i, j \in 1 .. Len(s) : s[i].id = s[j].id => i = j
  <2> DEFINE D == 1 .. Cardinality(K)
  <2>1. s \in [D -> K] /\ \A i, j \in D : i # j => s[i] # s[j]
    BY DEF SetToSeqs
  <2>2. Cardinality(K) \in Nat
    BY <1>5, FS_CardinalityType
  <2>3. Len(s) = Cardinality(K) /\ s \in Seq(K)
    BY <2>1, <2>2
  <2>4. s \in Seq(Copies)
    BY <1>4, <2>3
  <2>5. \A c, d \in query[q].found : c.id = d.id => c = d
    BY DEF QueryInv, HeldOnce
  <2> QED  BY <1>4, <2>1, <2>2, <2>3, <2>4, <2>5
<1>7. n \in 0 .. Len(s)
  BY <1>6, QueryAssumption, MinOfTwo
<1>8. /\ top \in Seq(Copies) /\ Len(top) = n
      /\ \A i \in 1 .. n : top[i] = s[i]
  BY <1>6, <1>7, SubSeqOf
<1>9. query' = [query EXCEPT ![q] = w]
  BY <1>1, <1>3
<1> HIDE DEF n, top
<1>10. w \in Records
  BY <1>3, <1>8 DEF Records, NoQuery
<1>11. \/ w.found = {} /\ w.answer = <<>> /\ w.pc = "idle"
       \/ w.found = {} /\ w.answer = top /\ w.answer # <<>> /\ w.pc = "stats"
  BY <1>3 DEF Records, NoQuery
<1> HIDE DEF w
<1>12. /\ query' \in [Queriers -> Records] /\ query'[q] = w
       /\ \A p \in Queriers \ {q} : query'[p] = query[p]
  BY <1>3, <1>9, <1>10, OneQueryMoves
<1>13. QueryTypes'
  BY <1>2, <1>12 DEF QueryInv, QueryTypes, Records
<1>14. InTurn'
  BY <1>11, <1>12 DEF QueryInv, InTurn
<1>15. \A i \in 1 .. Len(w.answer) : w.answer[i] \in query[q].found
  BY <1>6, <1>7, <1>8, <1>11
<1>16. \A i, j \in 1 .. Len(w.answer) : w.answer[i].id = w.answer[j].id => i = j
  BY <1>6, <1>7, <1>8, <1>11
<1>17. HeldOnce'
  BY <1>11, <1>12, <1>16 DEF QueryInv, HeldOnce
<1>18. ASSUME NEW p \in Queriers
       PROVE  /\ \A c \in query'[p].found : c \in query[p].found
              /\ \A i \in 1 .. Len(query'[p].answer) :
                   \/ query'[p].answer[i] \in query[p].found
                   \/ \E m \in 1 .. Len(query[p].answer) : query'[p].answer[i] = query[p].answer[m]
  BY <1>11, <1>12, <1>15
<1> QED
  BY <1>2, <1>13, <1>14, <1>17, <1>18, NothingNew

(* Reading: q comes to hold copies of the rows of S, which it did not hold. *)
LEMMA ReadingKeeps ==
  ASSUME QueryInv, NEW q \in Queriers, NEW S \in SUBSET Recalled, S \cap Holds(q) = {},
         NEW w \in Records, query' = [query EXCEPT ![q] = w],
         w.found = query[q].found \cup {CopyOf(i) : i \in S},
         w.answer = <<>>, query[q].answer = <<>>, w.pc \in {"words", "rank"},
         Crowds(q, S), UNCHANGED <<memory, alone>>
  PROVE  QueryInv'
<1>1. query \in [Queriers -> Records] /\ query[q] \in Records
  BY DEF QueryInv, QueryTypes, Records
<1>2. /\ query' \in [Queriers -> Records] /\ query'[q] = w
      /\ \A p \in Queriers \ {q} : query'[p] = query[p]
  BY <1>1, OneQueryMoves
<1>3. QueryTypes'
  BY <1>2 DEF QueryInv, QueryTypes, Records
<1>4. InTurn'
  BY <1>2 DEF QueryInv, InTurn
<1>5. \A c \in w.found : c \in query[q].found \/ (c.id \in S /\ c = CopyOf(c.id))
  BY DEF CopyOf
<1>6. \A c, d \in w.found : c.id = d.id => c = d
  <2>1. \A c \in query[q].found : c.id \notin S
    BY HoldsWhat DEF QueryInv
  <2> QED  BY <1>5, <2>1 DEF QueryInv, HeldOnce
<1>7. HeldOnce'
  BY <1>2, <1>6 DEF QueryInv, HeldOnce
<1>8. GainsHeld'
  <2>1. \A c \in w.found : c.stability >= alone'[c.id]
    <3>1. \A i \in S : CopyOf(i).stability >= alone[i]
      BY DEF CopyOf, QueryInv, GainsHeld
    <3> QED  BY <1>5, <3>1 DEF QueryInv, GainsHeld
  <2> QED  BY <1>2, <2>1 DEF QueryInv, GainsHeld
<1>9. ASSUME NEW i \in Recalled, i \in Holds(q)' PROVE i \in Holds(q) \/ i \in S
  <2>1. DOMAIN query'[q].answer = {}
    BY <1>2
  <2>2. \E c \in query'[q].found : c.id = i
    BY <1>9, <2>1 DEF Holds, IdsIn, Range
  <2> QED  BY <1>2, <1>5, <2>2, HoldsWhat DEF QueryInv
<1>10. \A p \in Queriers \ {q} : Holds(p)' = Holds(p)
  BY <1>2 DEF Holds
<1>11. ASSUME NEW p \in Queriers \ {q}, NEW i \in Holds(p), i \in S
       PROVE  <<p, i>> \in crowded' /\ <<q, i>> \in crowded'
  BY <1>11 DEF Crowds, OtherQueries
<1>12. \A x \in crowded : x \in crowded'
  BY DEF Crowds
<1>13. ASSUME NEW p \in Queriers, NEW o \in Queriers, NEW i \in Recalled, p # o,
              i \in Holds(p)', i \in Holds(o)'
       PROVE  <<p, i>> \in crowded'
  <2>1. CASE p = q
    BY <1>9, <1>10, <1>11, <1>12, <1>13, <2>1 DEF QueryInv, CrowdsMarked
  <2>2. CASE o = q
    BY <1>9, <1>10, <1>11, <1>12, <1>13, <2>2 DEF QueryInv, CrowdsMarked
  <2>3. CASE p # q /\ o # q
    BY <1>10, <1>12, <1>13, <2>3 DEF QueryInv, CrowdsMarked
  <2> QED  BY <2>1, <2>2, <2>3
<1>14. CrowdsMarked'
  BY <1>13 DEF CrowdsMarked
<1> QED
  BY <1>3, <1>4, <1>7, <1>8, <1>14 DEF QueryInv

LEMMA CopiesOfRows ==
  ASSUME QueryTypes, NEW S \in SUBSET Recalled PROVE {CopyOf(i) : i \in S} \subseteq Copies
BY DEF CopyOf, Copies, QueryTypes

LEMMA ReadRowsKeeps == ASSUME QueryInv, NEW q \in Queriers, ReadRows(q) PROVE QueryInv'
<1> DEFINE S == query[q].ids \cap Readable
           pc == IF query[q].worded = {} THEN "rank" ELSE "words"
           w == [query[q] EXCEPT !.found = {CopyOf(i) : i \in S}, !.ids = {}, !.pc = pc]
<1>1. query \in [Queriers -> Records] /\ query[q] \in Records
  BY DEF QueryInv, QueryTypes, Records
<1>2. query[q].found = {} /\ query[q].answer = <<>>
  BY DEF ReadRows, QueryInv, InTurn
<1>3. S \subseteq Recalled
  BY DEF Readable
<1>4. {CopyOf(i) : i \in S} \subseteq Copies
  BY <1>3, CopiesOfRows DEF QueryInv
<1>5. /\ query' = [query EXCEPT ![q] = w] /\ Crowds(q, S) /\ UNCHANGED <<memory, alone>>
  BY <1>1 DEF ReadRows, Records
<1>6. S \cap Holds(q) = {}
  BY <1>2 DEF Holds, IdsIn, Range
<1> HIDE DEF S
<1>7. /\ w \in Records /\ w.found = query[q].found \cup {CopyOf(i) : i \in S}
      /\ w.answer = <<>> /\ w.pc \in {"words", "rank"}
  BY <1>1, <1>2, <1>4 DEF Records
<1> HIDE DEF w
<1> QED
  BY <1>2, <1>3, <1>5, <1>6, <1>7, ReadingKeeps

LEMMA FindWordsKeeps == ASSUME QueryInv, NEW q \in Queriers, FindWords(q) PROVE QueryInv'
<1> DEFINE S == (query[q].worded \cap Readable) \ Holds(q)
           w == [query[q] EXCEPT !.found = @ \cup {CopyOf(i) : i \in S}, !.worded = {}, !.pc = "rank"]
<1>1. query \in [Queriers -> Records] /\ query[q] \in Records
  BY DEF QueryInv, QueryTypes, Records
<1>2. query[q].answer = <<>>
  BY DEF FindWords, QueryInv, InTurn
<1>3. S \subseteq Recalled /\ S \cap Holds(q) = {}
  BY DEF Readable
<1>4. {CopyOf(i) : i \in S} \subseteq Copies
  BY <1>3, CopiesOfRows DEF QueryInv
<1>5. /\ query' = [query EXCEPT ![q] = w] /\ Crowds(q, S) /\ UNCHANGED <<memory, alone>>
  BY <1>1 DEF FindWords, Records
<1> HIDE DEF S
<1>6. /\ w \in Records /\ w.found = query[q].found \cup {CopyOf(i) : i \in S}
      /\ w.answer = <<>> /\ w.pc \in {"words", "rank"}
  BY <1>1, <1>2, <1>4 DEF Records
<1> HIDE DEF w
<1> QED
  BY <1>2, <1>3, <1>5, <1>6, ReadingKeeps

LEMMA UpdateAccessStatsKeeps == ASSUME QueryInv, NEW q \in Queriers, UpdateAccessStats(q) PROVE QueryInv'
<1> DEFINE w == [query[q] EXCEPT !.pc = "strengthen"]
<1>1. query \in [Queriers -> Records] /\ query[q] \in Records
  BY DEF QueryInv, QueryTypes, Records
<1>2. query' = [query EXCEPT ![q] = w] /\ query[q].pc = "stats" /\ UNCHANGED <<crowded, alone>>
  BY DEF UpdateAccessStats
<1>3. /\ w \in Records /\ w.found = query[q].found /\ w.answer = query[q].answer
      /\ w.pc = "strengthen"
  BY <1>1 DEF Records
<1> HIDE DEF w
<1>4. /\ query' \in [Queriers -> Records] /\ query'[q] = w
      /\ \A p \in Queriers \ {q} : query'[p] = query[p]
  BY <1>1, <1>2, <1>3, OneQueryMoves
<1>5. /\ memory' \in [Recalled -> [state : MemoryStates, stability : Nat, accesses : Nat]]
      /\ \A i \in Recalled : memory'[i].stability = memory[i].stability
  <2>1. CASE UNCHANGED memory
    BY <2>1 DEF QueryInv, QueryTypes
  <2>2. CASE memory' = [i \in Recalled |->
                 IF i \in Holds(q) /\ memory[i].state # "gone"
                 THEN [memory[i] EXCEPT !.accesses = @ + 1] ELSE memory[i]]
    BY <2>2 DEF QueryInv, QueryTypes
  <2> QED  BY <2>1, <2>2 DEF UpdateAccessStats
<1>6. QueryTypes'
  BY <1>2, <1>4, <1>5 DEF QueryInv, QueryTypes, Records
<1>7. InTurn' /\ HeldOnce'
  BY <1>2, <1>3, <1>4 DEF QueryInv, InTurn, HeldOnce
<1>8. ASSUME NEW p \in Queriers
      PROVE  query'[p].found = query[p].found /\ query'[p].answer = query[p].answer
  BY <1>3, <1>4
<1> QED
  BY <1>2, <1>5, <1>6, <1>7, <1>8, NothingNew

LEMMA UpdateStabilityKeeps ==
  ASSUME QueryInv, NEW q \in Queriers, NEW growth \in Growths, UpdateStability(q, growth) PROVE QueryInv'
<1> DEFINE old  == query[q].answer
           copy == Head(old)
           i    == copy.id
           rest == Tail(old)
           w    == IF rest = <<>> THEN NoQuery ELSE [query[q] EXCEPT !.answer = rest]
<1>1. query \in [Queriers -> Records] /\ query[q] \in Records /\ growth \in Nat
  BY QueryAssumption DEF QueryInv, QueryTypes, Records
<1>2. query[q].pc = "strengthen" /\ query[q].found = {} /\ old # <<>> /\ old \in Seq(Copies)
  BY <1>1 DEF UpdateStability, QueryInv, InTurn, Records
<1>3. /\ copy \in Copies /\ copy = old[1] /\ 1 \in 1 .. Len(old)
      /\ rest \in Seq(Copies) /\ Len(rest) = Len(old) - 1 /\ Len(old) \in Nat
      /\ \A n \in 1 .. Len(rest) : rest[n] = old[n + 1] /\ n + 1 \in 1 .. Len(old)
  BY <1>2
<1>4. i \in Recalled /\ copy.stability \in Nat /\ copy.stability >= alone[i]
  BY <1>3 DEF Copies, QueryInv, GainsHeld
<1>5. /\ query' = [query EXCEPT ![q] = w] /\ crowded' = crowded \ {<<q, i>>}
      /\ \/ UNCHANGED <<memory, alone>>
         \/ /\ memory' = [memory EXCEPT ![i].stability = copy.stability + growth]
            /\ alone' = IF <<q, i>> \in crowded THEN alone ELSE [alone EXCEPT ![i] = @ + growth]
  BY DEF UpdateStability, NewStability
<1>6. \A n \in 1 .. Len(old) : n # 1 => old[n].id # i
  BY <1>3 DEF QueryInv, HeldOnce
<1> HIDE DEF old, copy, rest
<1>7. /\ w \in Records /\ w.found = {}
      /\ \/ w.answer = <<>> /\ w.pc = "idle"
         \/ w.answer = rest /\ rest # <<>> /\ w.pc = "strengthen"
  <2>1. NoQuery \in Records /\ NoQuery.found = {} /\ NoQuery.answer = <<>> /\ NoQuery.pc = "idle"
    BY DEF NoQuery, Records
  <2>2. CASE rest = <<>>
    BY <2>1, <2>2
  <2>3. CASE rest # <<>>
    BY <1>1, <1>2, <1>3, <2>3 DEF Records
  <2> QED  BY <2>2, <2>3
<1> HIDE DEF w
<1>8. /\ query' \in [Queriers -> Records] /\ query'[q] = w
      /\ \A p \in Queriers \ {q} : query'[p] = query[p]
  BY <1>1, <1>5, <1>7, OneQueryMoves
(* Nobody holds i when it was got alone, and q holds it no more. *)
<1>9. q \in Queriers /\ i \in Holds(q)
  BY <1>3, HoldsWhat DEF QueryInv, old
<1>10. \A p \in Queriers \ {q} : <<q, i>> \notin crowded => i \notin Holds(p)
  BY <1>4, <1>9 DEF QueryInv, CrowdsMarked
<1>11. /\ \A n \in 1 .. Len(w.answer) : /\ w.answer[n].id # i
                                        /\ \E m \in 1 .. Len(old) : w.answer[n] = old[m]
       /\ \A m, n \in 1 .. Len(w.answer) : w.answer[m].id = w.answer[n].id => m = n
  <2>1. CASE w.answer = <<>>
    BY <2>1
  <2>2. CASE w.answer = rest
    <3>1. \A n \in 1 .. Len(rest) : n + 1 # 1 /\ n \in Nat
      OBVIOUS
    <3>2. \A m, n \in 1 .. Len(old) : old[m].id = old[n].id => m = n
      BY DEF QueryInv, HeldOnce, old
    <3>3. \A n \in 1 .. Len(rest) : n + 1 \in 1 .. Len(old) /\ rest[n] = old[n + 1]
      BY <1>3
    <3>4. \A n \in 1 .. Len(rest) : rest[n].id # i
      BY <1>6, <3>1, <3>3
    <3>5. \A m, n \in 1 .. Len(rest) : rest[m].id = rest[n].id => m = n
      <4>1. \A m, n \in 1 .. Len(rest) : m + 1 = n + 1 => m = n
        OBVIOUS
      <4> QED  BY <3>2, <3>3, <4>1
    <3> QED  BY <2>2, <3>3, <3>4, <3>5
  <2> QED  BY <1>7, <2>1, <2>2
<1>12. /\ memory' \in [Recalled -> [state : MemoryStates, stability : Nat, accesses : Nat]]
       /\ alone' \in [Recalled -> Nat]
       /\ \A j \in Recalled \ {i} : memory'[j].stability = memory[j].stability /\ alone'[j] = alone[j]
       /\ memory'[i].stability >= alone'[i]
       /\ <<q, i>> \in crowded => alone' = alone
  <2>0. /\ memory \in [Recalled -> [state : MemoryStates, stability : Nat, accesses : Nat]]
        /\ alone \in [Recalled -> Nat] /\ memory[i].stability >= alone[i]
    BY <1>4 DEF QueryInv, QueryTypes, GainsHeld
  <2>1. CASE UNCHANGED <<memory, alone>>
    BY <2>0, <2>1
  <2>2. CASE /\ memory' = [memory EXCEPT ![i].stability = copy.stability + growth]
             /\ alone' = IF <<q, i>> \in crowded THEN alone ELSE [alone EXCEPT ![i] = @ + growth]
    <3> DEFINE n == copy.stability + growth
    <3>1. n \in Nat /\ n >= alone[i] + growth /\ n >= alone[i] /\ alone[i] + growth \in Nat
      BY <1>1, <1>4, <2>0
    <3>2. memory' = [memory EXCEPT ![i].stability = n]
      BY <2>2
    <3> HIDE DEF n, i
    <3>3. /\ memory' \in [Recalled -> [state : MemoryStates, stability : Nat, accesses : Nat]]
          /\ memory'[i].stability = n
          /\ \A j \in Recalled \ {i} : memory'[j].stability = memory[j].stability
      BY <1>4, <2>0, <3>1, <3>2
    <3>4. /\ alone' \in [Recalled -> Nat] /\ alone'[i] \in {alone[i], alone[i] + growth}
          /\ \A j \in Recalled \ {i} : alone'[j] = alone[j]
          /\ <<q, i>> \in crowded => alone' = alone
      BY <1>4, <2>0, <2>2, <3>1
    <3> QED  BY <3>1, <3>3, <3>4
  <2> QED  BY <1>5, <2>1, <2>2
<1>13. QueryTypes'
  BY <1>8, <1>12 DEF QueryTypes, Records
<1>14. InTurn'
  BY <1>2, <1>7, <1>8 DEF QueryInv, InTurn
<1>15. HeldOnce'
  BY <1>7, <1>8, <1>11 DEF QueryInv, HeldOnce
<1>16. \A p \in Queriers \ {q} : Holds(p)' = Holds(p)
  BY <1>8 DEF Holds
<1>17. ASSUME NEW j \in Holds(q)' PROVE j \in Holds(q) /\ j # i
  <2>1. DOMAIN query'[q].answer = 1 .. Len(w.answer)
    BY <1>7, <1>8 DEF Records
  <2>2. \E n \in 1 .. Len(w.answer) : w.answer[n].id = j
    BY <1>7, <1>8, <1>17, <2>1 DEF Holds, IdsIn, Range
  <2> QED  BY <1>11, <2>2, HoldsWhat DEF QueryInv, old
<1>18. CrowdsMarked'
  <2> SUFFICES ASSUME NEW p \in Queriers, NEW o \in Queriers, NEW j \in Recalled,
                      p # o, j \in Holds(p)', j \in Holds(o)'
               PROVE  <<p, j>> \in crowded'
    BY DEF CrowdsMarked
  <2>1. j \in Holds(p) /\ j \in Holds(o) /\ (p = q => j # i)
    BY <1>16, <1>17
  <2>2. <<p, j>> \in crowded /\ <<p, j>> # <<q, i>>
    BY <2>1 DEF QueryInv, CrowdsMarked
  <2> QED  BY <1>5, <2>2
<1>19. GainsHeld'
  <2>1. \A j \in Recalled : memory'[j].stability >= alone'[j]
    BY <1>12 DEF QueryInv, GainsHeld
  <2>2. ASSUME NEW p \in Queriers, NEW c \in query'[p].found PROVE c.stability >= alone'[c.id]
    <3>1. p # q
      BY <1>7, <1>8, <2>2
    <3>2. c \in query[p].found
      BY <1>8, <2>2, <3>1
    <3>3. c.id \in Holds(p) /\ c.id \in Recalled
      BY <1>1, <3>2, HoldsWhat DEF QueryInv, Records, Copies
    <3>4. alone'[c.id] = alone[c.id]
      BY <1>10, <1>12, <3>1, <3>3
    <3> QED  BY <3>2, <3>4 DEF QueryInv, GainsHeld
  <2>3. ASSUME NEW p \in Queriers, NEW n \in 1 .. Len(query'[p].answer)
        PROVE  query'[p].answer[n].stability >= alone'[query'[p].answer[n].id]
    <3>1. CASE p # q
      <4> DEFINE c == query[p].answer[n]
      <4>1. query'[p] = query[p] /\ n \in 1 .. Len(query[p].answer)
        BY <1>8, <2>3, <3>1
      <4>2. c \in Copies
        <5>1. query[p].answer \in Seq(Copies)
          BY <1>1 DEF Records
        <5> QED  BY <4>1, <5>1
      <4>3. c.id \in Holds(p) /\ c.id \in Recalled
        BY <4>1, <4>2, HoldsWhat DEF QueryInv, Copies
      <4>4. alone'[c.id] = alone[c.id]
        BY <1>10, <1>12, <3>1, <4>3
      <4> QED  BY <4>1, <4>4 DEF QueryInv, GainsHeld
    <3>2. CASE p = q
      <4>1. query'[p] = w /\ n \in 1 .. Len(w.answer)
        BY <1>8, <2>3, <3>2
      <4>2. PICK m \in 1 .. Len(old) : w.answer[n] = old[m] /\ old[m].id # i
        BY <1>11, <4>1
      <4>3. old[m] \in Copies
        BY <1>2, <4>2
      <4>4. old[m].stability >= alone[old[m].id] /\ alone'[old[m].id] = alone[old[m].id]
        BY <1>12, <4>2, <4>3 DEF QueryInv, GainsHeld, Copies, old
      <4> QED  BY <4>1, <4>2, <4>4
    <3> QED  BY <3>1, <3>2
  <2> QED  BY <2>1, <2>2, <2>3 DEF GainsHeld
<1> QED
  BY <1>13, <1>14, <1>15, <1>18, <1>19 DEF QueryInv

LEMMA ForgetKeeps ==
  ASSUME QueryInv, NEW i \in Recalled, NEW s \in {"deleted", "gone"}, Forget(i, s) PROVE QueryInv'
<1>1. memory' = [memory EXCEPT ![i].state = s] /\ UNCHANGED <<query, crowded, alone>>
  BY DEF Forget
<1>2. /\ memory' \in [Recalled -> [state : MemoryStates, stability : Nat, accesses : Nat]]
      /\ \A j \in Recalled : memory'[j].stability = memory[j].stability
  BY <1>1 DEF QueryInv, QueryTypes, MemoryStates
<1>3. QueryTypes' /\ InTurn' /\ HeldOnce'
  <2>1. QueryTypes'
    BY <1>1, <1>2 DEF QueryInv, QueryTypes
  <2>2. InTurn' /\ HeldOnce'
    BY <1>1 DEF QueryInv, InTurn, HeldOnce
  <2> QED  BY <2>1, <2>2
<1> QED
  BY <1>1, <1>2, <1>3, NothingNew

(* What a memory gained from a query that nobody else's overlapped is never lost by the
   writes of queries that read earlier (engine_query.go, "Spaced repetition"), for any
   queries, memories and growths. *)
THEOREM LoneGainsStick == QuerySpec => []ReinforcementSticks
<1>1. QueryInit => QueryInv
  <2> SUFFICES ASSUME QueryInit PROVE QueryInv
    OBVIOUS
  <2>1. /\ \A q \in Queriers : query[q] = NoQuery
        /\ NoQuery.found = {} /\ NoQuery.answer = <<>> /\ NoQuery.pc = "idle"
        /\ NoQuery \in Records
    BY DEF QueryInit, NoQuery, Records
  <2>2. QueryTypes
    BY <2>1 DEF QueryInit, QueryTypes, Records, MemoryStates
  <2>3. \A q \in Queriers : \A i : i \notin Holds(q)
    BY <2>1, <2>2, HoldsWhat
  <2>4. CrowdsMarked
    BY <2>3 DEF CrowdsMarked
  <2>5. InTurn /\ HeldOnce
    BY <2>1 DEF InTurn, HeldOnce
  <2>6. GainsHeld
    BY <2>1 DEF QueryInit, GainsHeld
  <2> QED  BY <2>2, <2>4, <2>5, <2>6 DEF QueryInv
<1>2. QueryInv /\ [QueryNext]_queryVars => QueryInv'
  <2> SUFFICES ASSUME QueryInv, [QueryNext]_queryVars PROVE QueryInv'
    OBVIOUS
  <2>1. CASE UNCHANGED queryVars
    BY <2>1 DEF queryVars, QueryInv, QueryTypes, InTurn, HeldOnce, CrowdsMarked, GainsHeld, Holds
  <2> QED
    BY <2>1, FindCandidatesKeeps, ReadRowsKeeps, FindWordsKeeps, RankKeeps, UpdateAccessStatsKeeps,
       UpdateStabilityKeeps, ForgetKeeps DEF QueryNext
<1>3. QueryInv => ReinforcementSticks
  BY DEF QueryInv, GainsHeld, ReinforcementSticks
<1> QED
  BY <1>1, <1>2, <1>3, PTL DEF QuerySpec

-----------------------------------------------------------------------------
(* Tiers.  The invariant is the property said of the copies on their way too: what is
   cached, or may come to be, is in the index, or the cache will be told, or it is
   counted among the missed. *)
TierRecords == [pc : {"idle", "index", "promote", "promoteWords", "answered", "accessed"},
                near : Nearness \cup {<<>>}, found : Seq(Items), todo : Seq(Items)]

EvictorRecords == [pc : {"idle", "rank", "evict", "tell", "file", "delete"},
                   excess : Int, list : Seq(Items)]

Distinct(c) == \A m, n \in 1 .. Len(c) : c[m] = c[n] => m = n

TierTypes ==
  /\ hot \in Seq(Items) /\ Distinct(hot)
  /\ indexed \subseteq Items
  /\ tiered \in [Searchers -> TierRecords]
  /\ evictor \in [Evictors -> EvictorRecords]
  /\ \A p \in Evictors : evictor[p].pc \in {"tell", "delete"} => evictor[p].list # <<>>

(* A copy that is on its way. *)
Coming(i) == \/ <<"created", i>> \in toTell
             \/ \E s \in Searchers : Contains(tiered[s].found, i) \/ Contains(tiered[s].todo, i)

CopiesFollow ==
  \A i \in Items : (Contains(hot, i) \/ Coming(i)) /\ i \notin indexed => BeingTold(i) \/ i \in missed

TierInv == TierTypes /\ CopiesFollow

LEMMA InRange ==
  ASSUME NEW c \in Seq(Items), NEW i
  PROVE  i \in Range(c) <=> Contains(c, i)
<1>1. DOMAIN c = 1 .. Len(c)
  OBVIOUS
<1>2. i \in Range(c) <=> \E n \in DOMAIN c : c[n] = i
  BY DEF Range
<1> QED
  BY <1>1, <1>2 DEF Contains

LEMMA BeginningOf ==
  ASSUME NEW c \in Seq(Items), NEW k \in 1 .. Len(c)
  PROVE  /\ SubSeq(c, 1, k - 1) \in Seq(Items) /\ Len(SubSeq(c, 1, k - 1)) = k - 1
         /\ \A n \in 1 .. k - 1 : SubSeq(c, 1, k - 1)[n] = c[n]
OBVIOUS

(* A sequence of some of the entries of c. *)
Among(d, c) == \A n \in 1 .. Len(d) : Contains(c, d[n])

LEMMA FrontKeeps ==
  ASSUME NEW c \in Seq(Items), Len(c) >= 1, Distinct(c)
  PROVE  Front(c) \in Seq(Items) /\ Distinct(Front(c)) /\ Among(Front(c), c)
<1>1. Len(c) \in 1 .. Len(c)
  OBVIOUS
<1>2. /\ Front(c) \in Seq(Items) /\ Len(Front(c)) = Len(c) - 1
      /\ \A n \in 1 .. Len(c) - 1 : Front(c)[n] = c[n]
  BY <1>1, BeginningOf DEF Front
<1> QED
  BY <1>2 DEF Distinct, Among, Contains

LEMMA RemoveKeeps ==
  ASSUME NEW c \in Seq(Items), NEW k \in 1 .. Len(c)
  PROVE  /\ RemoveAt(c, k) \in Seq(Items) /\ Len(RemoveAt(c, k)) = Len(c) - 1
         /\ \A n \in 1 .. Len(c) - 1 : RemoveAt(c, k)[n] = c[IF n < k THEN n ELSE n + 1]
<1> DEFINE a == SubSeq(c, 1, k - 1)
           b == SubSeq(c, k + 1, Len(c))
<1>1. a \in Seq(Items) /\ Len(a) = k - 1 /\ \A n \in 1 .. k - 1 : a[n] = c[n]
  BY BeginningOf
<1>2. b \in Seq(Items) /\ Len(b) = Len(c) - k /\ \A n \in 1 .. Len(b) : b[n] = c[n + k]
  OBVIOUS
<1>3. RemoveAt(c, k) = a \o b
  BY DEF RemoveAt
<1> HIDE DEF a, b
<1>4. a \o b \in Seq(Items) /\ Len(a \o b) = Len(a) + Len(b)
  BY <1>1, <1>2, ConcatProperties
<1>5. Len(a \o b) = Len(c) - 1
  BY <1>1, <1>2, <1>4
<1>6. ASSUME NEW n \in 1 .. Len(c) - 1
      PROVE  (a \o b)[n] = c[IF n < k THEN n ELSE n + 1]
  <2>1. (a \o b)[n] = IF n <= k - 1 THEN a[n] ELSE b[n - (k - 1)]
    BY <1>1, <1>2, ConcatProperties
  <2>2. CASE n < k
    BY <2>1, <2>2, <1>1
  <2>3. CASE ~(n < k)
    <3>1. n - (k - 1) \in 1 .. Len(b) /\ n - (k - 1) + k = n + 1
      BY <2>3, <1>2
    <3>2. b[n - (k - 1)] = c[n - (k - 1) + k]
      BY <3>1, <1>2
    <3> QED
      BY <2>1, <2>3, <3>1, <3>2
  <2> QED
    BY <2>2, <2>3
<1> QED
  BY <1>3, <1>4, <1>5, <1>6

(* An entry that is dropped leaves the others in their order, once each. *)
LEMMA DropTakesOut ==
  ASSUME NEW c \in Seq(Items), Distinct(c), NEW i
  PROVE  /\ Drop(c, i) \in Seq(Items) /\ Distinct(Drop(c, i))
         /\ Among(Drop(c, i), c) /\ ~Contains(Drop(c, i), i)
<1>1. CASE ~Contains(c, i)
  BY <1>1 DEF Drop, Among, Contains
<1>2. CASE Contains(c, i)
  <2> DEFINE k == PlaceOf(c, i)
             d == RemoveAt(c, k)
  <2>1. k \in 1 .. Len(c) /\ c[k] = i
    <3>1. DOMAIN c = 1 .. Len(c)
      OBVIOUS
    <3>2. \E n \in DOMAIN c : c[n] = i
      BY <1>2, <3>1 DEF Contains
    <3> QED
      BY <3>1, <3>2 DEF PlaceOf
  <2>2. d = Drop(c, i)
    BY <1>2 DEF Drop
  <2> HIDE DEF k
  <2>3. /\ d \in Seq(Items) /\ Len(d) = Len(c) - 1
        /\ \A n \in 1 .. Len(c) - 1 : d[n] = c[IF n < k THEN n ELSE n + 1]
    BY <2>1, RemoveKeeps
  <2> HIDE DEF d
  <2> DEFINE was(n) == IF n < k THEN n ELSE n + 1
  <2>a. \A n \in 1 .. Len(d) : was(n) \in 1 .. Len(c) /\ was(n) # k /\ d[n] = c[was(n)]
    <3>1. k \in Nat /\ Len(c) \in Nat
      BY <2>1
    <3>2. \A n \in 1 .. Len(d) : was(n) \in 1 .. Len(c) /\ was(n) # k
      BY <2>1, <2>3, <3>1
    <3> QED
      BY <2>3, <3>2
  <2>b. \A m, n \in 1 .. Len(d) : was(m) = was(n) => m = n
    BY <2>1
  <2> HIDE DEF was
  <2>4. ASSUME NEW m \in 1 .. Len(d), NEW n \in 1 .. Len(d), d[m] = d[n]
        PROVE  m = n
    <3>1. was(m) = was(n)
      BY <2>a, <2>4 DEF Distinct
    <3> QED
      BY <2>b, <3>1
  <2>5. ASSUME NEW n \in 1 .. Len(d)
        PROVE  d[n] # i /\ \E m \in 1 .. Len(c) : c[m] = d[n]
    <3>1. was(n) \in 1 .. Len(c) /\ was(n) # k /\ d[n] = c[was(n)]
      BY <2>a
    <3> QED
      BY <2>1, <3>1 DEF Distinct
  <2> QED
    BY <2>2, <2>3, <2>4, <2>5 DEF Distinct, Among, Contains
<1> QED
  BY <1>1, <1>2

(* What is put in front is the one that is new. *)
LEMMA PutAddsOne ==
  ASSUME TiersAssumption, NEW c \in Seq(Items), Distinct(c), NEW i \in Items
  PROVE  /\ Put(c, i) \in Seq(Items) /\ Distinct(Put(c, i))
         /\ \A j : Contains(Put(c, i), j) => j = i \/ Contains(c, j)
<1> DEFINE d == IF Contains(c, i) \/ Len(c) < CacheSize THEN Drop(c, i) ELSE Front(c)
<1>1. d \in Seq(Items) /\ Distinct(d) /\ Among(d, c) /\ ~Contains(d, i)
  <2>1. CASE Contains(c, i) \/ Len(c) < CacheSize
    BY <2>1, DropTakesOut
  <2>2. CASE ~(Contains(c, i) \/ Len(c) < CacheSize)
    <3>1. Len(c) >= 1
      BY <2>2 DEF TiersAssumption
    <3>2. d = Front(c)
      BY <2>2
    <3> HIDE DEF d
    <3>3. d \in Seq(Items) /\ Distinct(d) /\ Among(d, c)
      BY <3>1, <3>2, FrontKeeps
    <3> QED
      BY <2>2, <3>3 DEF Among, Contains
  <2> QED
    BY <2>1, <2>2
<1>2. Put(c, i) = <<i>> \o d
  BY DEF Put
<1> HIDE DEF d
<1> DEFINE e == <<i>> \o d
<1>3. /\ e \in Seq(Items) /\ Len(e) = Len(d) + 1 /\ e[1] = i
      /\ \A n \in 2 .. Len(e) : e[n] = d[n - 1] /\ n - 1 \in 1 .. Len(d)
  BY <1>1
<1> HIDE DEF e
<1>4. ASSUME NEW n \in 2 .. Len(e)
      PROVE  e[n] # i /\ Contains(c, e[n])
  <2>1. e[n] = d[n - 1] /\ n - 1 \in 1 .. Len(d)
    BY <1>3
  <2>2. Contains(d, e[n]) /\ Contains(c, e[n])
    BY <2>1, <1>1 DEF Among, Contains
  <2> QED
    BY <2>2, <1>1
<1>5. ASSUME NEW m \in 1 .. Len(e), NEW n \in 1 .. Len(e), e[m] = e[n]
      PROVE  m = n
  <2>1. CASE m = 1 \/ n = 1
    BY <2>1, <1>1, <1>3, <1>4, <1>5
  <2>2. CASE m # 1 /\ n # 1
    <3>1. m \in 2 .. Len(e) /\ n \in 2 .. Len(e)
      BY <2>2, <1>1, <1>3
    <3>2. d[m - 1] = d[n - 1] /\ m - 1 \in 1 .. Len(d) /\ n - 1 \in 1 .. Len(d)
      BY <3>1, <1>3, <1>5
    <3>3. m - 1 = n - 1
      BY <3>2, <1>1 DEF Distinct
    <3> QED
      BY <3>3
  <2> QED
    BY <2>1, <2>2
<1>6. ASSUME NEW j, Contains(e, j)
      PROVE  j = i \/ Contains(c, j)
  <2>1. PICK n \in 1 .. Len(e) : e[n] = j
    BY <1>6 DEF Contains
  <2>2. n = 1 \/ n \in 2 .. Len(e)
    BY <1>1, <1>3
  <2> QED
    BY <2>1, <2>2, <1>3, <1>4
<1>7. Put(c, i) = e
  BY <1>2 DEF e
<1> QED
  BY <1>3, <1>5, <1>6, <1>7 DEF Distinct

LEMMA PrefixOf ==
  ASSUME NEW c \in Seq(Items), NEW n \in 0 .. Len(c)
  PROVE  SubSeq(c, 1, n) \in Seq(Items) /\ \A i : Contains(SubSeq(c, 1, n), i) => Contains(c, i)
<1> DEFINE d == SubSeq(c, 1, n)
<1>1. d \in Seq(Items) /\ Len(d) = n /\ \A m \in 1 .. n : d[m] = c[m]
  OBVIOUS
<1> HIDE DEF d
<1>2. \A i : Contains(d, i) => Contains(c, i)
  BY <1>1 DEF Contains
<1> QED
  BY <1>1, <1>2 DEF d

LEMMA FirstOfIs ==
  ASSUME TiersAssumption, NEW c \in Seq(Items)
  PROVE  FirstOf(c) \in Seq(Items) /\ \A i : Contains(FirstOf(c), i) => Contains(c, i)
<1>1. Min({Len(c), MostFound}) \in 0 .. Len(c)
  BY MinOfTwo DEF TiersAssumption
<1> QED
  BY <1>1, PrefixOf DEF FirstOf

LEMMA OrderOf ==
  ASSUME TiersAssumption, NEW S \in SUBSET Items, NEW c \in SetToSeqs(S)
  PROVE  c \in Seq(Items) /\ \A i : Contains(c, i) => i \in S
<1>1. Cardinality(S) \in Nat
  BY FS_Subset, FS_CardinalityType DEF TiersAssumption
<1>2. c \in [1 .. Cardinality(S) -> S]
  BY DEF SetToSeqs
<1>3. c \in Seq(S) /\ c \in Seq(Items)
  BY <1>1, <1>2
<1> QED
  BY <1>3 DEF Contains

LEMMA ComingIs ==
  ASSUME TierTypes, NEW i
  PROVE  Coming(i) <=> OnItsWay(i)
<1>1. \A s \in Searchers : tiered[s].found \in Seq(Items) /\ tiered[s].todo \in Seq(Items)
  BY DEF TierTypes, TierRecords
<1> QED
  BY <1>1, InRange DEF Coming, OnItsWay

(* A searcher comes to hold only what was cached or on its way, or is in the index, or
   is counted among the missed. *)
LEMMA SearcherMoves ==
  ASSUME TierInv, NEW s \in Searchers, NEW w \in TierRecords,
         tiered' = [tiered EXCEPT ![s] = w], UNCHANGED <<indexed, evictor, toTell>>,
         hot' \in Seq(Items), Distinct(hot'), missed \subseteq missed',
         \A i \in Items : Contains(hot', i) \/ Contains(w.found, i) \/ Contains(w.todo, i)
                            => Contains(hot, i) \/ Coming(i) \/ i \in indexed \/ i \in missed'
  PROVE  TierInv'
<1>1. tiered' \in [Searchers -> TierRecords] /\ tiered'[s] = w
      /\ \A p \in Searchers \ {s} : tiered'[p] = tiered[p]
  BY DEF TierInv, TierTypes
<1>2. TierTypes'
  BY <1>1 DEF TierInv, TierTypes, Distinct
<1>3. ASSUME NEW i \in Items, Contains(hot', i) \/ Coming(i)', i \notin indexed'
      PROVE  BeingTold(i)' \/ i \in missed'
  <2>1. Contains(hot, i) \/ Coming(i) \/ i \in missed'
    BY <1>1, <1>3 DEF Coming
  <2>2. BeingTold(i)' <=> BeingTold(i)
    BY DEF BeingTold
  <2> QED
    BY <1>3, <2>1, <2>2 DEF TierInv, CopiesFollow
<1> QED
  BY <1>2, <1>3 DEF TierInv, CopiesFollow

LEMMA SearchCacheKeeps ==
  ASSUME TiersAssumption, TierInv, NEW s \in Searchers, NEW near \in Nearness, SearchCache(s, near)
  PROVE  TierInv'
<1> DEFINE cached == {i \in Range(hot) : near[i] >= Least}
<1>1. cached \in SUBSET Items /\ \A i \in cached : Contains(hot, i)
  <2>1. hot \in Seq(Items)
    BY DEF TierInv, TierTypes
  <2>2. \A i \in cached : Contains(hot, i)
    BY <2>1, InRange
  <2>3. \A i : Contains(hot, i) => i \in Items
    BY <2>1 DEF Contains
  <2> QED
    BY <2>2, <2>3
<1>2. PICK best \in Nearest(cached, near) : tiered' = [tiered EXCEPT ![s] =
          [NoSearch EXCEPT !.near = near,
             !.pc    = IF \E i \in cached : near[i] >= Hit THEN "answered" ELSE "index",
             !.found = IF \E i \in cached : near[i] >= Hit THEN FirstOf(best) ELSE <<>>]]
  BY DEF SearchCache
<1>3. best \in SetToSeqs(cached)
  BY <1>2 DEF Nearest, Orders
<1> HIDE DEF cached
<1>4. best \in Seq(Items) /\ \A i : Contains(best, i) => Contains(hot, i)
  BY <1>1, <1>3, OrderOf
<1>5. FirstOf(best) \in Seq(Items) /\ \A i : Contains(FirstOf(best), i) => Contains(hot, i)
  BY <1>4, FirstOfIs
<1> DEFINE found == IF \E i \in cached : near[i] >= Hit THEN FirstOf(best) ELSE <<>>
           w == [NoSearch EXCEPT !.near = near,
                    !.pc = IF \E i \in cached : near[i] >= Hit THEN "answered" ELSE "index",
                    !.found = found]
<1>6. \A i : ~Contains(<<>>, i)
  BY DEF Contains
<1>7. found \in Seq(Items) /\ \A i : Contains(found, i) => Contains(hot, i)
  BY <1>5, <1>6
<1> DEFINE pc == IF \E i \in cached : near[i] >= Hit THEN "answered" ELSE "index"
<1>8. tiered' = [tiered EXCEPT ![s] = w]
  BY <1>2
<1>9. pc \in {"answered", "index"} /\ w = [NoSearch EXCEPT !.near = near, !.pc = pc, !.found = found]
  OBVIOUS
<1> HIDE DEF found, pc, w
<1>10. w \in TierRecords /\ w.found = found /\ w.todo = <<>>
  <2>1. NoSearch \in TierRecords /\ NoSearch.todo = <<>>
    BY DEF NoSearch, TierRecords
  <2> QED
    BY <2>1, <1>7, <1>9 DEF TierRecords
<1>12. UNCHANGED <<indexed, evictor, toTell, hot, missed>>
  BY DEF SearchCache
<1> QED
  BY <1>6, <1>7, <1>8, <1>10, <1>12, SearcherMoves DEF TierInv, TierTypes

LEMMA SearchIndexKeeps ==
  ASSUME TiersAssumption, TierInv, NEW s \in Searchers, SearchIndex(s)
  PROVE  TierInv'
<1> DEFINE S == {i \in indexed \cap Eligible : tiered[s].near[i] >= Least}
<1>1. S \in SUBSET Items /\ S \subseteq indexed
  BY DEF TierInv, TierTypes
<1>2. PICK results \in ById(S) :
        tiered' = [tiered EXCEPT ![s] =
          [@ EXCEPT !.pc = "promote", !.found = FirstOf(results), !.todo = FirstOf(results)]]
  BY DEF SearchIndex
<1>3. results \in SetToSeqs(S)
  BY <1>2 DEF ById, Orders
<1> HIDE DEF S
<1>4. results \in Seq(Items) /\ \A i : Contains(results, i) => i \in indexed
  BY <1>1, <1>3, OrderOf
<1> DEFINE few == FirstOf(results)
           w == [tiered[s] EXCEPT !.pc = "promote", !.found = few, !.todo = few]
<1>5. few \in Seq(Items) /\ \A i : Contains(few, i) => i \in indexed
  BY <1>4, FirstOfIs
<1>6. tiered \in [Searchers -> TierRecords] /\ tiered[s] \in TierRecords
  BY DEF TierInv, TierTypes
<1>7. tiered' = [tiered EXCEPT ![s] = w]
  BY <1>2
<1> HIDE DEF few
<1>8. w \in TierRecords /\ w.found = few /\ w.todo = few
  BY <1>5, <1>6 DEF TierRecords
<1>9. UNCHANGED <<indexed, evictor, toTell, hot, missed>>
  BY DEF SearchIndex
<1> HIDE DEF w
<1> QED
  BY <1>5, <1>7, <1>8, <1>9, SearcherMoves DEF TierInv, TierTypes

LEMMA PromoteKeeps ==
  ASSUME TiersAssumption, TierInv, NEW s \in Searchers, Promote(s)
  PROVE  TierInv'
<1> DEFINE i == Head(tiered[s].todo)
           w == [tiered[s] EXCEPT !.todo = Tail(@)]
<1>1. tiered \in [Searchers -> TierRecords] /\ tiered[s] \in TierRecords
  BY DEF TierInv, TierTypes
<1>2. tiered[s].todo \in Seq(Items) /\ tiered[s].todo # <<>>
  BY <1>1 DEF TierRecords, Promote
<1>3. i \in Items /\ Contains(tiered[s].todo, i)
  BY <1>2 DEF Contains
<1>4. Tail(tiered[s].todo) \in Seq(Items)
      /\ \A j : Contains(Tail(tiered[s].todo), j) => Contains(tiered[s].todo, j)
  BY <1>2 DEF Contains
<1>5. w \in TierRecords /\ w.found = tiered[s].found /\ w.todo = Tail(tiered[s].todo)
  BY <1>1, <1>4 DEF TierRecords
<1>6. tiered' = [tiered EXCEPT ![s] = w]
  BY <1>1 DEF Promote
<1>7. hot' = hot \/ hot' = Put(hot, i)
  BY DEF Promote
<1> HIDE DEF w, i
<1>8. hot' \in Seq(Items) /\ Distinct(hot') /\ \A j : Contains(hot', j) => j = i \/ Contains(hot, j)
  BY <1>3, <1>7, PutAddsOne DEF TierInv, TierTypes
<1>9. UNCHANGED <<indexed, evictor, toTell, missed>>
  BY DEF Promote
<1> QED
  BY <1>3, <1>4, <1>5, <1>6, <1>8, <1>9, SearcherMoves DEF Coming

LEMMA SearchWordsKeeps ==
  ASSUME TiersAssumption, TierInv, NEW s \in Searchers, SearchWords(s)
  PROVE  TierInv'
<1> DEFINE near == tiered[s].near
           found == tiered[s].found
<1>1. PICK W \in SUBSET {i \in Eligible : near[i] >= Least} : \E words \in SetToSeqs(W) :
        /\ \E merged \in MergeResults(found, words, near) :
             tiered' = [tiered EXCEPT ![s] =
               [@ EXCEPT !.pc = "promoteWords", !.found = FirstOf(merged), !.todo = words]]
        /\ missed' = missed \cup (W \ indexed)
  BY DEF SearchWords
<1>2. PICK words \in SetToSeqs(W) :
        /\ \E merged \in MergeResults(found, words, near) :
             tiered' = [tiered EXCEPT ![s] =
               [@ EXCEPT !.pc = "promoteWords", !.found = FirstOf(merged), !.todo = words]]
        /\ missed' = missed \cup (W \ indexed)
  BY <1>1
<1>3. PICK merged \in MergeResults(found, words, near) :
        tiered' = [tiered EXCEPT ![s] =
          [@ EXCEPT !.pc = "promoteWords", !.found = FirstOf(merged), !.todo = words]]
  BY <1>2
<1>4. W \in SUBSET Items
  BY DEF Eligible
<1>5. words \in Seq(Items) /\ \A i : Contains(words, i) => i \in W
  BY <1>4, OrderOf
<1>6. tiered \in [Searchers -> TierRecords] /\ tiered[s] \in TierRecords /\ found \in Seq(Items)
  BY DEF TierInv, TierTypes, TierRecords
<1> DEFINE S == Range(found) \cup Range(words)
<1>7. S \in SUBSET Items /\ \A i \in S : Contains(found, i) \/ Contains(words, i)
  <2>1. \A i \in S : Contains(found, i) \/ Contains(words, i)
    BY <1>5, <1>6, InRange
  <2>2. \A i : Contains(found, i) \/ Contains(words, i) => i \in Items
    BY <1>5, <1>6 DEF Contains
  <2> QED
    BY <2>1, <2>2
<1>8. merged \in SetToSeqs(S)
  BY <1>3 DEF MergeResults, Nearest, Orders
<1> HIDE DEF S, found
<1>9. merged \in Seq(Items) /\ \A i : Contains(merged, i) => Contains(found, i) \/ Contains(words, i)
  BY <1>7, <1>8, OrderOf
<1> DEFINE few == FirstOf(merged)
           w == [tiered[s] EXCEPT !.pc = "promoteWords", !.found = few, !.todo = words]
<1>10. few \in Seq(Items) /\ \A i : Contains(few, i) => Contains(found, i) \/ Contains(words, i)
  BY <1>9, FirstOfIs
<1>11. tiered' = [tiered EXCEPT ![s] = w]
  BY <1>3
<1> HIDE DEF few
<1>12. w \in TierRecords /\ w.found = few /\ w.todo = words
  BY <1>5, <1>6, <1>10 DEF TierRecords
<1>13. UNCHANGED <<indexed, evictor, toTell, hot>>
  BY DEF SearchWords
<1> HIDE DEF w
<1>14. \A i : Contains(found, i) => Coming(i)
  BY DEF Coming, found
<1> QED
  BY <1>2, <1>5, <1>10, <1>11, <1>12, <1>13, <1>14, SearcherMoves DEF TierInv, TierTypes

LEMMA AccessedOrDoneKeeps ==
  ASSUME TierInv, NEW s \in Searchers, Accessed(s) \/ Done(s)
  PROVE  TierInv'
<1>1. tiered[s] \in TierRecords /\ tiered[s].found \in Seq(Items)
  BY DEF TierInv, TierTypes, TierRecords
<1>2. NoSearch \in TierRecords /\ NoSearch.found = <<>> /\ NoSearch.todo = <<>>
  BY DEF NoSearch, TierRecords
<1>3. \A i : ~Contains(<<>>, i)
  BY DEF Contains
<1>4. CASE Done(s)
  BY <1>2, <1>3, <1>4, SearcherMoves DEF Done, TierInv, TierTypes
<1>5. CASE Accessed(s)
  <2> DEFINE w == [NoSearch EXCEPT !.pc = "accessed", !.todo = tiered[s].found]
  <2>1. w \in TierRecords /\ w.found = <<>> /\ w.todo = tiered[s].found
    BY <1>1, <1>2 DEF TierRecords
  <2>2. tiered' = [tiered EXCEPT ![s] = w] /\ UNCHANGED <<indexed, evictor, toTell, hot, missed>>
    BY <1>5 DEF Accessed
  <2> HIDE DEF w
  <2>3. \A i : Contains(tiered[s].found, i) => Coming(i)
    BY DEF Coming
  <2> QED
    BY <1>3, <2>1, <2>2, <2>3, SearcherMoves DEF TierInv, TierTypes
<1> QED
  BY <1>4, <1>5

(* The writers and the jobs: what is told stays to be told, or is out of the cache. *)
LEMMA WriterMoves ==
  ASSUME TierInv, TierTypes', tiered' = tiered, missed \subseteq missed',
         NEW j \in Items,
         \A i \in Items \ {j} :
           /\ i \in indexed => i \in indexed'
           /\ BeingTold(i) => BeingTold(i)'
           /\ Contains(hot', i) => Contains(hot, i)
           /\ <<"created", i>> \in toTell' => <<"created", i>> \in toTell,
         (Contains(hot', j) \/ Coming(j)') /\ j \notin indexed' => BeingTold(j)' \/ j \in missed'
  PROVE  TierInv'
<1>1. ASSUME NEW i \in Items, Contains(hot', i) \/ Coming(i)', i \notin indexed'
      PROVE  BeingTold(i)' \/ i \in missed'
  <2>1. CASE i = j
    BY <1>1, <2>1
  <2>2. CASE i # j
    <3>1. (Contains(hot, i) \/ Coming(i)) /\ i \notin indexed
      BY <1>1, <2>2 DEF Coming
    <3> QED
      BY <2>2, <3>1 DEF TierInv, CopiesFollow
  <2> QED
    BY <2>1, <2>2
<1> QED
  BY <1>1 DEF TierInv, CopiesFollow

LEMMA TouchOrCreatedKeeps ==
  ASSUME TiersAssumption, TierInv, NEW i \in Items, Touch(i) \/ OnMemoryCreated(i)
  PROVE  TierInv'
<1>1. /\ hot' = Put(hot, i) /\ UNCHANGED <<indexed, tiered, evictor, missed>>
      /\ Contains(hot, i) \/ Coming(i)
      /\ \A x \in Items : <<"deleted", x>> \in toTell <=> <<"deleted", x>> \in toTell'
      /\ \A x \in Items : <<"created", x>> \in toTell' => <<"created", x>> \in toTell
  BY DEF Touch, OnMemoryCreated, Coming
<1>2. hot' \in Seq(Items) /\ Distinct(hot') /\ \A x : Contains(hot', x) => x = i \/ Contains(hot, x)
  BY <1>1, PutAddsOne DEF TierInv, TierTypes
<1>3. TierTypes'
  BY <1>1, <1>2 DEF TierInv, TierTypes, Distinct
<1>4. \A x \in Items : BeingTold(x)' <=> BeingTold(x)
  BY <1>1 DEF BeingTold
<1> QED
  BY <1>1, <1>2, <1>3, <1>4, WriterMoves DEF TierInv, CopiesFollow

LEMMA CreateOrDeleteKeeps ==
  ASSUME TiersAssumption, TierInv, NEW i \in Items, CreateItem(i) \/ DeleteItem(i)
  PROVE  TierInv'
<1>1. UNCHANGED <<hot, tiered, evictor, missed>>
  BY DEF CreateItem, DeleteItem
<1>2. \/ indexed' = indexed \cup {i} /\ toTell' = toTell \cup {<<"created", i>>}
      \/ indexed' = indexed \ {i} /\ toTell' = toTell \cup {<<"deleted", i>>}
  BY DEF CreateItem, DeleteItem
<1>3. TierTypes'
  BY <1>1, <1>2 DEF TierInv, TierTypes, Distinct
<1>4. \A x \in Items : BeingTold(x) => BeingTold(x)'
  BY <1>1, <1>2 DEF BeingTold
<1>5. \A x \in Items \ {i} : <<"created", x>> \in toTell' => <<"created", x>> \in toTell
  BY <1>2
<1>6. \A x \in Items \ {i} : x \in indexed => x \in indexed'
  BY <1>2
<1>7. i \in indexed' \/ BeingTold(i)'
  BY <1>2 DEF BeingTold
<1> QED
  BY <1>1, <1>3, <1>4, <1>5, <1>6, <1>7, WriterMoves

LEMMA DeletedKeeps ==
  ASSUME TiersAssumption, TierInv, NEW i \in Items, OnMemoryDeleted(i)
  PROVE  TierInv'
<1>1. /\ hot' = Drop(hot, i) /\ UNCHANGED <<indexed, tiered, evictor>>
      /\ missed' = IF OnItsWay(i) THEN missed \cup {i} ELSE missed
      /\ toTell' = toTell \ {<<"deleted", i>>}
  BY DEF OnMemoryDeleted, Told
<1>2. /\ hot' \in Seq(Items) /\ Distinct(hot') /\ ~Contains(hot', i)
      /\ \A x : Contains(hot', x) => Contains(hot, x)
  <2>1. hot \in Seq(Items) /\ Distinct(hot)
    BY DEF TierInv, TierTypes
  <2>2. hot' \in Seq(Items) /\ Distinct(hot') /\ ~Contains(hot', i) /\ Among(hot', hot)
    BY <1>1, <2>1, DropTakesOut
  <2> QED
    BY <2>2 DEF Among, Contains
<1>3. TierTypes'
  BY <1>1, <1>2 DEF TierInv, TierTypes, Distinct
<1>4. \A x \in Items \ {i} : BeingTold(x) => BeingTold(x)'
  BY <1>1 DEF BeingTold
<1>5. Coming(i)' => i \in missed'
  BY <1>1, ComingIs DEF TierInv, Coming
<1> QED
  BY <1>1, <1>2, <1>3, <1>4, <1>5, WriterMoves

LEMMA AgeItemKeeps ==
  ASSUME TiersAssumption, TierInv, NEW i \in Items, AgeItem(i)
  PROVE  TierInv'
<1>1. /\ UNCHANGED <<hot, tiered, evictor, toTell>>
      /\ UNCHANGED <<indexed, missed>> \/ LeavesUntold(i)
  BY DEF AgeItem
<1>2. indexed \ {i} \subseteq indexed' /\ indexed' \subseteq indexed /\ missed \subseteq missed'
  BY <1>1 DEF LeavesUntold
<1>3. TierTypes'
  BY <1>1, <1>2 DEF TierInv, TierTypes, Distinct
<1>4. \A x \in Items : BeingTold(x) => BeingTold(x)'
  BY <1>1 DEF BeingTold
<1>5. (Contains(hot', i) \/ Coming(i)') /\ i \notin indexed' => BeingTold(i)' \/ i \in missed'
  <2>1. Coming(i)' <=> Coming(i)
    BY <1>1 DEF Coming
  <2>2. CASE UNCHANGED <<indexed, missed>>
    BY <1>1, <1>4, <2>1, <2>2 DEF TierInv, CopiesFollow
  <2>3. CASE LeavesUntold(i)
    BY <1>1, <2>1, <2>3, ComingIs DEF TierInv, LeavesUntold
  <2> QED
    BY <1>1, <2>2, <2>3
<1> QED
  BY <1>1, <1>2, <1>3, <1>4, <1>5, WriterMoves

(* An evictor that is not about to tell. *)
LEMMA EvictorMoves ==
  ASSUME TierInv, NEW p \in Evictors, NEW w \in EvictorRecords,
         evictor' = [evictor EXCEPT ![p] = w], evictor[p].pc # "tell", w.pc # "tell",
         w.pc = "delete" => w.list # <<>>,
         UNCHANGED <<hot, indexed, tiered, toTell, missed>>
  PROVE  TierInv'
<1>1. evictor' \in [Evictors -> EvictorRecords] /\ evictor'[p] = w
      /\ \A q \in Evictors \ {p} : evictor'[q] = evictor[q]
  BY DEF TierInv, TierTypes
<1>2. TierTypes'
  BY <1>1 DEF TierInv, TierTypes, Distinct
<1>3. \A i : BeingTold(i)' <=> BeingTold(i)
  BY <1>1 DEF BeingTold
<1>4. \A i : Coming(i)' <=> Coming(i)
  BY DEF Coming
<1> QED
  BY <1>2, <1>3, <1>4 DEF TierInv, CopiesFollow

LEMMA MaxOfTwo ==
  ASSUME NEW a \in Nat, NEW b \in Nat
  PROVE  Max({a, b}) \in Nat
<1>1. \E x \in {a, b} : \A y \in {a, b} : x >= y
  OBVIOUS
<1> QED
  BY <1>1 DEF Max

LEMMA EvictorRestsKeeps ==
  ASSUME TiersAssumption, TierInv, NEW p \in Evictors,
         MeasureIndex(p) \/ RankIndexed(p) \/ EvictionEnds(p)
  PROVE  TierInv'
<1>1. evictor[p] \in EvictorRecords /\ UNCHANGED <<hot, indexed, tiered, toTell, missed>>
  BY DEF TierInv, TierTypes, MeasureIndex, RankIndexed, EvictionEnds
<1>2. CASE MeasureIndex(p)
  <2> DEFINE excess == Cardinality(indexed) - MaxIndexed
             pc     == IF excess > 0 THEN "rank" ELSE "file"
             few    == Max({0, Min({excess, BatchLimit})})
             w      == [evictor[p] EXCEPT !.pc = pc, !.excess = few]
  <2>1. evictor' = [evictor EXCEPT ![p] = w] /\ evictor[p].pc = "idle"
    BY <1>2 DEF MeasureIndex
  <2>2. pc \in {"rank", "file"}
    OBVIOUS
  <2>3. excess \in Int
    <3>1. indexed \in SUBSET Items
      BY DEF TierInv, TierTypes
    <3>2. Cardinality(indexed) \in Nat
      BY <3>1, FS_Subset, FS_CardinalityType DEF TiersAssumption
    <3> QED
      BY <3>2 DEF TiersAssumption
  <2> HIDE DEF excess
  <2>4. Min({excess, BatchLimit}) \in Int
    <3>1. \E x \in {excess, BatchLimit} : \A y \in {excess, BatchLimit} : x <= y
      BY <2>3 DEF TiersAssumption
    <3> QED
      BY <2>3, <3>1 DEF Min, TiersAssumption
  <2>5. few \in Int
    <3> DEFINE m == Min({excess, BatchLimit})
    <3>1. m \in Int
      BY <2>4
    <3> HIDE DEF m
    <3>2. \E x \in {0, m} : \A y \in {0, m} : x >= y
      BY <3>1
    <3>3. Max({0, m}) \in {0, m}
      BY <3>2 DEF Max
    <3>4. Max({0, m}) \in Int
      BY <3>1, <3>3
    <3> QED
      BY <3>4 DEF m
  <2> HIDE DEF pc, few
  <2>6. w \in EvictorRecords /\ w.pc = pc
    BY <1>1, <2>2, <2>5 DEF EvictorRecords
  <2> HIDE DEF w
  <2> QED
    BY <1>1, <2>1, <2>2, <2>6, EvictorMoves
<1>3. CASE RankIndexed(p)
  <2>1. PICK list \in Ascending(indexed) :
          evictor' = [evictor EXCEPT ![p] = [@ EXCEPT !.pc = "evict", !.list = list]]
    BY <1>3 DEF RankIndexed
  <2>2. list \in SetToSeqs(indexed) /\ evictor[p].pc = "rank"
    BY <1>3, <2>1 DEF Ascending, Orders, RankIndexed
  <2>3. list \in Seq(Items)
    BY <2>2, OrderOf DEF TierInv, TierTypes
  <2> DEFINE w == [evictor[p] EXCEPT !.pc = "evict", !.list = list]
  <2>4. w \in EvictorRecords /\ w.pc = "evict" /\ evictor' = [evictor EXCEPT ![p] = w]
    BY <1>1, <2>1, <2>3 DEF EvictorRecords
  <2> HIDE DEF w
  <2> QED
    BY <1>1, <2>2, <2>4, EvictorMoves
<1>4. CASE EvictionEnds(p)
  <2> DEFINE w == IF p = "job" THEN [NoEviction EXCEPT !.pc = "file"] ELSE NoEviction
  <2>1. evictor' = [evictor EXCEPT ![p] = w] /\ evictor[p].pc = "evict"
    BY <1>4 DEF EvictionEnds
  <2>2. w \in EvictorRecords /\ w.pc \in {"file", "idle"}
    <3>1. NoEviction \in EvictorRecords /\ NoEviction.pc = "idle"
      BY DEF EvictorRecords, NoEviction
    <3> QED
      BY <3>1 DEF EvictorRecords
  <2> HIDE DEF w
  <2> QED
    BY <1>1, <2>1, <2>2, EvictorMoves
<1> QED
  BY <1>2, <1>3, <1>4

LEMMA EvictNextKeeps ==
  ASSUME TiersAssumption, TierInv, NEW p \in Evictors, EvictNext(p)
  PROVE  TierInv'
<1> DEFINE list == evictor[p].list
           w    == [evictor[p] EXCEPT !.pc = "tell", !.excess = @ - 1]
<1>1. evictor \in [Evictors -> EvictorRecords] /\ evictor[p] \in EvictorRecords
  BY DEF TierInv, TierTypes
<1>2. list \in Seq(Items) /\ list # <<>> /\ evictor[p].pc = "evict"
  BY <1>1 DEF EvictorRecords, EvictNext
<1>3. w \in EvictorRecords /\ w.pc = "tell" /\ w.list = list
  <2>1. evictor[p].excess - 1 \in Int
    BY <1>1 DEF EvictorRecords
  <2> QED
    BY <1>1, <2>1 DEF EvictorRecords
<1>4. evictor' = [evictor EXCEPT ![p] = w] /\ indexed' = indexed \ {Head(list)}
      /\ UNCHANGED <<hot, tiered, toTell, missed>>
  BY DEF EvictNext
<1>5. PICK i \in Items : i = Head(list)
  BY <1>2
<1> HIDE DEF w, list
<1>6. evictor' \in [Evictors -> EvictorRecords] /\ evictor'[p] = w
      /\ \A q \in Evictors \ {p} : evictor'[q] = evictor[q]
  BY <1>1, <1>3, <1>4
<1>7. TierTypes'
  BY <1>2, <1>3, <1>4, <1>6 DEF TierInv, TierTypes, Distinct
<1>8. \A j : BeingTold(j) => BeingTold(j)'
  BY <1>2, <1>4, <1>6 DEF BeingTold
<1>9. BeingTold(i)' /\ indexed' = indexed \ {i}
  BY <1>3, <1>4, <1>5, <1>6 DEF BeingTold
<1> QED
  BY <1>4, <1>5, <1>7, <1>8, <1>9, WriterMoves

LEMMA TellEvictedKeeps ==
  ASSUME TiersAssumption, TierInv, NEW p \in Evictors, TellEvicted(p)
  PROVE  TierInv'
<1> DEFINE list == evictor[p].list
           w    == [evictor[p] EXCEPT !.pc = "evict", !.list = Tail(@)]
<1>1. evictor \in [Evictors -> EvictorRecords] /\ evictor[p] \in EvictorRecords
  BY DEF TierInv, TierTypes
<1>2. list \in Seq(Items) /\ list # <<>> /\ evictor[p].pc = "tell"
  BY <1>1 DEF EvictorRecords, TellEvicted, TierInv, TierTypes
<1>3. Tail(list) \in Seq(Items) /\ Head(list) \in Items
  BY <1>2
<1>4. PICK i \in Items : i = Head(list)
  BY <1>3
<1>5. w \in EvictorRecords /\ w.pc = "evict"
  BY <1>1, <1>3 DEF EvictorRecords
<1>6. /\ evictor' = [evictor EXCEPT ![p] = w] /\ hot' = Drop(hot, i)
      /\ missed' = IF OnItsWay(i) THEN missed \cup {i} ELSE missed
      /\ UNCHANGED <<indexed, tiered, toTell>>
  BY <1>4 DEF TellEvicted, Told
<1>7. /\ hot' \in Seq(Items) /\ Distinct(hot') /\ ~Contains(hot', i)
      /\ \A x : Contains(hot', x) => Contains(hot, x)
  <2>1. hot \in Seq(Items) /\ Distinct(hot)
    BY DEF TierInv, TierTypes
  <2>2. hot' \in Seq(Items) /\ Distinct(hot') /\ ~Contains(hot', i) /\ Among(hot', hot)
    BY <1>6, <2>1, DropTakesOut
  <2> QED
    BY <2>2 DEF Among, Contains
<1>8. \A x : x # i => (BeingTold(x) => BeingTold(x)')
  <2> SUFFICES ASSUME NEW x, x # i, BeingTold(x)
               PROVE  BeingTold(x)'
    OBVIOUS
  <2> HIDE DEF w
  <2>1. CASE <<"deleted", x>> \in toTell
    BY <1>6, <2>1 DEF BeingTold
  <2>2. CASE \E q \in Evictors : evictor[q].pc = "tell" /\ Head(evictor[q].list) = x
    <3>1. PICK q \in Evictors : evictor[q].pc = "tell" /\ Head(evictor[q].list) = x
      BY <2>2
    <3>2. q # p
      BY <1>4, <3>1
    <3>3. evictor'[q] = evictor[q]
      BY <1>1, <1>6, <3>2
    <3> QED
      BY <3>1, <3>3 DEF BeingTold
  <2> QED
    BY <2>1, <2>2 DEF BeingTold
<1> HIDE DEF w, list
<1>9. evictor' \in [Evictors -> EvictorRecords] /\ evictor'[p] = w
      /\ \A q \in Evictors \ {p} : evictor'[q] = evictor[q]
  BY <1>1, <1>5, <1>6
<1>10. TierTypes'
  BY <1>5, <1>6, <1>7, <1>9 DEF TierInv, TierTypes, Distinct
<1>11. Coming(i)' => i \in missed'
  BY <1>6, ComingIs DEF TierInv, Coming
<1> QED
  BY <1>6, <1>7, <1>8, <1>10, <1>11, WriterMoves

LEMMA MeasureFileKeeps ==
  ASSUME TiersAssumption, TierInv, "job" \in Evictors, MeasureFile
  PROVE  TierInv'
<1> DEFINE S == {i \in Items : row[i] \in {"archived", "stale"}}
<1>1. PICK tooLarge \in BOOLEAN, least \in Ascending(S) :
        evictor' = [evictor EXCEPT !["job"] =
          IF tooLarge /\ least # <<>>
          THEN [NoEviction EXCEPT !.pc = "delete", !.list = SubSeq(least, 1, Min({Len(least), BatchLimit}))]
          ELSE NoEviction]
  BY DEF MeasureFile
<1>2. least \in SetToSeqs(S) /\ S \in SUBSET Items
  BY <1>1 DEF Ascending, Orders
<1> HIDE DEF S
<1>3. least \in Seq(Items)
  BY <1>2, OrderOf
<1> DEFINE n == Min({Len(least), BatchLimit})
           few == SubSeq(least, 1, n)
           w == IF tooLarge /\ least # <<>> THEN [NoEviction EXCEPT !.pc = "delete", !.list = few]
                ELSE NoEviction
<1>4. evictor' = [evictor EXCEPT !["job"] = w] /\ evictor["job"].pc = "file"
      /\ UNCHANGED <<hot, indexed, tiered, toTell, missed>>
  BY <1>1 DEF MeasureFile
<1>5. n \in 0 .. Len(least) /\ (least # <<>> => n >= 1)
  BY <1>3, MinOfTwo DEF TiersAssumption
<1> HIDE DEF n
<1>6. few \in Seq(Items) /\ (least # <<>> => few # <<>>)
  <2>1. few \in Seq(Items)
    BY <1>3, <1>5, PrefixOf
  <2>2. Len(few) = n
    BY <1>3, <1>5
  <2> HIDE DEF few
  <2> QED
    BY <1>5, <2>1, <2>2
<1> HIDE DEF few
<1>7. NoEviction \in EvictorRecords /\ NoEviction.pc = "idle"
  BY DEF NoEviction, EvictorRecords
<1>8. w \in EvictorRecords /\ w.pc \in {"delete", "idle"} /\ (w.pc = "delete" => w.list # <<>>)
  BY <1>6, <1>7 DEF EvictorRecords
<1> HIDE DEF w
<1> QED
  BY <1>4, <1>8, EvictorMoves

LEMMA DeleteNextKeeps ==
  ASSUME TiersAssumption, TierInv, "job" \in Evictors, DeleteNext
  PROVE  TierInv'
<1> DEFINE list == evictor["job"].list
           w    == IF Len(list) = 1 THEN NoEviction ELSE [evictor["job"] EXCEPT !.list = Tail(list)]
<1>1. evictor \in [Evictors -> EvictorRecords] /\ evictor["job"] \in EvictorRecords
  BY DEF TierInv, TierTypes
<1>2. list \in Seq(Items) /\ list # <<>> /\ evictor["job"].pc = "delete"
  BY <1>1 DEF EvictorRecords, DeleteNext, TierInv, TierTypes
<1>3. PICK i \in Items : i = Head(list)
  BY <1>2
<1>4. LeavesUntold(i) /\ evictor' = [evictor EXCEPT !["job"] = w] /\ UNCHANGED <<hot, tiered, toTell>>
  BY <1>3 DEF DeleteNext
<1>5. NoEviction \in EvictorRecords /\ NoEviction.pc = "idle"
  BY DEF NoEviction, EvictorRecords
<1>6. w \in EvictorRecords /\ w.pc # "tell" /\ (w.pc = "delete" => w.list # <<>>)
  <2>1. Len(list) # 1 => Tail(list) \in Seq(Items) /\ Tail(list) # <<>>
    <3> HIDE DEF list
    <3>1. Tail(list) \in Seq(Items)
      BY <1>2
    <3>2. Len(list) \in Nat /\ Len(list) # 0
      BY <1>2
    <3>3. Len(Tail(list)) = Len(list) - 1
      BY <1>2
    <3>4. Len(<<>>) = 0
      OBVIOUS
    <3>5. Tail(list) = <<>> => Len(Tail(list)) = 0
      BY <3>4
    <3>6. Len(list) # 1 => Tail(list) # <<>>
      BY <3>2, <3>3, <3>5
    <3> QED
      BY <3>1, <3>6
  <2> QED
    BY <1>1, <1>2, <1>5, <2>1 DEF EvictorRecords
<1> HIDE DEF w, list
<1>7. evictor' \in [Evictors -> EvictorRecords] /\ evictor'["job"] = w
      /\ \A q \in Evictors \ {"job"} : evictor'[q] = evictor[q]
  BY <1>1, <1>4, <1>6
<1>8. indexed' = indexed \ {i} /\ missed \subseteq missed'
  BY <1>4 DEF LeavesUntold
<1>9. TierTypes'
  BY <1>4, <1>6, <1>7, <1>8 DEF TierInv, TierTypes, Distinct
<1>10. \A x \in Items : BeingTold(x) => BeingTold(x)'
  <2> SUFFICES ASSUME NEW x \in Items, BeingTold(x)
               PROVE  BeingTold(x)'
    OBVIOUS
  <2>1. CASE <<"deleted", x>> \in toTell
    BY <1>4, <2>1 DEF BeingTold
  <2>2. CASE \E q \in Evictors : evictor[q].pc = "tell" /\ Head(evictor[q].list) = x
    BY <1>2, <1>7, <2>2 DEF BeingTold
  <2> QED
    BY <2>1, <2>2 DEF BeingTold
<1>11. Contains(hot', i) \/ Coming(i)' => i \in missed'
  <2>1. Coming(i)' <=> Coming(i)
    BY <1>4 DEF Coming
  <2> QED
    BY <1>4, <2>1, ComingIs DEF TierInv, LeavesUntold
<1> QED
  BY <1>4, <1>8, <1>9, <1>10, <1>11, WriterMoves

(* Every memory in the cache is in the index, or the cache is about to be told, or a copy
   was on its way when it was told or a job did not tell it (tiered_retriever.go,
   lru.go, eviction_processor.go), for any searchers, memories, similarities, evictors
   and bounds. *)
THEOREM CacheFollows == TiersSpec => []CacheFollowsTheIndex
<1>1. TiersInit => TierInv
  <2> SUFFICES ASSUME TiersInit PROVE TierInv
    OBVIOUS
  <2>1. NoSearch \in TierRecords /\ NoSearch.found = <<>> /\ NoSearch.todo = <<>>
    BY DEF NoSearch, TierRecords
  <2>2. NoEviction \in EvictorRecords /\ NoEviction.pc = "idle"
    BY DEF NoEviction, EvictorRecords
  <2>3. TierTypes
    BY <2>1, <2>2 DEF TiersInit, TierTypes, Distinct
  <2>4. \A i : ~Contains(<<>>, i)
    BY DEF Contains
  <2>5. CopiesFollow
    BY <2>1, <2>4 DEF TiersInit, CopiesFollow, Coming
  <2> QED
    BY <2>3, <2>5 DEF TierInv
<1>2. TierInv /\ [TiersNext]_tiersVars => TierInv'
  <2> SUFFICES ASSUME TierInv, [TiersNext]_tiersVars PROVE TierInv'
    OBVIOUS
  <2>1. CASE UNCHANGED tiersVars
    BY <2>1 DEF tiersVars, TierInv, TierTypes, Distinct, CopiesFollow, Coming, BeingTold
  <2>2. CASE TiersNext
    BY <2>2, TiersAssumption, SearchCacheKeeps, SearchIndexKeeps, PromoteKeeps, SearchWordsKeeps,
       AccessedOrDoneKeeps, TouchOrCreatedKeeps, CreateOrDeleteKeeps, DeletedKeeps, AgeItemKeeps,
       EvictorRestsKeeps, EvictNextKeeps, TellEvictedKeeps, MeasureFileKeeps, DeleteNextKeeps
       DEF TiersNext
  <2> QED
    BY <2>1, <2>2
<1>3. TierInv => CacheFollowsTheIndex
  <2> SUFFICES ASSUME TierInv, NEW i \in Range(hot) \ indexed
               PROVE  BeingTold(i) \/ i \in missed
    BY DEF CacheFollowsTheIndex
  <2>1. hot \in Seq(Items)
    BY DEF TierInv, TierTypes
  <2>2. Contains(hot, i) /\ i \in Items
    <3>1. Contains(hot, i)
      BY <2>1, InRange
    <3> QED
      BY <2>1, <3>1 DEF Contains
  <2> QED
    BY <2>2 DEF TierInv, CopiesFollow
<1> QED
  BY <1>1, <1>2, <1>3, PTL DEF TiersSpec

-----------------------------------------------------------------------------
(* Calls of Add.  Types, with what a call has chosen at each of its steps. *)
Deciding == {"merge", "conflict", "archive", "create"}
CallPcs  == Deciding \cup {"idle", "new", "update", "delete", "resolve", "auto"}

IsCall(r) ==
  /\ r \in [pc : CallPcs, held : {r.held}, active : SUBSET Ids, fact : Facts \cup {NoFact},
            found : Ids \cup {NoId}, text : SUBSET Facts, born : SUBSET Ids, unseen : SUBSET Ids]
  /\ DOMAIN r.held \subseteq Ids /\ r.active \subseteq DOMAIN r.held
  /\ r.pc \in {"merge", "archive"} => r.found \in Ids
  /\ r.pc \in Deciding => r.fact \in Facts

RememberTypes ==
  /\ StoreTypeOK
  /\ hash \in [Ids -> Facts \cup {NoFact}] /\ says \in [Ids -> SUBSET Facts]
  /\ blind \in [Ids -> SUBSET Ids]
  /\ call = [c \in Calls |-> call[c]] /\ \A c \in Calls : IsCall(call[c])
  /\ wanted \subseteq Facts /\ excused \subseteq Facts

(* Whoever decides about a fact saw no row of it, deleted ones aside: a row that it did not
   see may have the fact, and one that it saw has another for good. *)
Overlooks(r) ==
  r.pc \in Deciding =>
    \A i \in Ids \ r.unseen : state[i] # "unborn" /\ hash[i] # r.fact

NoDuplicateSeen ==
  /\ \A c \in Calls : Overlooks(call[c])
  /\ \A i, j \in Ids : state[i] # "unborn" /\ state[j] = "unborn" => j \in blind[i]
  /\ \A i, j \in Ids :
       i # j /\ state[i] # "unborn" /\ state[j] # "unborn" /\ hash[i] = hash[j] => i \in blind[j]

RememberInv == RememberTypes /\ NoDuplicateSeen /\ ToldIsKept

(* Ids are in the order of their creation: of some there is a first. *)
LEMMA FirstIsOne == ASSUME NEW S \in SUBSET Ids, S # {} PROVE First(S) \in S
<1>1. Ids \subseteq Nat
  BY RememberAssumption
<1>2. PICK i \in S : \A j \in S : ~ (<<j, i>> \in OpToRel(<, Nat))
  BY <1>1, NatLessThanWellFounded, WFMin
<1>3. ASSUME NEW j \in S, j < i PROVE FALSE
  <2>1. <<j, i>> \in Nat \X Nat /\ <<j, i>>[1] < <<j, i>>[2]
    BY <1>1, <1>3
  <2>2. <<j, i>> \in OpToRel(<, Nat)
    BY <2>1 DEF OpToRel
  <2> QED
    BY <1>2, <2>2
<1>4. \A j \in S : i <= j
  BY <1>1, <1>3
<1> QED
  BY <1>4 DEF First

LEMMA TargetsAreIds ==
  ASSUME RememberTypes, NEW c \in Calls, NEW asked \in Facts
  PROVE  Targets(c, asked) \subseteq Ids
<1>1. DOMAIN call[c].held \subseteq Ids
  BY DEF RememberTypes, IsCall
<1>2. Similar(asked, 2) \in SUBSET Ids
  BY DEF RememberTypes, StoreTypeOK, Similar
<1> QED
  BY <1>1, <1>2, FirstIsOne DEF Targets

(* A call's step that writes nothing. *)
LEMMA CallMoves ==
  ASSUME RememberInv, NEW c \in Calls, NEW r, GoTo(c, r), IsCall(r), Overlooks(r),
         UNCHANGED <<storeVars, hash, says, blind, wanted, excused>>
  PROVE  RememberInv'
<1>1. /\ call' = [d \in Calls |-> IF d = c THEN r ELSE call[d]]
      /\ UNCHANGED <<state, stamped, index, file, fileKind, phase, fileLags, lags, dropped>>
  BY DEF GoTo, RememberInv, RememberTypes, storeVars
<1>2. \A d \in Calls : call'[d] = (IF d = c THEN r ELSE call[d]) /\ IsCall(call'[d])
  BY <1>1 DEF RememberInv, RememberTypes
<1>3. RememberTypes'
  BY <1>1, <1>2 DEF RememberInv, RememberTypes, StoreTypeOK
<1>4. \A d \in Calls : Overlooks(call'[d])
  BY <1>2 DEF RememberInv, NoDuplicateSeen
<1>5. NoDuplicateSeen'
  BY <1>1, <1>4 DEF RememberInv, NoDuplicateSeen, Overlooks
<1>6. ToldIsKept'
  BY <1>1 DEF RememberInv, ToldIsKept, Said, SaidAt, Live
<1> QED
  BY <1>3, <1>5, <1>6 DEF RememberInv

LEMMA RestingCalls ==
  ASSUME RememberInv, NEW c \in Calls
  PROVE  /\ IsCall(call[c]) /\ IsCall(NextFact(c)) /\ NextFact(c).pc = "new"
         /\ NextFact(c).born = call[c].born
         /\ \A pc \in CallPcs \ Deciding : IsCall([call[c] EXCEPT !.pc = pc])
         /\ IsCall(Idle)
<1>1. IsCall(call[c])
  BY DEF RememberInv, RememberTypes
<1>2. IsCall(NextFact(c)) /\ NextFact(c).pc = "new" /\ NextFact(c).born = call[c].born
  BY <1>1 DEF IsCall, NextFact, CallPcs, Deciding
<1>3. \A pc \in CallPcs \ Deciding : IsCall([call[c] EXCEPT !.pc = pc])
  BY <1>1 DEF IsCall, CallPcs, Deciding
<1>4. IsCall(Idle)
  BY DEF IsCall, CallPcs, Deciding, Idle
<1> QED
  BY <1>1, <1>2, <1>3, <1>4

LEMMA BeginKeeps ==
  ASSUME RememberInv, NEW c \in Calls, NEW f \in Facts, Begin(c, f) PROVE RememberInv'
<1> DEFINE near == Similar(f, 1)
<1> DEFINE r == [Idle EXCEPT !.pc = "new", !.held = [i \in near |-> says[i]],
                             !.active = {i \in near : state[i] = "active"}]
<1>1. GoTo(c, r) /\ UNCHANGED <<storeVars, hash, says, blind, wanted, excused>>
  BY DEF Begin
<1>2. near \subseteq Ids
  BY DEF Similar, RememberInv, RememberTypes, StoreTypeOK
<1> HIDE DEF near
<1>3. IsCall(r) /\ r.pc = "new"
  BY <1>2 DEF IsCall, Idle, CallPcs, Deciding
<1> HIDE DEF r
<1>4. Overlooks(r)
  BY <1>3 DEF Overlooks, Deciding
<1> QED
  BY <1>1, <1>3, <1>4, CallMoves

LEMMA CheckDuplicateKeeps ==
  ASSUME RememberInv, NEW c \in Calls, NEW f \in Facts, CheckDuplicate(c, f)
  PROVE  RememberInv'
<1> DEFINE near == Similar(f, 3)
<1> DEFINE best == First(near)
<1> DEFINE seen == [call[c] EXCEPT !.fact = f, !.unseen = {i \in Ids : ~Live(i)}]
<1> DEFINE apart == [seen EXCEPT !.pc = "conflict"]
<1> DEFINE merging == [seen EXCEPT !.pc = "merge", !.found = best, !.text = says[best]]
<1>1. UNCHANGED <<storeVars, hash, says, blind, wanted, excused>>
  BY DEF CheckDuplicate
<1>2. \/ UNCHANGED call
      \/ ByHash(f) = {} /\ near = {} /\ GoTo(c, apart)
      \/ ByHash(f) = {} /\ near # {} /\ GoTo(c, merging)
  BY DEF CheckDuplicate
<1>3. near \in SUBSET Ids
  BY DEF Similar, RememberInv, RememberTypes, StoreTypeOK
<1>4. IsCall(call[c])
  BY DEF RememberInv, RememberTypes
<1>5. CASE UNCHANGED call
  <2>1. GoTo(c, call[c])
    BY <1>5 DEF GoTo, RememberInv, RememberTypes
  <2> QED
    BY <1>1, <1>4, <2>1, CallMoves DEF RememberInv, NoDuplicateSeen
<1>6. ASSUME ByHash(f) = {}, NEW r, r.fact = f, r.unseen = {i \in Ids : ~Live(i)}
      PROVE  Overlooks(r)
  BY <1>6 DEF ByHash, Overlooks, Live, LiveStates
<1>7. CASE ByHash(f) = {} /\ GoTo(c, apart)
  <2>1. IsCall(apart) /\ apart.fact = f /\ apart.unseen = {i \in Ids : ~Live(i)}
    BY <1>4 DEF IsCall, CallPcs, Deciding
  <2> HIDE DEF apart
  <2> QED
    BY <1>1, <1>6, <1>7, <2>1, CallMoves
<1>8. CASE ByHash(f) = {} /\ near # {} /\ GoTo(c, merging)
  <2>1. best \in Ids
    BY <1>3, <1>8, FirstIsOne
  <2>2. says[best] \in SUBSET Facts
    BY <2>1 DEF RememberInv, RememberTypes
  <2> HIDE DEF best
  <2>3. IsCall(merging) /\ merging.fact = f /\ merging.unseen = {i \in Ids : ~Live(i)}
    BY <1>4, <2>1, <2>2 DEF IsCall, CallPcs, Deciding
  <2> HIDE DEF merging
  <2> QED
    BY <1>1, <1>6, <1>8, <2>3, CallMoves
<1> QED
  BY <1>2, <1>5, <1>7, <1>8

LEMMA RestingKeeps ==
  ASSUME RememberInv, NEW c \in Calls,
         NoConflict(c) \/ KeepExisting(c) \/ NextStage(c) \/ Abort(c) \/ \E i \in Ids : UseNew(c, i)
  PROVE  RememberInv'
<1>0. IsCall(call[c]) /\ Overlooks(call[c])
  BY DEF RememberInv, RememberTypes, NoDuplicateSeen
<1>1. UNCHANGED <<storeVars, hash, says, blind, wanted, excused>>
  BY DEF NoConflict, KeepExisting, NextStage, Abort, UseNew
<1>2. ASSUME NEW r, GoTo(c, r), IsCall(r), r.pc \notin Deciding PROVE RememberInv'
  BY <1>1, <1>2, CallMoves DEF Overlooks
<1>3. CASE NoConflict(c)
  <2> DEFINE r == [call[c] EXCEPT !.pc = "create"]
  <2>1. GoTo(c, r) /\ call[c].pc = "conflict"
    BY <1>3 DEF NoConflict
  <2>2. IsCall(r) /\ r.fact = call[c].fact /\ r.unseen = call[c].unseen
    BY <1>0, <2>1 DEF IsCall, CallPcs, Deciding
  <2> HIDE DEF r
  <2> QED
    BY <1>0, <1>1, <2>1, <2>2, CallMoves DEF Overlooks, Deciding
<1>4. ASSUME NEW i \in Ids, UseNew(c, i) PROVE RememberInv'
  <2> DEFINE r == [call[c] EXCEPT !.pc = "archive", !.found = i]
  <2>1. GoTo(c, r) /\ call[c].pc = "conflict"
    BY <1>4 DEF UseNew
  <2>2. IsCall(r) /\ r.fact = call[c].fact /\ r.unseen = call[c].unseen
    BY <1>0, <2>1 DEF IsCall, CallPcs, Deciding
  <2> HIDE DEF r
  <2> QED
    BY <1>0, <1>1, <2>1, <2>2, CallMoves DEF Overlooks, Deciding
<1>5. CASE KeepExisting(c)
  BY <1>2, <1>5, RestingCalls DEF KeepExisting, Deciding
<1>6. CASE Abort(c)
  BY <1>2, <1>6, RestingCalls DEF Abort, Idle, Deciding
<1>7. CASE NextStage(c)
  <2>1. PICK pc \in CallPcs \ Deciding : GoTo(c, Idle) \/ GoTo(c, [call[c] EXCEPT !.pc = pc])
    BY <1>7 DEF NextStage, Stages, CallPcs, Deciding
  <2>2. [call[c] EXCEPT !.pc = pc].pc = pc /\ Idle.pc \notin Deciding
    BY <1>0 DEF IsCall, Idle, Deciding
  <2> QED
    BY <1>2, <2>1, <2>2, RestingCalls
<1> QED
  BY <1>3, <1>4, <1>5, <1>6, <1>7

(* A step that creates no row, and lets no call see another fact. *)
LEMMA RowsStay ==
  ASSUME RememberInv, StoreTypeOK', UNCHANGED <<hash, blind>>,
         says' \in [Ids -> SUBSET Facts], wanted' \subseteq Facts, excused' \subseteq Facts,
         \A i \in Ids : state'[i] = "unborn" <=> state[i] = "unborn",
         call' = [d \in Calls |-> call'[d]],
         \A d \in Calls :
           /\ IsCall(call'[d])
           /\ call'[d].pc \in Deciding => /\ call[d].pc \in Deciding
                                          /\ call'[d].fact = call[d].fact
                                          /\ call'[d].unseen = call[d].unseen
  PROVE  RememberTypes' /\ NoDuplicateSeen'
<1>1. RememberTypes'
  BY DEF RememberInv, RememberTypes
<1>2. ASSUME NEW d \in Calls PROVE Overlooks(call[d])'
  BY DEF RememberInv, NoDuplicateSeen, Overlooks
<1>3. /\ \A i, j \in Ids : state'[i] # "unborn" /\ state'[j] = "unborn" => j \in blind'[i]
      /\ \A i, j \in Ids :
           i # j /\ state'[i] # "unborn" /\ state'[j] # "unborn" /\ hash'[i] = hash'[j]
             => i \in blind'[j]
  BY DEF RememberInv, NoDuplicateSeen
<1> QED
  BY <1>1, <1>2, <1>3 DEF NoDuplicateSeen

(* What is said of a row that lives on is not lost. *)
LEMMA SayingsStay ==
  ASSUME RememberInv, UNCHANGED <<says, excused>>, wanted' \subseteq wanted,
         \A i \in Ids : Live(i) => Live(i)' \/ wanted' \cap says[i] = {}
  PROVE  ToldIsKept'
<1> SUFFICES ASSUME NEW w \in wanted' \ excused' PROVE \E i \in Ids : Live(i)' /\ w \in says'[i]
  BY DEF ToldIsKept, Said, SaidAt, Live
<1>1. PICK i \in Ids : Live(i) /\ w \in says[i]
  BY DEF RememberInv, ToldIsKept, Said, SaidAt
<1> QED
  BY <1>1

(* A step of one call that moves a row between the states that a stored row can have. *)
LEMMA MoveKeeps ==
  ASSUME RememberInv, StoreTypeOK', NEW i \in Ids, UNCHANGED <<hash, blind, says, excused>>,
         \A j \in Ids \ {i} : state'[j] = state[j],
         state'[i] = "unborn" <=> state[i] = "unborn",
         wanted' \subseteq wanted, Live(i)' \/ (Live(i) => wanted' \cap says[i] = {}),
         call' = [d \in Calls |-> call'[d]],
         \A d \in Calls :
           /\ IsCall(call'[d])
           /\ call'[d].pc \in Deciding => /\ call[d].pc \in Deciding
                                          /\ call'[d].fact = call[d].fact
                                          /\ call'[d].unseen = call[d].unseen
  PROVE  RememberInv'
<1>1. /\ says' \in [Ids -> SUBSET Facts] /\ wanted' \subseteq Facts /\ excused' \subseteq Facts
      /\ \A j \in Ids : state'[j] = "unborn" <=> state[j] = "unborn"
  BY DEF RememberInv, RememberTypes
<1>2. RememberTypes' /\ NoDuplicateSeen'
  BY <1>1, RowsStay
<1>3. \A j \in Ids : Live(j) => Live(j)' \/ wanted' \cap says[j] = {}
  BY DEF Live
<1>4. ToldIsKept'
  BY <1>3, SayingsStay
<1> QED
  BY <1>2, <1>4 DEF RememberInv

LEMMA CallsStay ==
  ASSUME RememberInv, UNCHANGED call
  PROVE  /\ call' = [d \in Calls |-> call'[d]]
         /\ \A d \in Calls :
              /\ IsCall(call'[d])
              /\ call'[d].pc \in Deciding => /\ call[d].pc \in Deciding
                                             /\ call'[d].fact = call[d].fact
                                             /\ call'[d].unseen = call[d].unseen
BY DEF RememberInv, RememberTypes

LEMMA OneCallGoes ==
  ASSUME RememberInv, NEW c \in Calls, NEW r, GoTo(c, r), IsCall(r),
         r.pc \in Deciding => /\ call[c].pc \in Deciding /\ r.fact = call[c].fact
                              /\ r.unseen = call[c].unseen
  PROVE  /\ call' = [d \in Calls |-> call'[d]]
         /\ \A d \in Calls :
              /\ IsCall(call'[d])
              /\ call'[d].pc \in Deciding => /\ call[d].pc \in Deciding
                                             /\ call'[d].fact = call[d].fact
                                             /\ call'[d].unseen = call[d].unseen
<1>1. call' = [d \in Calls |-> IF d = c THEN r ELSE call[d]]
  BY DEF GoTo, RememberInv, RememberTypes
<1>2. \A d \in Calls : call'[d] = IF d = c THEN r ELSE call[d]
  BY <1>1
<1> QED
  BY <1>1, <1>2 DEF RememberInv, RememberTypes

(* The store's writes that a call or a request makes. *)
LEMMA MadeLive ==
  ASSUME RememberInv, NEW i \in Ids, ResolveMemory(i) \/ UpdateMemoryState(i, "archived")
  PROVE  /\ StoreTypeOK' /\ Live(i)' /\ state[i] # "unborn" /\ state'[i] # "unborn"
         /\ \A j \in Ids \ {i} : state'[j] = state[j]
<1>1. StoreTypeOK'
  BY WritesAreTheStores DEF RememberInv, RememberTypes
<1>2. PICK s \in {"archived", "resolved"} : state' = [state EXCEPT ![i] = s] /\ Present(i)
  BY DEF ResolveMemory, UpdateMemoryState
<1> QED
  BY <1>1, <1>2 DEF RememberInv, RememberTypes, StoreTypeOK, Present, Live, RowStates, LiveStates

LEMMA MadeDeleted ==
  ASSUME RememberInv, NEW i \in Ids, SoftDelete(i)
  PROVE  /\ StoreTypeOK' /\ (state[i] = "unborn" <=> state'[i] = "unborn")
         /\ \A j \in Ids \ {i} : state'[j] = state[j]
<1>1. StoreTypeOK'
  BY WritesAreTheStores DEF RememberInv, RememberTypes
<1> QED
  BY <1>1 DEF SoftDelete, rowVars, RememberInv, RememberTypes, StoreTypeOK, Present, RowStates, LiveStates

LEMMA ArchiveKeeps ==
  ASSUME RememberInv, NEW c \in Calls, NEW succeeds \in BOOLEAN, Archive(c, succeeds)
  PROVE  RememberInv'
<1> DEFINE r == [call[c] EXCEPT !.pc = "create"]
<1>1. /\ call[c].pc = "archive" /\ GoTo(c, r)
      /\ UNCHANGED <<hash, says, blind, wanted, excused>>
  BY DEF Archive
<1>2. IsCall(call[c]) /\ call[c].found \in Ids
  BY <1>1 DEF RememberInv, RememberTypes, IsCall
<1>3. IsCall(r) /\ r.fact = call[c].fact /\ r.unseen = call[c].unseen /\ call[c].pc \in Deciding
      /\ r.pc = "create"
  BY <1>1, <1>2 DEF IsCall, CallPcs, Deciding
<1> HIDE DEF r
<1>4. CASE UNCHANGED storeVars
  <2>1. Overlooks(r)
    BY <1>3 DEF Overlooks, RememberInv, NoDuplicateSeen
  <2> QED
    BY <1>1, <1>3, <1>4, <2>1, CallMoves
<1>5. CASE UpdateMemoryState(call[c].found, "archived")
  BY <1>1, <1>2, <1>3, <1>5, MadeLive, OneCallGoes, MoveKeeps
<1> QED
  BY <1>4, <1>5 DEF Archive

LEMMA DeleteKeeps ==
  ASSUME RememberInv, NEW i \in Ids, SoftDelete(i), wanted' = wanted \ SaidAt(i),
         UNCHANGED <<hash, says, call, blind, excused>>
  PROVE  RememberInv'
<1>1. Live(i) => wanted' \cap says[i] = {}
  BY DEF SaidAt
<1> QED
  BY <1>1, MadeDeleted, CallsStay, MoveKeeps

LEMMA ResolveKeeps ==
  ASSUME RememberInv, NEW c \in Calls, NEW asked \in Facts, Resolve(c, asked)
  PROVE  RememberInv'
<1>1. PICK i \in Targets(c, asked) : ResolveMemory(i)
  BY DEF Resolve
<1>2. i \in Ids
  BY TargetsAreIds DEF RememberInv
<1>3. UNCHANGED <<hash, says, call, blind, wanted, excused>>
  BY DEF Resolve
<1> QED
  BY <1>1, <1>2, <1>3, MadeLive, CallsStay, MoveKeeps

LEMMA AutoResolveKeeps ==
  ASSUME RememberInv, NEW c \in Calls, NEW i \in Ids, AutoResolve(c, i)
  PROVE  RememberInv'
<1> DEFINE r == [call[c] EXCEPT !.active = call[c].active \ {i}]
<1>1. /\ call[c].pc = "auto" /\ GoTo(c, r) /\ ResolveMemory(i)
      /\ UNCHANGED <<hash, says, blind, wanted, excused>>
  BY DEF AutoResolve
<1>2. IsCall(r) /\ r.pc \notin Deciding
  BY <1>1 DEF RememberInv, RememberTypes, IsCall, CallPcs, Deciding
<1> HIDE DEF r
<1> QED
  BY <1>1, <1>2, MadeLive, OneCallGoes, MoveKeeps

LEMMA DecayKeeps ==
  ASSUME RememberInv, NEW i \in Ids, NEW s \in {"stale", "archived", "deleted"}, Decay(i, s)
  PROVE  RememberInv'
<1>1. /\ state[i] \in Searchable /\ BatchTransitionStates([j \in {i} |-> s], TRUE)
      /\ wanted' = IF s = "deleted" THEN wanted \ says[i] ELSE wanted
      /\ UNCHANGED <<hash, says, call, blind, excused>>
  BY DEF Decay
<1>2. StoreTypeOK'
  BY <1>1, WritesAreTheStores DEF RememberInv, RememberTypes
<1>3. /\ state'[i] = s /\ state[i] # "unborn" /\ s # "unborn"
      /\ \A j \in Ids \ {i} : state'[j] = state[j]
  BY <1>1 DEF BatchTransitionStates, Present, Searchable, RowStates, LiveStates
<1>4. /\ wanted' \subseteq wanted
      /\ Live(i)' \/ (Live(i) => wanted' \cap says[i] = {})
  BY <1>1, <1>3 DEF Live, LiveStates
<1> QED
  BY <1>1, <1>2, <1>3, <1>4, CallsStay, MoveKeeps

(* A row's words are written over: those that it loses, if it is live, are excused or no
   longer wanted, and those it gains, if it is not, are excused. *)
LEMMA WriteKeeps ==
  ASSUME RememberInv, NEW i \in Ids, NEW words \in SUBSET Facts, NEW f \in words,
         UNCHANGED <<storeVars, hash, blind>>, says' = [says EXCEPT ![i] = words],
         wanted' \subseteq wanted \cup {f}, excused' \subseteq Facts,
         \A w \in wanted' \ excused' :
           \/ w \in words /\ Live(i)
           \/ w \in wanted \ excused /\ w \notin SaidAt(i),
         call' = [d \in Calls |-> call'[d]],
         \A d \in Calls :
           /\ IsCall(call'[d])
           /\ call'[d].pc \in Deciding => /\ call[d].pc \in Deciding
                                          /\ call'[d].fact = call[d].fact
                                          /\ call'[d].unseen = call[d].unseen
  PROVE  RememberInv'
<1>1. /\ \A j \in Ids : state'[j] = state[j] /\ (Live(j)' <=> Live(j))
      /\ \A j \in Ids : says'[j] = IF j = i THEN words ELSE says[j]
  BY DEF storeVars, Live, RememberInv, RememberTypes
<1>2. StoreTypeOK' /\ says' \in [Ids -> SUBSET Facts] /\ wanted' \subseteq Facts
  BY WritesAreTheStores DEF RememberInv, RememberTypes
<1>3. RememberTypes' /\ NoDuplicateSeen'
  BY <1>1, <1>2, RowsStay
<1>4. ASSUME NEW w \in wanted' \ excused' PROVE \E j \in Ids : Live(j)' /\ w \in says'[j]
  <2>1. CASE w \in words /\ Live(i)
    BY <1>1, <2>1
  <2>2. CASE w \in wanted \ excused /\ w \notin SaidAt(i)
    <3>1. PICK j \in Ids : w \in SaidAt(j)
      BY <2>2 DEF RememberInv, ToldIsKept, Said
    <3>2. j # i /\ Live(j) /\ w \in says[j]
      BY <2>2, <3>1 DEF SaidAt
    <3> QED
      BY <1>1, <3>2
  <2> QED
    BY <2>1, <2>2
<1>5. ToldIsKept'
  BY <1>4 DEF ToldIsKept, Said, SaidAt
<1> QED
  BY <1>3, <1>5 DEF RememberInv

LEMMA MergeKeeps == ASSUME RememberInv, NEW c \in Calls, Merge(c) PROVE RememberInv'
<1> DEFINE i == call[c].found
<1> DEFINE f == call[c].fact
<1> DEFINE words == call[c].text \cup {f}
<1>1. /\ call[c].pc = "merge" /\ says' = [says EXCEPT ![i] = words] /\ wanted' = wanted \cup {f}
      /\ excused' = (excused \ words) \cup (SaidAt(i) \ words) \cup (IF Live(i) THEN {} ELSE words)
      /\ GoTo(c, NextFact(c)) /\ UNCHANGED <<storeVars, hash, blind>>
  BY DEF Merge
<1>2. IsCall(call[c])
  BY DEF RememberInv, RememberTypes
<1>3. i \in Ids /\ f \in Facts /\ words \in SUBSET Facts /\ f \in words
  BY <1>1, <1>2 DEF IsCall, Deciding
<1>4. SaidAt(i) \subseteq Facts
  BY <1>3 DEF SaidAt, RememberInv, RememberTypes
<1> HIDE DEF i, f, words
<1>5. /\ wanted' \subseteq wanted \cup {f} /\ excused' \subseteq Facts
      /\ \A w \in wanted' \ excused' :
           \/ w \in words /\ Live(i)
           \/ w \in wanted \ excused /\ w \notin SaidAt(i)
  BY <1>1, <1>3, <1>4 DEF RememberInv, RememberTypes
<1>6. IsCall(NextFact(c)) /\ NextFact(c).pc \notin Deciding
  BY RestingCalls DEF Deciding
<1>7. /\ call' = [d \in Calls |-> call'[d]]
      /\ \A d \in Calls :
           /\ IsCall(call'[d])
           /\ call'[d].pc \in Deciding => /\ call[d].pc \in Deciding
                                          /\ call'[d].fact = call[d].fact
                                          /\ call'[d].unseen = call[d].unseen
  BY <1>1, <1>6, OneCallGoes
<1> QED
  BY <1>1, <1>3, <1>5, <1>7, WriteKeeps

LEMMA UpdateKeeps ==
  ASSUME RememberInv, NEW c \in Calls, NEW asked \in Facts, NEW f \in Facts, Update(c, asked, f)
  PROVE  RememberInv'
<1>1. PICK i \in Targets(c, asked) :
        /\ says' = [says EXCEPT ![i] = {f}] /\ wanted' = (wanted \ SaidAt(i)) \cup {f}
        /\ excused' = IF Live(i) THEN excused \ {f} ELSE excused \cup {f}
  BY DEF Update
<1>2. i \in Ids
  BY TargetsAreIds DEF RememberInv
<1>3. UNCHANGED <<storeVars, hash, call, blind>>
  BY DEF Update
<1>4. /\ wanted' \subseteq wanted \cup {f} /\ excused' \subseteq Facts
      /\ \A w \in wanted' \ excused' :
           \/ w \in {f} /\ Live(i)
           \/ w \in wanted \ excused /\ w \notin SaidAt(i)
  BY <1>1 DEF RememberInv, RememberTypes
<1>5. {f} \in SUBSET Facts /\ f \in {f}
  OBVIOUS
<1> QED
  BY <1>1, <1>2, <1>3, <1>4, <1>5, CallsStay, WriteKeeps

(* The new row: the call that creates it overlooks every row with its fact. *)
LEMMA CreateKeeps == ASSUME RememberInv, NEW c \in Calls, Create(c) PROVE RememberInv'
<1> DEFINE i == First(Unborn)
<1> DEFINE f == call[c].fact
<1> DEFINE r == [NextFact(c) EXCEPT !.born = NextFact(c).born \cup {i}]
<1>1. /\ call[c].pc = "create" /\ Unborn # {} /\ CreateMemory(i) /\ GoTo(c, r)
      /\ hash' = [hash EXCEPT ![i] = f] /\ says' = [says EXCEPT ![i] = {f}]
      /\ blind' = [blind EXCEPT ![i] = call[c].unseen]
      /\ wanted' = wanted \cup {f} /\ excused' = excused \ {f}
  BY DEF Create
<1>2. i \in Ids /\ state[i] = "unborn"
  BY <1>1, FirstIsOne DEF Unborn
<1>3. f \in Facts /\ call[c].unseen \in SUBSET Ids
  BY <1>1 DEF RememberInv, RememberTypes, IsCall, Deciding
<1>4. \A j \in Ids \ call[c].unseen : state[j] # "unborn" /\ hash[j] # f
  BY <1>1 DEF RememberInv, NoDuplicateSeen, Overlooks, Deciding
<1>5. IsCall(r) /\ r.pc \notin Deciding
  <2>1. IsCall(NextFact(c)) /\ NextFact(c).pc = "new"
    BY RestingCalls
  <2> QED
    BY <1>2, <2>1 DEF IsCall, CallPcs, Deciding
<1> HIDE DEF i, f, r
<1>6. StoreTypeOK'
  BY <1>1, <1>2, WritesAreTheStores DEF RememberInv, RememberTypes
<1>7. /\ \A j \in Ids : state'[j] = IF j = i THEN "active" ELSE state[j]
      /\ \A j \in Ids : hash'[j] = IF j = i THEN f ELSE hash[j]
      /\ \A j \in Ids : says'[j] = IF j = i THEN {f} ELSE says[j]
      /\ \A j \in Ids : blind'[j] = IF j = i THEN call[c].unseen ELSE blind[j]
  BY <1>1, <1>2 DEF CreateMemory, RememberInv, RememberTypes, StoreTypeOK
<1>8. /\ call' = [d \in Calls |-> call'[d]]
      /\ \A d \in Calls :
           /\ IsCall(call'[d])
           /\ call'[d].pc \in Deciding => /\ call[d].pc \in Deciding
                                          /\ call'[d].fact = call[d].fact
                                          /\ call'[d].unseen = call[d].unseen
  BY <1>1, <1>5, OneCallGoes
<1>9. RememberTypes'
  BY <1>1, <1>3, <1>6, <1>8 DEF RememberInv, RememberTypes
<1>10. ASSUME NEW d \in Calls PROVE Overlooks(call[d])'
  BY <1>2, <1>7, <1>8 DEF RememberInv, NoDuplicateSeen, Overlooks
<1>11. ASSUME NEW j \in Ids, NEW k \in Ids, state'[j] # "unborn", state'[k] = "unborn"
       PROVE  k \in blind'[j]
  <2>1. state[k] = "unborn" /\ k # i
    BY <1>7, <1>11
  <2> QED
    BY <1>4, <1>7, <1>11, <2>1 DEF RememberInv, NoDuplicateSeen
<1>12. ASSUME NEW j \in Ids, NEW k \in Ids, j # k, state'[j] # "unborn", state'[k] # "unborn",
              hash'[j] = hash'[k]
       PROVE  j \in blind'[k]
  <2>1. CASE k = i
    BY <1>4, <1>7, <1>12, <2>1
  <2>2. CASE j = i
    BY <1>2, <1>7, <1>12, <2>2 DEF RememberInv, NoDuplicateSeen
  <2>3. CASE j # i /\ k # i
    BY <1>7, <1>12, <2>3 DEF RememberInv, NoDuplicateSeen
  <2> QED
    BY <2>1, <2>2, <2>3
<1>13. NoDuplicateSeen'
  BY <1>10, <1>11, <1>12 DEF NoDuplicateSeen
<1>14. ASSUME NEW w \in wanted' \ excused' PROVE \E j \in Ids : Live(j)' /\ w \in says'[j]
  <2>1. CASE w = f
    BY <1>2, <1>7, <2>1 DEF Live, LiveStates
  <2>2. CASE w # f
    <3>1. PICK j \in Ids : Live(j) /\ w \in says[j]
      BY <1>1, <1>14, <2>2 DEF RememberInv, ToldIsKept, Said, SaidAt
    <3> QED
      BY <1>2, <1>7, <3>1 DEF Live, LiveStates
  <2> QED
    BY <2>1, <2>2
<1>15. ToldIsKept'
  BY <1>14 DEF ToldIsKept, Said, SaidAt
<1> QED
  BY <1>9, <1>13, <1>15 DEF RememberInv

LEMMA RememberStarts == RememberInit => RememberInv
<1> SUFFICES ASSUME RememberInit PROVE RememberInv
  OBVIOUS
<1>1. StoreTypeOK /\ \A i \in Ids : state[i] = "unborn"
  BY DEF RememberInit, StoreInit, StoreTypeOK
<1>2. IsCall(Idle) /\ Idle.pc = "idle" /\ \A c \in Calls : call[c] = Idle
  BY DEF RememberInit, IsCall, Idle, CallPcs, Deciding
<1>3. RememberTypes
  BY <1>1, <1>2 DEF RememberInit, RememberTypes
<1>4. NoDuplicateSeen
  BY <1>1, <1>2 DEF NoDuplicateSeen, Overlooks, Deciding
<1>5. ToldIsKept
  BY DEF RememberInit, ToldIsKept
<1> QED
  BY <1>3, <1>4, <1>5 DEF RememberInv

LEMMA RememberKeeps == RememberInv /\ [RememberNext]_rememberVars => RememberInv'
<1> SUFFICES ASSUME RememberInv, [RememberNext]_rememberVars PROVE RememberInv'
  OBVIOUS
<1>1. ASSUME NEW c \in Calls, AddStep(c) PROVE RememberInv'
  <2>1. ASSUME NEW f \in Facts, Delete(c, f) PROVE RememberInv'
    <3>1. PICK i \in Targets(c, f) : SoftDelete(i) /\ wanted' = wanted \ SaidAt(i)
      BY <2>1 DEF Delete
    <3>2. i \in Ids /\ UNCHANGED <<hash, says, call, blind, excused>>
      BY <2>1, TargetsAreIds DEF Delete, RememberInv
    <3> QED
      BY <3>1, <3>2, DeleteKeeps
  <2> QED
    BY <1>1, <2>1, BeginKeeps, CheckDuplicateKeeps, UpdateKeeps, ResolveKeeps, MergeKeeps,
       RestingKeeps, ArchiveKeeps, CreateKeeps, AutoResolveKeeps DEF AddStep
<1>2. CASE Others
  BY <1>2, DeleteKeeps, DecayKeeps DEF Others, RequestDelete
<1>3. CASE UNCHANGED rememberVars
  <2>1. UNCHANGED <<storeVars, hash, says, blind, wanted, excused, call>>
    BY <1>3 DEF rememberVars
  <2>2. /\ StoreTypeOK' /\ says' \in [Ids -> SUBSET Facts] /\ wanted' \subseteq Facts
        /\ excused' \subseteq Facts
        /\ \A i \in Ids : state'[i] = state[i]
    BY <2>1 DEF RememberInv, RememberTypes, StoreTypeOK, storeVars
  <2>3. RememberTypes' /\ NoDuplicateSeen'
    BY <2>1, <2>2, CallsStay, RowsStay
  <2>4. ToldIsKept'
    BY <2>1, <2>2, SayingsStay DEF Live
  <2> QED
    BY <2>3, <2>4 DEF RememberInv
<1> QED
  BY <1>1, <1>2, <1>3 DEF RememberNext

(* A fact that a call stored, and that nobody replaced or deleted since, is said by a live
   memory: for any number of overlapping calls, facts and memories, wherever calls end,
   but for writes into a row that was written or deleted after the call had read it. *)
THEOREM ToldStaysTold == RememberSpec => []ToldIsKept
<1>1. RememberInv => ToldIsKept
  BY DEF RememberInv
<1> QED
  BY <1>1, RememberStarts, RememberKeeps, PTL DEF RememberSpec

(* Of two live memories with one hash, neither was there when the call that created the
   other looked for duplicates, however many calls overlap. *)
THEOREM OnlyOverlapsDuplicate == RememberSpec => []DuplicatesNeedAnOverlap
<1>1. RememberInv => DuplicatesNeedAnOverlap
  BY DEF RememberInv, NoDuplicateSeen, DuplicatesNeedAnOverlap, Live, LiveStates
<1> QED
  BY <1>1, RememberStarts, RememberKeeps, PTL DEF RememberSpec

(* What a step does to the rows: calls and requests make writes of the store apart, and
   one that brings a deleted row back is of a call that held it. *)
LEMMA RememberStepsStore ==
  ASSUME RememberInv, [RememberNext]_rememberVars
  PROVE  /\ [StoreNext]_storeVars
         /\ \A i \in Ids : state[i] = "deleted" /\ state'[i] \in LiveStates =>
              \E c \in Calls : i \in DOMAIN call[c].held \cup {call[c].found}
<1> DEFINE Back(i) == state[i] = "deleted" /\ state'[i] \in LiveStates
<1> DEFINE HeldBySome(i) == \E c \in Calls : i \in DOMAIN call[c].held \cup {call[c].found}
<1>0. StoreTypeOK
  BY DEF RememberInv, RememberTypes
<1>1. ASSUME UNCHANGED storeVars PROVE [StoreNext]_storeVars /\ \A i \in Ids : ~Back(i)
  BY <1>1 DEF storeVars, LiveStates
<1>2. ASSUME NEW i \in Ids, SoftDelete(i) PROVE [StoreNext]_storeVars /\ \A j \in Ids : ~Back(j)
  <2>1. \A j \in Ids : state'[j] \in {state[j], "deleted"}
    BY <1>0, <1>2 DEF SoftDelete, rowVars, StoreTypeOK
  <2> QED
    BY <1>0, <1>2, <2>1, WritesAreTheStores DEF LiveStates
<1>3. ASSUME NEW i \in Ids, ResolveMemory(i) \/ UpdateMemoryState(i, "archived"),
             state[i] = "deleted" => HeldBySome(i)
      PROVE  [StoreNext]_storeVars /\ \A j \in Ids : Back(j) => HeldBySome(j)
  <2>1. \A j \in Ids \ {i} : state'[j] = state[j]
    BY <1>3, MadeLive
  <2> QED
    BY <1>0, <1>3, <2>1, WritesAreTheStores DEF LiveStates
<1>4. ASSUME NEW c \in Calls, NEW asked \in Facts, NEW i \in Targets(c, asked)
      PROVE  i \in Ids /\ (state[i] = "deleted" => HeldBySome(i))
  <2>1. Similar(asked, 2) \in SUBSET Ids
    BY <1>0 DEF StoreTypeOK, Similar
  <2>2. i \in DOMAIN call[c].held \/ i \in Similar(asked, 2)
    BY <2>1, FirstIsOne DEF Targets
  <2> QED
    BY <2>2, TargetsAreIds DEF Similar, Searchable, RememberInv
<1>5. ASSUME NEW c \in Calls, AddStep(c)
      PROVE  [StoreNext]_storeVars /\ \A i \in Ids : Back(i) => HeldBySome(i)
  <2>1. CASE UNCHANGED storeVars
    BY <1>1, <2>1
  <2>2. ASSUME NEW succeeds \in BOOLEAN, Archive(c, succeeds), ~UNCHANGED storeVars
        PROVE  [StoreNext]_storeVars /\ \A i \in Ids : Back(i) => HeldBySome(i)
    <3>1. UpdateMemoryState(call[c].found, "archived") /\ call[c].pc = "archive"
      BY <2>2 DEF Archive
    <3>2. call[c].found \in Ids
      BY <3>1 DEF RememberInv, RememberTypes, IsCall
    <3> QED
      BY <1>3, <3>1, <3>2
  <2>3. CASE Create(c)
    <3>1. First(Unborn) \in Ids /\ state[First(Unborn)] = "unborn" /\ CreateMemory(First(Unborn))
      BY <2>3, FirstIsOne DEF Create, Unborn
    <3>2. \A i \in Ids : ~Back(i)
      BY <1>0, <3>1 DEF CreateMemory, StoreTypeOK, LiveStates
    <3> QED
      BY <1>0, <3>1, <3>2, WritesAreTheStores
  <2>4. ASSUME NEW f \in Facts, Delete(c, f)
        PROVE  [StoreNext]_storeVars /\ \A i \in Ids : Back(i) => HeldBySome(i)
    BY <1>2, <1>4, <2>4 DEF Delete
  <2>5. ASSUME NEW f \in Facts, Resolve(c, f)
        PROVE  [StoreNext]_storeVars /\ \A i \in Ids : Back(i) => HeldBySome(i)
    BY <1>3, <1>4, <2>5 DEF Resolve
  <2>6. ASSUME NEW i \in Ids, AutoResolve(c, i)
        PROVE  [StoreNext]_storeVars /\ \A j \in Ids : Back(j) => HeldBySome(j)
    <3>1. i \in call[c].active \/ state[i] = "active"
      BY <2>6 DEF AutoResolve
    <3>2. call[c].active \subseteq DOMAIN call[c].held
      BY DEF RememberInv, RememberTypes, IsCall
    <3> QED
      BY <1>3, <2>6, <3>1, <3>2 DEF AutoResolve
  <2>7. ASSUME NEW f \in Facts,
               Begin(c, f) \/ CheckDuplicate(c, f) \/ \E g \in Facts : Update(c, f, g)
        PROVE  UNCHANGED storeVars
    BY <2>7 DEF Begin, CheckDuplicate, Update
  <2>8. ASSUME \/ Merge(c) \/ NoConflict(c) \/ KeepExisting(c) \/ NextStage(c) \/ Abort(c)
               \/ \E i \in Ids : UseNew(c, i)
        PROVE  UNCHANGED storeVars
    BY <2>8 DEF Merge, NoConflict, KeepExisting, NextStage, Abort, UseNew
  <2> QED
    BY <1>5, <2>1, <2>2, <2>3, <2>4, <2>5, <2>6, <2>7, <2>8 DEF AddStep
<1>6. CASE Others
  <2>1. ASSUME NEW i \in Ids, RequestDelete(i) PROVE [StoreNext]_storeVars /\ \A j \in Ids : ~Back(j)
    BY <1>2, <2>1 DEF RequestDelete
  <2>2. ASSUME NEW i \in Ids, NEW s \in {"stale", "archived", "deleted"}, Decay(i, s)
        PROVE  [StoreNext]_storeVars /\ \A j \in Ids : ~Back(j)
    <3>1. state[i] \in Searchable /\ BatchTransitionStates([j \in {i} |-> s], TRUE)
      BY <2>2 DEF Decay
    <3>2. \A j \in Ids \ {i} : state'[j] = state[j]
      BY <3>1 DEF BatchTransitionStates
    <3> QED
      BY <1>0, <3>1, <3>2, WritesAreTheStores DEF Searchable, LiveStates
  <2> QED
    BY <1>6, <2>1, <2>2 DEF Others
<1>7. CASE UNCHANGED rememberVars
  <2>1. UNCHANGED storeVars
    BY <1>7 DEF rememberVars
  <2> QED
    BY <1>1, <2>1
<1> QED
  BY <1>5, <1>6, <1>7 DEF RememberNext

(* Calls of Add, with the requests and the decay beside them, are behaviours of the store:
   what is proved of the store holds while they run. *)
THEOREM RememberImplementsStore == RememberSpec => StoreSpec
<1>1. RememberInit => StoreInit
  BY DEF RememberInit
<1>2. RememberInv /\ [RememberNext]_rememberVars => [StoreNext]_storeVars
  BY RememberStepsStore
<1> QED
  BY <1>1, <1>2, RememberStarts, RememberKeeps, PTL DEF RememberSpec, StoreSpec

(* A deleted memory comes back only by the hand of a call under way that read it while it
   was there, for any number of calls and memories. *)
THEOREM OnlyHoldersBringBack == RememberSpec => OnlyHeldRowsComeBack
<1>1. RememberInv /\ [RememberNext]_rememberVars =>
        [\A i \in Ids : state[i] = "deleted" /\ state'[i] \in LiveStates =>
           \E c \in Calls : i \in DOMAIN call[c].held \cup {call[c].found}]_rememberVars
  BY RememberStepsStore
<1> QED
  BY <1>1, RememberStarts, RememberKeeps, PTL DEF RememberSpec, OnlyHeldRowsComeBack

====
