---------------------------------- MODULE Query ----------------------------------
(***************************************************************************)
(* Engine.Query: candidates from the index, their rows, an order, and then  *)
(* the writes that make an answer strengthen what it holds.  A query takes  *)
(* no lock from one step to the next; between its read and its last write   *)
(* the language model may have ranked the results anew.                     *)
(***************************************************************************)
EXTENDS Integers, Sequences, FiniteSets, SequencesExt, FiniteSetsExt

CONSTANTS
  Queriers,     \* requests under way
  Recalled,     \* memories of the entity that is asked about
  TextOf,       \* their contents
  Subjects,     \* what may be asked: [near, worded], the memories within minScore and
                \* those that hold a word of the query ({}: the fallback is off)
  MostResults,  \* req.Limit
  Growths,      \* growth of a stability, whose logarithm is counted: by the time since
                \* the last access and the accesses so far
  MaxQueries    \* bound on the queries

ASSUME QueryAssumption ==
  /\ IsFiniteSet(Recalled)
  /\ Subjects \subseteq [near : SUBSET Recalled, worded : SUBSET Recalled]
  /\ MostResults \in Nat \ {0} /\ MaxQueries \in Nat
  /\ Growths \subseteq Nat \ {0} /\ Growths # {}

VARIABLES
  memory,   \* rows: [state, stability, accesses]
  vectors,  \* the ids in the index
  query,    \* what each querier is at
  queries,  \* how many were begun
  crowded,  \* history: <<q, i>>: another held a copy of i while q did
  alone     \* history: the stability that each memory got from queries not crowded

queryVars == <<memory, vectors, query, queries, crowded, alone>>

NoQuery == [pc |-> "idle", ids |-> {}, worded |-> {}, found |-> {}, answer |-> <<>>]

QueryInit ==
  /\ memory = [i \in Recalled |-> [state |-> "active", stability |-> 0, accesses |-> 0]]
  /\ vectors = Recalled
  /\ query = [q \in Queriers |-> NoQuery] /\ queries = 0
  /\ crowded = {} /\ alone = [i \in Recalled |-> 0]

CopyOf(i)   == [id |-> i, stability |-> memory[i].stability]
IdsIn(S)    == {c.id : c \in S}
Holds(q)    == IdsIn(query[q].found) \cup IdsIn(Range(query[q].answer))
Readable    == {i \in Recalled : memory[i].state \in {"active", "stale", "resolved"}}
OtherQueries(q) == Queriers \ {q}

(* q comes to hold the memories of S, some of which others hold. *)
Crowds(q, S) ==
  LET shared == {x \in OtherQueries(q) \X S : x[2] \in Holds(x[1])}
  IN crowded' = crowded \cup shared \cup {<<q, x[2]>> : x \in shared}

-----------------------------------------------------------------------------
(* The query is embedded and the index searched; with fewer than thirty memories no
   candidate is cut off. *)
FindCandidates(q, s) ==
  /\ query[q].pc = "idle" /\ queries < MaxQueries /\ queries' = queries + 1
  /\ query' = [query EXCEPT ![q] = [NoQuery EXCEPT !.pc = "read", !.worded = s.worded,
                                                         !.ids = s.near \cap vectors]]
  /\ UNCHANGED <<memory, vectors, crowded, alone>>

(* The rows of the candidates, which may have gone since; a deleted or archived one
   is no result. *)
ReadRows(q) ==
  LET S == query[q].ids \cap Readable
  IN /\ query[q].pc = "read"
     /\ query' = [query EXCEPT ![q].found = {CopyOf(i) : i \in S}, ![q].ids = {},
                               ![q].pc = IF query[q].worded = {} THEN "rank" ELSE "words"]
     /\ Crowds(q, S)
     /\ UNCHANGED <<memory, vectors, queries, alone>>

(* The fallback adds rows that hold a word and were not found; one read stands for
   those of all words. *)
FindWords(q) ==
  LET S == (query[q].worded \cap Readable) \ Holds(q)
  IN /\ query[q].pc = "words"
     /\ query' = [query EXCEPT ![q].found = @ \cup {CopyOf(i) : i \in S}, ![q].worded = {},
                               ![q].pc = "rank"]
     /\ Crowds(q, S)
     /\ UNCHANGED <<memory, vectors, queries, alone>>

(* Of each content the first result is kept, and any may be the first. *)
Diverse(S) ==
  {K \in SUBSET S : /\ {TextOf[c.id] : c \in K} = {TextOf[c.id] : c \in S}
                    /\ \A c, d \in K : TextOf[c.id] = TextOf[d.id] => c = d}

(* Scores may order the results in any way, and the model may order them anew. *)
Rank(q) ==
  /\ query[q].pc = "rank"
  /\ \E K \in Diverse(query[q].found) : \E s \in SetToSeqs(K) :
       LET top == SubSeq(s, 1, Min({Len(s), MostResults}))
       IN query' = [query EXCEPT ![q] =
                      IF top = <<>> THEN NoQuery
                      ELSE [@ EXCEPT !.pc = "stats", !.answer = top, !.found = {}]]
  /\ UNCHANGED <<memory, vectors, queries, crowded, alone>>

(* One statement for all results; its error is ignored.  A row of any state counts. *)
UpdateAccessStats(q) ==
  /\ query[q].pc = "stats"
  /\ \/ UNCHANGED memory
     \/ memory' = [i \in Recalled |->
          IF i \in Holds(q) /\ memory[i].state # "gone"
          THEN [memory[i] EXCEPT !.accesses = @ + 1] ELSE memory[i]]
  /\ query' = [query EXCEPT ![q].pc = "strengthen"]
  /\ UNCHANGED <<vectors, queries, crowded, alone>>

(* Slip: the growth starts from the stability of the memory's type. *)
NewStabilityOfType(copy, growth) == growth

(* CalculateNewStabilityWithAccess of the copy. *)
NewStability(copy, growth) == copy.stability + growth

(* One statement per result, of the stability that the query read; errors are ignored. *)
UpdateStability(q, growth) ==
  LET copy == Head(query[q].answer)
      i    == copy.id
      rest == Tail(query[q].answer)
  IN /\ query[q].pc = "strengthen"
     /\ \/ UNCHANGED <<memory, alone>>
        \/ /\ memory[i].state # "gone"
           /\ memory' = [memory EXCEPT ![i].stability = NewStability(copy, growth)]
           /\ alone' = IF <<q, i>> \in crowded THEN alone ELSE [alone EXCEPT ![i] = @ + growth]
     /\ query' = [query EXCEPT ![q] = IF rest = <<>> THEN NoQuery ELSE [@ EXCEPT !.answer = rest]]
     /\ crowded' = crowded \ {<<q, i>>}
     /\ UNCHANGED <<vectors, queries>>

(* Requests and jobs: a memory is deleted, or archived, which hides it alike, or it is
   deleted for good. *)
Forget(i, s) ==
  /\ memory[i].state # "gone" /\ memory[i].state # s
  /\ memory' = [memory EXCEPT ![i].state = s]
  /\ vectors' = vectors \ {i}
  /\ UNCHANGED <<query, queries, crowded, alone>>

QueryNext ==
  \/ \E q \in Queriers :
       \/ \E s \in Subjects : FindCandidates(q, s)
       \/ ReadRows(q) \/ FindWords(q) \/ Rank(q) \/ UpdateAccessStats(q)
       \/ \E growth \in Growths : UpdateStability(q, growth)
  \/ \E i \in Recalled, s \in {"deleted", "gone"} : Forget(i, s)

QuerySpec == QueryInit /\ [][QueryNext]_queryVars

-----------------------------------------------------------------------------
(* Properties. *)

QueryTypeOK ==
  /\ memory \in [Recalled -> [state : {"active", "deleted", "gone"},
                              stability : Nat, accesses : 0 .. MaxQueries]]
  /\ vectors \subseteq Recalled /\ queries \in 0 .. MaxQueries
  /\ crowded \subseteq Queriers \X Recalled /\ alone \in [Recalled -> Nat]
  /\ \A q \in Queriers : query[q].pc \in {"idle", "read", "words", "rank", "stats", "strengthen"}

(* What a memory gained from a query that nobody else's overlapped is never lost,
   though every query writes the stability it read earlier: a write that comes late
   undoes only what was gained beside it (engine_query.go, "Spaced repetition"). *)
ReinforcementSticks == \A i \in Recalled : memory[i].stability >= alone[i]

(* A stability never falls.  The code does not keep this: a query that read before
   two others wrote undoes the second. *)
StabilityNeverFalls ==
  [][\A i \in Recalled : memory'[i].stability >= memory[i].stability]_queryVars
=============================================================================
