------------------------------ MODULE Remember ------------------------------
(***************************************************************************)
(* engine.Engine.Add for one entity, called by several requests at once,   *)
(* while other requests delete memories and the decay job moves them.      *)
(*                                                                         *)
(* A call reads the memories similar to its message, asks the LLM what to  *)
(* do (seconds, nothing locked), and does it with one statement after      *)
(* another: new memories, then updates, deletes and resolves, then the     *)
(* resolution of plans that a new memory completes.  A new memory goes     *)
(* through the duplicate check (by hash, then by similarity) and the       *)
(* conflict check (similarity and the LLM again) before it is inserted.    *)
(* An error, or a request that is cancelled, ends the call where it is.    *)
(*                                                                         *)
(* A memory's content is a set of facts.  The hash and the embedding are   *)
(* those of the fact it was created with: no statement writes them again.  *)
(* Similarity has the levels that the thresholds tell apart: 1 related,    *)
(* 2 a target of findTargetMemory, 3 a near-duplicate, 4 a duplicate.  The *)
(* limits of the similarity searches are above the number of memories.     *)
(***************************************************************************)
EXTENDS MemoryStore, Sequences

CONSTANTS
  Calls,        \* the calls of Add that may be under way at a time
  Facts,
  Sim,          \* the similarity of two facts' embeddings
  Plans,        \* facts of type PLAN or ACTIVITY
  Completions,  \* facts of type EVENT or CONTEXT
  NoFact, NoId,
  MaxOps        \* bound: calls, items that an LLM's answer lists, requests and decays

ASSUME RememberAssumption ==
  /\ Ids \subseteq Nat
  /\ Sim \in [Facts \X Facts -> 0..4]
  /\ \A f \in Facts : Sim[f, f] = 4
  /\ \A f, g \in Facts : Sim[f, g] = Sim[g, f]
  /\ Plans \subseteq Facts /\ Completions \subseteq Facts
  /\ NoFact \notin Facts /\ NoId \notin Ids
  /\ MaxOps \in Nat

VARIABLES
  hash,     \* the fact that a memory was created with: content_hash, embedding and type
  says,     \* the facts in the content column
  call,     \* what each call of Add holds
  blind,    \* history: per memory, the ids that were not there when its call looked for duplicates
  wanted,   \* history: the facts that were told, and not replaced or deleted since
  excused,  \* history: of these, the ones that a write based on an older read lost
  ops

rememberVars == <<storeVars, hash, says, call, blind, wanted, excused, ops>>

Idle == [pc |-> "idle", held |-> <<>>, active |-> {}, fact |-> NoFact, found |-> NoId,
         text |-> {}, born |-> {}, unseen |-> {}]

Stages == <<"new", "update", "delete", "resolve", "auto">>

RememberTypeOK ==
  /\ StoreTypeOK
  /\ hash \in [Ids -> Facts \cup {NoFact}]
  /\ says \in [Ids -> SUBSET Facts]
  /\ \A c \in Calls :
       /\ call[c].pc \in {"idle", "merge", "conflict", "archive", "create"}
                         \cup {Stages[n] : n \in DOMAIN Stages}
       /\ DOMAIN call[c].held \subseteq Ids
       /\ call[c].active \subseteq DOMAIN call[c].held
       /\ call[c].fact \in Facts \cup {NoFact}
       /\ call[c].pc \in {"merge", "archive"} => call[c].found \in Ids
       /\ call[c].pc \in {"merge", "conflict", "archive", "create"} => call[c].fact \in Facts
       /\ \A i \in call[c].born : hash[i] \in Facts
  /\ blind \in [Ids -> SUBSET Ids]
  /\ wanted \subseteq Facts /\ excused \subseteq Facts
  /\ ops \in 0..MaxOps

RememberInit ==
  /\ StoreInit
  /\ hash = [i \in Ids |-> NoFact]
  /\ says = [i \in Ids |-> {}]
  /\ call = [c \in Calls |-> Idle]
  /\ blind = [i \in Ids |-> {}]
  /\ wanted = {} /\ excused = {}
  /\ ops = 0

-----------------------------------------------------------------------------
(* What the calls read. *)

(* FindSimilar: the searchable rows among the vectors that are near enough, in
   the order in which the database returns them: by id, not by similarity. *)
Similar(f, level) == {i \in index : state[i] \in Searchable /\ Sim[f, hash[i]] >= level}
First(S)          == CHOOSE i \in S : \A j \in S : i <= j

(* A slip: only the active rows are looked at. *)
ByHashActive(f) == {i \in Ids : state[i] = "active" /\ hash[i] = f}

(* FindByHash *)
ByHash(f) == {i \in Ids : state[i] \in LiveStates /\ hash[i] = f}

Live(i)        == state[i] \in LiveStates
SaidAt(i)      == IF Live(i) THEN says[i] ELSE {}
Op             == ops < MaxOps /\ ops' = ops + 1
GoTo(c, r)     == call' = [call EXCEPT ![c] = r]
NextFact(c)    == [call[c] EXCEPT !.pc = "new", !.fact = NoFact, !.found = NoId,
                                  !.text = {}, !.unseen = {}]

-----------------------------------------------------------------------------
(* One call. *)

(* The memories similar to the message are read before the LLM is asked; their
   content and state are those of that moment until the call ends. *)
Begin(c, message) ==
  /\ call[c].pc = "idle"
  /\ Op
  /\ GoTo(c, [Idle EXCEPT !.pc = "new",
                          !.held = [i \in Similar(message, 1) |-> says[i]],
                          !.active = {i \in Similar(message, 1) : state[i] = "active"}])
  /\ UNCHANGED <<storeVars, hash, says, blind, wanted, excused>>

(* CheckDuplicate: a memory with the fact's hash, or else the first one that is
   near: the fact is dropped as a duplicate, goes on to the conflict check, or
   is to be merged into the content that was read here. *)
CheckDuplicate(c, f) ==
  /\ call[c].pc = "new"
  /\ Op
  /\ LET near == Similar(f, 3)
         best == First(near)
         seen == [call[c] EXCEPT !.fact = f, !.unseen = {i \in Ids : ~Live(i)}]
     IN IF ByHash(f) # {} \/ (near # {} /\ (Sim[f, hash[best]] = 4 \/ f \in says[best]))
        THEN UNCHANGED call
        ELSE IF near = {}
             THEN GoTo(c, [seen EXCEPT !.pc = "conflict"])
             ELSE GoTo(c, [seen EXCEPT !.pc = "merge", !.found = best, !.text = says[best]])
  /\ UNCHANGED <<storeVars, hash, says, blind, wanted, excused>>

(* A slip: the fact takes the place of what the row said. *)
MergeByReplacing(c) ==
  /\ call[c].pc = "merge"
  /\ Present(call[c].found)
  /\ says' = [says EXCEPT ![call[c].found] = {call[c].fact}]
  /\ wanted' = wanted \cup {call[c].fact}
  /\ GoTo(c, NextFact(c))
  /\ UNCHANGED <<storeVars, hash, blind, excused, ops>>

(* MergeMemories: the row's content becomes what was read plus the fact. *)
Merge(c) ==
  /\ call[c].pc = "merge"
  /\ LET i == call[c].found
         text == call[c].text \cup {call[c].fact}
     IN /\ Present(i)
        /\ says' = [says EXCEPT ![i] = text]
        /\ wanted' = wanted \cup {call[c].fact}
        /\ excused' = (excused \ text) \cup (SaidAt(i) \ text) \cup (IF Live(i) THEN {} ELSE text)
  /\ GoTo(c, NextFact(c))
  /\ UNCHANGED <<storeVars, hash, blind, ops>>

(* DetectConflicts, on the rows that are related now.  The LLM, or a pattern,
   may find that one of them contradicts the fact.  A resolution other than
   keep_existing and use_new changes nothing of the store. *)
NoConflict(c) ==
  /\ call[c].pc = "conflict"
  /\ GoTo(c, [call[c] EXCEPT !.pc = "create"])
  /\ UNCHANGED <<storeVars, hash, says, blind, wanted, excused, ops>>

KeepExisting(c) ==
  /\ call[c].pc = "conflict"
  /\ Similar(call[c].fact, 1) # {}
  /\ GoTo(c, NextFact(c))
  /\ UNCHANGED <<storeVars, hash, says, blind, wanted, excused, ops>>

UseNew(c, i) ==
  /\ call[c].pc = "conflict"
  /\ i \in Similar(call[c].fact, 1)
  /\ GoTo(c, [call[c] EXCEPT !.pc = "archive", !.found = i])
  /\ UNCHANGED <<storeVars, hash, says, blind, wanted, excused, ops>>

(* The row that the fact supersedes is archived before the fact is stored; an
   error is dropped. *)
Archive(c, succeeds) ==
  /\ call[c].pc = "archive"
  /\ IF succeeds /\ Present(call[c].found)
     THEN UpdateMemoryState(call[c].found, "archived")
     ELSE UNCHANGED storeVars
  /\ GoTo(c, [call[c] EXCEPT !.pc = "create"])
  /\ UNCHANGED <<hash, says, blind, wanted, excused, ops>>

Unborn == {i \in Ids : state[i] = "unborn"}

Create(c) ==
  /\ call[c].pc = "create"
  /\ Unborn # {}
  /\ LET i == First(Unborn)
         f == call[c].fact
     IN /\ CreateMemory(i)
        /\ hash' = [hash EXCEPT ![i] = f]
        /\ says' = [says EXCEPT ![i] = {f}]
        /\ blind' = [blind EXCEPT ![i] = call[c].unseen]
        /\ wanted' = wanted \cup {f}
        /\ excused' = excused \ {f}
        /\ GoTo(c, [NextFact(c) EXCEPT !.born = @ \cup {i}])
  /\ UNCHANGED ops

(* A slip: the near rows are looked for in the table and not among the searchable. *)
TargetsOfAnyState(c, query) ==
  {i \in Ids : Present(i) /\ Sim[query, hash[i]] >= 2}

(* findTargetMemory: one of the memories that the call holds, by its text at
   the time, or else the first of those whose embedding is near the query's. *)
Targets(c, query) ==
  LET inText == {i \in DOMAIN call[c].held : query \in call[c].held[i]}
      near   == Similar(query, 2)
  IN inText \cup (IF near = {} THEN {} ELSE {First(near)})

Update(c, query, f) ==
  /\ call[c].pc = "update"
  /\ Op
  /\ \E i \in Targets(c, query) :
       /\ Present(i)
       /\ says' = [says EXCEPT ![i] = {f}]
       /\ wanted' = (wanted \ SaidAt(i)) \cup {f}
       /\ excused' = IF Live(i) THEN excused \ {f} ELSE excused \cup {f}
  /\ UNCHANGED <<storeVars, hash, call, blind>>

Delete(c, query) ==
  /\ call[c].pc = "delete"
  /\ Op
  /\ \E i \in Targets(c, query) :
       /\ SoftDelete(i)
       /\ wanted' = wanted \ SaidAt(i)
  /\ UNCHANGED <<hash, says, call, blind, excused>>

Resolve(c, query) ==
  /\ call[c].pc = "resolve"
  /\ Op
  /\ \E i \in Targets(c, query) : ResolveMemory(i)
  /\ UNCHANGED <<hash, says, call, blind, wanted, excused>>

(* autoResolveSuperseded, when the call has created a completion: plans that
   were active when the call began, and plans that are active and related to
   the completion now. *)
AutoResolve(c, i) ==
  /\ call[c].pc = "auto"
  /\ i \notin call[c].born
  /\ hash[i] \in Plans
  /\ \E k \in call[c].born :
       /\ hash[k] \in Completions
       /\ i \in call[c].active \/ (state[i] = "active" /\ i \in Similar(hash[k], 1))
  /\ ResolveMemory(i)
  /\ GoTo(c, [call[c] EXCEPT !.active = @ \ {i}])
  /\ UNCHANGED <<hash, says, blind, wanted, excused, ops>>

(* The answer's next list, or the end of the call. *)
NextStage(c) ==
  /\ \E n \in DOMAIN Stages :
       /\ call[c].pc = Stages[n]
       /\ GoTo(c, IF n = Len(Stages) THEN Idle ELSE [call[c] EXCEPT !.pc = Stages[n + 1]])
  /\ UNCHANGED <<storeVars, hash, says, blind, wanted, excused, ops>>

(* An error or a cancelled request ends the call; what it wrote stays. *)
Abort(c) ==
  /\ call[c].pc # "idle"
  /\ GoTo(c, Idle)
  /\ UNCHANGED <<storeVars, hash, says, blind, wanted, excused, ops>>

AddStep(c) ==
  \/ \E f \in Facts :
       \/ Begin(c, f)
       \/ CheckDuplicate(c, f)
       \/ \E g \in Facts : Update(c, f, g)
       \/ Delete(c, f)
       \/ Resolve(c, f)
  \/ Merge(c)
  \/ NoConflict(c)
  \/ KeepExisting(c)
  \/ \E i \in Ids : UseNew(c, i)
  \/ \E succeeds \in BOOLEAN : Archive(c, succeeds)
  \/ Create(c)
  \/ \E i \in Ids : AutoResolve(c, i)
  \/ NextStage(c)
  \/ Abort(c)

-----------------------------------------------------------------------------
(* Everyone else. *)

RequestDelete(i) ==
  /\ Op
  /\ Present(i)
  /\ SoftDelete(i)
  /\ wanted' = wanted \ SaidAt(i)
  /\ UNCHANGED <<hash, says, call, blind, excused>>

Decay(i, s) ==
  /\ Op
  /\ state[i] \in Searchable
  /\ BatchTransitionStates([j \in {i} |-> s], TRUE)
  /\ wanted' = IF s = "deleted" THEN wanted \ says[i] ELSE wanted
  /\ UNCHANGED <<hash, says, call, blind, excused>>

Others ==
  \E i \in Ids :
    \/ RequestDelete(i)
    \/ \E s \in {"stale", "archived", "deleted"} : Decay(i, s)

RememberNext == (\E c \in Calls : AddStep(c)) \/ Others
RememberSpec == RememberInit /\ [][RememberNext]_rememberVars

-----------------------------------------------------------------------------
(* Properties. *)

(* Two live memories with one hash come only from calls that overlap, or from a
   deleted row that came back: neither of the two was there when the call that
   created the other looked for duplicates. *)
DuplicatesNeedAnOverlap ==
  \A i, j \in Ids : i # j /\ Live(i) /\ Live(j) /\ hash[i] = hash[j] => i \in blind[j]

(* A fact that a call stored, and that nobody replaced or deleted since, is said
   by a live memory: neither a conflict nor a merge nor a call that ends half
   way loses it, except a merge into, or an update of, a row that was written
   or deleted after the call had read it. *)
Said       == UNION {SaidAt(i) : i \in Ids}
ToldIsKept == wanted \ excused \subseteq Said

(* A deleted memory comes back only by the hand of a call that is under way and
   that read it while it was there: at the call's start, or as the row that its
   conflict check found. *)
OnlyHeldRowsComeBack ==
  [][\A i \in Ids : state[i] = "deleted" /\ state'[i] \in LiveStates =>
       \E c \in Calls : i \in DOMAIN call[c].held \cup {call[c].found}]_rememberVars

(* engine.go on the first result of FindSimilarWithOptions: it is "the
   highest-scoring match (results are sorted by similarity)".  The rows come in
   the order of their ids. *)
FirstIsBest ==
  \A f \in Facts : \A i \in Similar(f, 2) : Sim[f, hash[i]] <= Sim[f, hash[First(Similar(f, 2))]]

(* dedup.go drops a fact as an "exact content match (hash)": some memory says
   it.  An update changes the content and leaves the hash. *)
ExactMatchesMatch == \A f \in Facts : ByHash(f) # {} => f \in Said
=============================================================================
