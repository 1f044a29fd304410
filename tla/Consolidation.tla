--------------------------- MODULE Consolidation ---------------------------
(***************************************************************************)
(* jobs.ConsolidationProcessor: it reads a group of similar memories, asks *)
(* the LLM for one text that says what they all say (seconds, with nothing *)
(* locked), writes the text to the most important of them, sets that one   *)
(* active, and soft-deletes the others, one statement after another.  The  *)
(* errors of the last two kinds are not looked at.                         *)
(*                                                                         *)
(* A memory's content is the set of its words.  Similarity is a choice: any*)
(* rows may be similar.  Process groups all the rows of a pass before it   *)
(* merges the first group; the groups are disjoint, so one group, merged   *)
(* any time after it was read, stands for each of them.                    *)
(***************************************************************************)
EXTENDS MemoryStore

CONSTANTS
  Words,
  Contents,     \* the texts that requests store: sets of words
  NoId,         \* no memory
  MaxMergeSize, \* ConsolidationJobConfig.MaxMergeSize
  MaxRequests   \* bound: requests in a behaviour

ASSUME ConsolidationAssumption ==
  /\ Contents \subseteq SUBSET Words
  /\ NoId \notin Ids
  /\ MaxMergeSize \in Nat /\ MaxRequests \in Nat

VARIABLES
  content,  \* the content column
  cron,     \* the rows with a cron: tag
  step,     \* what the job does next: "group", "merge", "content", "activate", "delete"
  group,    \* the rows being merged, as ids
  snap,     \* their content when FindSimilar read them
  primary,  \* the row that keeps the merged text
  merged,   \* the merged text
  wanted,   \* history: words of what was stored and not deleted or replaced since
  excused,  \* history: of these, words of edits that the job overtakes, words that it drops
  requests

jobVars   == <<step, group, snap, primary, merged>>
consVars  == <<storeVars, content, cron, jobVars, wanted, excused, requests>>

ConsolidationTypeOK ==
  /\ StoreTypeOK
  /\ content \in [Ids -> SUBSET Words]
  /\ cron \subseteq Ids
  /\ step \in {"group", "merge", "content", "activate", "delete"}
  /\ group \subseteq Ids
  /\ snap \in [group -> SUBSET Words]
  /\ primary \in Ids \cup {NoId}
  /\ merged \subseteq Words
  /\ wanted \subseteq Words /\ excused \subseteq Words
  /\ requests \in 0..MaxRequests

ConsolidationInit ==
  /\ StoreInit
  /\ content = [i \in Ids |-> {}]
  /\ cron = {}
  /\ step = "group" /\ group = {} /\ snap = <<>> /\ primary = NoId /\ merged = {}
  /\ wanted = {} /\ excused = {}
  /\ requests = 0

IdleJob ==
  /\ step' = "group" /\ group' = {} /\ snap' = <<>> /\ primary' = NoId /\ merged' = {}

-----------------------------------------------------------------------------
(* The job. *)

(* findSimilarGroups, for stale and then for active rows: a group is of one
   state, holds no schedule, and its rows come out of the vector index. *)
FindGroup(G, s) ==
  /\ step = "group"
  /\ Writable
  /\ G \subseteq {i \in index \ cron : state[i] = s}
  /\ Cardinality(G) >= 2 /\ Cardinality(G) <= MaxMergeSize
  /\ step' = "merge"
  /\ group' = G
  /\ snap' = [i \in G |-> content[i]]
  /\ UNCHANGED <<storeVars, content, cron, primary, merged, wanted, excused, requests>>

(* A run that finds no group, or whose queries fail, changes nothing. *)
FindNothing == step = "group" /\ Writable /\ UNCHANGED consVars

(* textBasedConsolidate adds to the primary's text the words of another that it
   does not have.  A text that the primary's contains, that contains the
   primary's (whether the words stand together in it is a choice: `inside'), or
   that shares four words in five, is redundant; fewer than three words are
   not worth adding. *)
Redundant(a, b, inside) ==
  \/ b \subseteq a
  \/ inside /\ a \subseteq b
  \/ 10 * Cardinality(a \cap b) >= 8 * Cardinality(b)

Unique(a, b) == IF Cardinality(b \ a) < 3 THEN {} ELSE b \ a

TextBased(p, inside) ==
  snap[p] \cup UNION {Unique(snap[p], snap[i]) :
                        i \in {j \in group \ {p} : ~Redundant(snap[p], snap[j], inside)}}

(* The text: the LLM's, which says all that the group's texts say, or the
   text-based one when the LLM fails.  The row with the highest importance is
   the primary. *)
Merge(p, text) ==
  /\ step = "merge"
  /\ p \in group
  /\ primary' = p
  /\ merged' = text
  /\ step' = "content"
  /\ UNCHANGED <<storeVars, content, cron, group, snap, wanted, requests>>

MergeByLLM(p)      == Merge(p, UNION {snap[i] : i \in group}) /\ UNCHANGED excused

MergeByText(p, inside) ==
  /\ p \in group
  /\ Merge(p, TextBased(p, inside))
  /\ excused' = excused \cup ((UNION {snap[i] : i \in group}) \ TextBased(p, inside))

(* UpdateMemory of the primary; it fails when the row is gone or the statement
   fails, and the group is then left as it is. *)
WriteContent ==
  /\ step = "content"
  /\ Writable
  /\ Present(primary)
  /\ content' = [content EXCEPT ![primary] = merged]
  /\ step' = "activate"
  /\ UNCHANGED <<storeVars, cron, group, snap, primary, merged, wanted, excused, requests>>

WriteContentFails ==
  /\ step = "content"
  /\ Writable
  /\ IdleJob
  /\ UNCHANGED <<storeVars, content, cron, wanted, excused, requests>>

(* A slip: the primary stays in the list of the rows to delete. *)
ActivatePrimaryKeepsIt(succeeds) ==
  /\ step = "activate"
  /\ Writable
  /\ IF succeeds /\ Present(primary)
     THEN UpdateMemoryState(primary, "active")
     ELSE UNCHANGED storeVars
  /\ excused' = IF state'[primary] \in LiveStates THEN excused ELSE excused \cup merged
  /\ step' = "delete"
  /\ UNCHANGED <<content, cron, group, snap, primary, merged, wanted, requests>>

(* UpdateMemory with State active; its error is dropped. *)
ActivatePrimary(succeeds) ==
  /\ step = "activate"
  /\ Writable
  /\ IF succeeds /\ Present(primary)
     THEN UpdateMemoryState(primary, "active")
     ELSE UNCHANGED storeVars
  /\ excused' = IF state'[primary] \in LiveStates THEN excused ELSE excused \cup merged
  /\ step' = "delete"
  /\ group' = group \ {primary}
  /\ snap' = [i \in group \ {primary} |-> snap[i]]
  /\ UNCHANGED <<content, cron, primary, merged, wanted, requests>>

(* DeleteMemory(soft) of each of the others, in the order of the group; an
   error is dropped. *)
DeleteOther(i, succeeds) ==
  /\ step = "delete"
  /\ i \in group
  /\ IF succeeds
     THEN SoftDelete(i)
     ELSE Writable /\ UNCHANGED storeVars
  /\ group' = group \ {i}
  /\ snap' = [j \in group \ {i} |-> snap[j]]
  /\ UNCHANGED <<content, cron, step, primary, merged, wanted, excused, requests>>

GroupDone ==
  /\ step = "delete"
  /\ group = {}
  /\ IdleJob
  /\ UNCHANGED <<storeVars, content, cron, wanted, excused, requests>>

FindsGroup == FindNothing \/ \E G \in SUBSET Ids, s \in {"stale", "active"} : FindGroup(G, s)
LLMMerges  == \E p \in group : MergeByLLM(p)
TextMerges == \E p \in group, inside \in BOOLEAN : MergeByText(p, inside)
Writes ==
  \/ WriteContent
  \/ WriteContentFails
  \/ \E succeeds \in BOOLEAN :
       \/ ActivatePrimary(succeeds)
       \/ \E i \in group : DeleteOther(i, succeeds)
  \/ GroupDone

-----------------------------------------------------------------------------
(* Requests, other jobs, and the end of the process. *)

Request ==
  /\ requests < MaxRequests
  /\ requests' = requests + 1
  /\ UNCHANGED jobVars

Store(i, c) ==
  /\ Request
  /\ CreateMemory(i)
  /\ content' = [content EXCEPT ![i] = c]
  /\ wanted' = wanted \cup c
  /\ excused' = excused \ c
  /\ UNCHANGED cron

(* An update replaces the text: what the old one said is given up. *)
Edit(i, c) ==
  /\ Request
  /\ Writable
  /\ state[i] \in LiveStates
  /\ content' = [content EXCEPT ![i] = c]
  /\ wanted' = (wanted \ content[i]) \cup c
  /\ excused' = IF i \in group THEN excused \cup c ELSE excused
  /\ UNCHANGED <<storeVars, cron>>

SetTags(i) ==
  /\ Request
  /\ Writable
  /\ Present(i)
  /\ cron' = IF i \in cron THEN cron \ {i} ELSE cron \cup {i}
  /\ UNCHANGED <<storeVars, content, wanted, excused>>

(* A request deletes a memory, or the decay job does: its words are given up. *)
Forget(i) ==
  /\ Request
  /\ Present(i)
  /\ SoftDelete(i) \/ HardDelete(i)
  /\ wanted' = wanted \ content[i]
  /\ UNCHANGED <<content, cron, excused>>

DecayOrResolve(i) ==
  /\ Request
  /\ state[i] \in Searchable
  /\ \/ ResolveMemory(i)
     \/ \E s \in {"stale", "archived"} : BatchTransitionStates([j \in {i} |-> s], TRUE)
  /\ UNCHANGED <<content, cron, wanted, excused>>

Requests ==
  \E i \in Ids :
    \/ \E c \in Contents : Store(i, c) \/ Edit(i, c)
    \/ SetTags(i)
    \/ Forget(i)
    \/ DecayOrResolve(i)

(* The job is lost with the process: Crash, and Close, which waits for a job for
   60 seconds and then closes the database under it. *)
Stop ==
  /\ requests < MaxRequests
  /\ requests' = requests + 1
  /\ Crash(FALSE)
  /\ IdleJob
  /\ UNCHANGED <<content, cron, wanted, excused>>

Restart ==
  /\ OpenLoad \/ OpenRebuild
  /\ UNCHANGED <<content, cron, jobVars, wanted, excused, requests>>

ConsolidationNext ==
  FindsGroup \/ LLMMerges \/ TextMerges \/ Writes \/ Requests \/ Stop \/ Restart
ConsolidationSpec == ConsolidationInit /\ [][ConsolidationNext]_consVars

-----------------------------------------------------------------------------
(* Properties. *)

Said == UNION {content[i] : i \in {j \in Ids : state[j] \in LiveStates}}

(* A word that a request stored, and that no request replaced or deleted since,
   is said by a live memory: neither a crash between two statements of a merge
   nor a statement that fails loses it.  Excused are the words of an edit of
   a row that the job holds, the words that the text-based merge drops, and those of a
   merge whose primary was deleted and could not be set active. *)
WordsAreKept == wanted \ excused \subseteq Said

(* consolidation_processor.go: cron-tagged memories "must never be merged away".
   The tags are the ones that were read before the LLM was asked. *)
SchedulesAreNotMergedAway ==
  [][step = "delete" => \A i \in cron \cap group : state'[i] = "deleted" => state[i] = "deleted"]_consVars
=============================================================================
