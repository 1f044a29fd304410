------------------------------- MODULE StorageProofs -------------------------------
(***************************************************************************)
(* What a merge of memories, archival, purge and the migration of a file    *)
(* do not lose, for any memories, texts and columns, and for a process that *)
(* dies between any two statements.                                         *)
(***************************************************************************)
EXTENDS Consolidation, Migration, RetentionJobs, MemoryStoreProofs, FiniteSetTheorems, SequenceTheorems,
        TLAPS

-----------------------------------------------------------------------------
(* Consolidation.  A word that has to be kept is said by a live row that the merge leaves
   alone, or by a live row of the group and by what the merge is going to put in the
   primary's place: the copies that were read, the text made of them, the text written. *)
Says(k, w) == state[k] \in LiveStates /\ w \in content[k]

InHand(k, w) ==
  \/ step = "merge" /\ w \in snap[k]
  \/ step = "content" /\ w \in merged
  \/ step = "activate" /\ w \in merged /\ w \in content[primary]

Kept(w) ==
  \/ \E k \in Ids \ group : Says(k, w)
  \/ \E k \in group : Says(k, w) /\ (step = "group" \/ InHand(k, w))

ConsTypes ==
  /\ state \in [Ids -> RowStates \cup {"unborn", "gone"}]
  /\ content \in [Ids -> SUBSET Words]
  /\ step \in {"group", "merge", "content", "activate", "delete"}
  /\ group \subseteq Ids
  /\ snap \in [group -> SUBSET Words] /\ merged \subseteq Words

(* What the job holds at each of its steps. *)
JobShape ==
  /\ step = "group" => group = {}
  /\ step \in {"content", "activate"} => primary \in group
  /\ \A i \in group : state[i] # "unborn"

ConsInv == ConsTypes /\ JobShape /\ \A w \in wanted \ excused : Kept(w)

LEMMA StatesTyped ==
  LiveStates \subseteq RowStates /\ "unborn" \notin LiveStates /\ "deleted" \notin LiveStates
  /\ {"active", "stale", "resolved", "archived"} = LiveStates /\ "deleted" \in RowStates
BY DEF LiveStates, RowStates

-----------------------------------------------------------------------------
(* The job's steps. *)

LEMMA FindGroupKeeps ==
  ASSUME ConsInv, NEW G \in SUBSET Ids, NEW s \in {"stale", "active"}, FindGroup(G, s)
  PROVE  ConsInv'
<1>1. /\ step = "group" /\ step' = "merge" /\ group = {} /\ group' = G
      /\ snap' = [i \in G |-> content[i]]
      /\ UNCHANGED <<state, content, merged, wanted, excused>>
      /\ \A i \in G : state[i] = s
  BY DEF FindGroup, storeVars, ConsInv, JobShape
<1>2. ConsTypes' /\ JobShape'
  BY <1>1 DEF ConsInv, ConsTypes, JobShape
<1>3. ASSUME NEW w \in wanted \ excused
      PROVE  Kept(w)'
  <2>1. PICK k \in Ids : Says(k, w)
    BY DEF ConsInv, Kept, ConsTypes
  <2>2. Says(k, w)'
    BY <1>1, <2>1 DEF Says
  <2>3. k \in G => InHand(k, w)'
    BY <1>1, <2>1 DEF Says, InHand
  <2> QED
    BY <1>1, <2>2, <2>3 DEF Kept
<1> QED
  BY <1>1, <1>2, <1>3 DEF ConsInv

LEMMA MergeKeeps ==
  ASSUME ConsInv, NEW p \in group, NEW text \in SUBSET Words, Merge(p, text),
         excused \subseteq excused', (UNION {snap[i] : i \in group}) \subseteq text \cup excused'
  PROVE  ConsInv'
<1>1. /\ step = "merge" /\ step' = "content" /\ primary' = p /\ merged' = text
      /\ UNCHANGED <<state, content, group, snap, wanted>>
  BY DEF Merge, storeVars
<1>2. ConsTypes' /\ JobShape'
  BY <1>1 DEF ConsInv, ConsTypes, JobShape
<1>3. ASSUME NEW w \in wanted \ excused'
      PROVE  Kept(w)'
  <2>1. Kept(w)
    BY DEF ConsInv
  <2>2. \A k \in group : w \in snap[k] => w \in text
    OBVIOUS
  <2>3. \A k \in Ids : Says(k, w)' <=> Says(k, w)
    BY <1>1 DEF Says
  <2>4. CASE \E k \in Ids \ group : Says(k, w)
    BY <1>1, <2>3, <2>4 DEF Kept
  <2>5. CASE \E k \in group : Says(k, w) /\ w \in snap[k]
    <3>1. PICK k \in group : Says(k, w) /\ w \in snap[k]
      BY <2>5
    <3>2. k \in Ids /\ w \in text
      BY <2>2, <3>1 DEF ConsInv, ConsTypes
    <3> QED
      BY <1>1, <2>3, <3>1, <3>2 DEF Kept, InHand
  <2> QED
    BY <1>1, <2>1, <2>4, <2>5 DEF Kept, InHand
<1> QED
  BY <1>1, <1>2, <1>3 DEF ConsInv

LEMMA MergesKeep == ASSUME ConsInv, LLMMerges \/ TextMerges PROVE ConsInv'
<1> DEFINE all == UNION {snap[i] : i \in group}
<1>1. all \subseteq Words
  BY DEF ConsInv, ConsTypes
<1>2. CASE LLMMerges
  <2>1. PICK p \in group : Merge(p, all) /\ UNCHANGED excused
    BY <1>2 DEF LLMMerges, MergeByLLM
  <2> QED
    BY <1>1, <2>1, MergeKeeps
<1>3. CASE TextMerges
  <2>1. PICK p \in group, inside \in BOOLEAN : MergeByText(p, inside)
    BY <1>3 DEF TextMerges
  <2> DEFINE text == TextBased(p, inside)
  <2>2. Merge(p, text)
    BY <2>1 DEF MergeByText
  <2>3. excused' = excused \cup (all \ text)
    BY <2>1 DEF MergeByText
  <2>4. text \in SUBSET Words
    BY DEF TextBased, Unique, ConsInv, ConsTypes
  <2> HIDE DEF text, all
  <2>5. excused \subseteq excused' /\ all \subseteq text \cup excused'
    BY <2>3
  <2> QED
    BY <2>2, <2>4, <2>5, MergeKeeps DEF all
<1> QED
  BY <1>2, <1>3

LEMMA WriteContentKeeps == ASSUME ConsInv, WriteContent PROVE ConsInv'
<1>1. /\ step = "content" /\ step' = "activate" /\ content' = [content EXCEPT ![primary] = merged]
      /\ UNCHANGED <<state, group, snap, primary, merged, wanted, excused>>
  BY DEF WriteContent, storeVars
<1>2. primary \in group /\ group \subseteq Ids /\ merged \subseteq Words
      /\ content \in [Ids -> SUBSET Words]
  BY <1>1 DEF ConsInv, JobShape, ConsTypes
<1>3. /\ content' \in [Ids -> SUBSET Words] /\ content'[primary] = merged
      /\ \A k \in Ids \ {primary} : content'[k] = content[k]
  BY <1>1, <1>2
<1>4. ConsTypes' /\ JobShape'
  BY <1>1, <1>2, <1>3 DEF ConsInv, ConsTypes, JobShape
<1>5. ASSUME NEW w \in wanted \ excused
      PROVE  Kept(w)'
  <2>1. Kept(w)
    BY DEF ConsInv
  <2>2. CASE \E k \in Ids \ group : Says(k, w)
    BY <1>1, <1>2, <1>3, <2>2 DEF Kept, Says
  <2>3. CASE \E k \in group : Says(k, w) /\ w \in merged
    <3>1. PICK k \in group : Says(k, w) /\ w \in merged
      BY <2>3
    <3>2. Says(k, w)'
      BY <1>1, <1>2, <1>3, <3>1 DEF Says
    <3>3. InHand(k, w)'
      BY <1>1, <1>3, <3>1 DEF InHand
    <3> QED
      BY <1>1, <3>1, <3>2, <3>3 DEF Kept
  <2> QED
    BY <1>1, <2>1, <2>2, <2>3 DEF Kept, InHand
<1> QED
  BY <1>1, <1>4, <1>5 DEF ConsInv

(* A job that gives up leaves every row as it is. *)
LEMMA IdleJobKeeps ==
  ASSUME ConsInv, IdleJob, UNCHANGED <<state, content, wanted, excused>>
  PROVE  ConsInv'
<1>1. step' = "group" /\ group' = {} /\ snap' = <<>> /\ merged' = {}
  BY DEF IdleJob
<1>2. ConsTypes' /\ JobShape'
  BY <1>1 DEF ConsInv, ConsTypes, JobShape
<1>3. ASSUME NEW w \in wanted \ excused
      PROVE  Kept(w)'
  <2>1. PICK k \in Ids : Says(k, w)
    BY DEF ConsInv, Kept, ConsTypes
  <2> QED
    BY <1>1, <2>1 DEF Kept, Says
<1> QED
  BY <1>2, <1>3 DEF ConsInv

LEMMA ActivatePrimaryKeeps ==
  ASSUME ConsInv, NEW succeeds \in BOOLEAN, ActivatePrimary(succeeds)
  PROVE  ConsInv'
<1>1. /\ step = "activate" /\ step' = "delete" /\ group' = group \ {primary}
      /\ snap' = [i \in group \ {primary} |-> snap[i]]
      /\ UNCHANGED <<content, primary, merged, wanted>>
      /\ excused' = IF state'[primary] \in LiveStates THEN excused ELSE excused \cup merged
  BY DEF ActivatePrimary
<1>2. state' = state \/ state' = [state EXCEPT ![primary] = "active"]
  BY DEF ActivatePrimary, UpdateMemoryState, storeVars
<1>3. primary \in group /\ primary \in Ids
  BY <1>1 DEF ConsInv, JobShape, ConsTypes
<1>4. /\ state' \in [Ids -> RowStates \cup {"unborn", "gone"}]
      /\ \A k \in Ids \ {primary} : state'[k] = state[k]
  BY <1>2, <1>3, StatesTyped DEF ConsInv, ConsTypes
<1>5. ConsTypes' /\ JobShape'
  <2>1. \A i \in group' : state'[i] # "unborn"
    BY <1>1, <1>4 DEF ConsInv, JobShape, ConsTypes
  <2> QED
    BY <1>1, <1>4, <2>1 DEF ConsInv, ConsTypes, JobShape
<1>6. ASSUME NEW w \in wanted \ excused'
      PROVE  Kept(w)'
  <2>1. Kept(w) /\ w \notin excused
    BY <1>1 DEF ConsInv
  <2>2. CASE \E k \in Ids \ group : Says(k, w)
    BY <1>1, <1>3, <1>4, <2>2 DEF Kept, Says
  <2>3. CASE w \in merged /\ w \in content[primary]
    <3>1. Says(primary, w)'
      BY <1>1, <2>3 DEF Says
    <3> QED
      BY <1>1, <1>3, <3>1 DEF Kept
  <2> QED
    BY <1>1, <2>1, <2>2, <2>3 DEF Kept, InHand
<1> QED
  BY <1>1, <1>5, <1>6 DEF ConsInv

LEMMA DeleteOtherKeeps ==
  ASSUME ConsInv, NEW i \in group, NEW succeeds \in BOOLEAN, DeleteOther(i, succeeds)
  PROVE  ConsInv'
<1>1. /\ step = "delete" /\ step' = step /\ group' = group \ {i} /\ snap' = [j \in group \ {i} |-> snap[j]]
      /\ UNCHANGED <<content, primary, merged, wanted, excused>>
  BY DEF DeleteOther
<1>2. state' = state \/ state' = [state EXCEPT ![i] = "deleted"]
  BY DEF DeleteOther, SoftDelete, storeVars, rowVars
<1>3. i \in Ids
  BY DEF ConsInv, ConsTypes
<1>4. /\ state' \in [Ids -> RowStates \cup {"unborn", "gone"}]
      /\ \A k \in Ids \ {i} : state'[k] = state[k]
  BY <1>2, <1>3, StatesTyped DEF ConsInv, ConsTypes
<1>5. ConsTypes' /\ JobShape'
  <2>1. \A k \in group' : state'[k] # "unborn"
    BY <1>1, <1>4 DEF ConsInv, JobShape, ConsTypes
  <2> QED
    BY <1>1, <1>4, <2>1 DEF ConsInv, ConsTypes, JobShape
<1>6. ASSUME NEW w \in wanted \ excused
      PROVE  Kept(w)'
  <2>1. PICK k \in Ids \ group : Says(k, w)
    BY <1>1 DEF ConsInv, Kept, InHand
  <2> QED
    BY <1>1, <1>4, <2>1 DEF Kept, Says
<1> QED
  BY <1>1, <1>5, <1>6 DEF ConsInv

-----------------------------------------------------------------------------
(* Requests.  One that gives up the words of a row, or stores words in one that the job
   does not hold, or excuses them in one that it holds, leaves the rest said. *)
LEMMA RequestMoves ==
  ASSUME ConsInv, ConsTypes', UNCHANGED jobVars,
         \A i \in Ids : state[i] # "unborn" => state'[i] # "unborn",
         \A w \in wanted' \ excused' :
           \/ \E k \in Ids \ group : Says(k, w)'
           \/ /\ w \in wanted \ excused
              /\ \A k \in Ids : Says(k, w) => Says(k, w)'
              /\ \A k \in group : w \in content[k] => w \in content'[k]
  PROVE  ConsInv'
<1>1. UNCHANGED <<step, group, snap, primary, merged>>
  BY DEF jobVars
<1>2. JobShape'
  BY <1>1 DEF ConsInv, ConsTypes, JobShape
<1>3. ASSUME NEW w \in wanted' \ excused'
      PROVE  Kept(w)'
  <2>1. CASE \E k \in Ids \ group : Says(k, w)'
    BY <1>1, <2>1 DEF Kept
  <2>2. CASE /\ w \in wanted \ excused
             /\ \A k \in Ids : Says(k, w) => Says(k, w)'
             /\ \A k \in group : w \in content[k] => w \in content'[k]
    <3>1. Kept(w) /\ group \subseteq Ids
      BY <2>2 DEF ConsInv, ConsTypes
    <3>2. CASE \E k \in Ids \ group : Says(k, w)
      BY <1>1, <2>2, <3>2 DEF Kept
    <3>3. CASE \E k \in group : Says(k, w) /\ (step = "group" \/ InHand(k, w))
      <4>1. PICK k \in group : Says(k, w) /\ (step = "group" \/ InHand(k, w))
        BY <3>3
      <4>2. Says(k, w)'
        BY <2>2, <3>1, <4>1
      <4>3. step = "activate" => primary \in group
        BY <3>1 DEF ConsInv, JobShape
      <4>4. step' = "group" \/ InHand(k, w)'
        BY <1>1, <2>2, <4>1, <4>3 DEF InHand
      <4> QED
        BY <1>1, <4>1, <4>2, <4>4 DEF Kept
    <3> QED
      BY <3>1, <3>2, <3>3 DEF Kept
  <2> QED
    BY <1>3, <2>1, <2>2
<1> QED
  BY <1>2, <1>3 DEF ConsInv

LEMMA StoreWordsKeeps ==
  ASSUME ConsInv, ConsolidationAssumption, NEW i \in Ids, NEW c \in Contents, Store(i, c)
  PROVE  ConsInv'
<1>1. /\ state[i] = "unborn" /\ state' = [state EXCEPT ![i] = "active"]
      /\ content' = [content EXCEPT ![i] = c] /\ UNCHANGED jobVars
      /\ wanted' = wanted \cup c /\ excused' = excused \ c
  BY DEF Store, Request, CreateMemory
<1>2. /\ state \in [Ids -> RowStates \cup {"unborn", "gone"}] /\ content \in [Ids -> SUBSET Words]
      /\ c \subseteq Words /\ i \notin group
  BY <1>1 DEF ConsInv, ConsTypes, JobShape, ConsolidationAssumption
<1>3. /\ state'[i] = "active" /\ content'[i] = c
      /\ \A k \in Ids \ {i} : state'[k] = state[k] /\ content'[k] = content[k]
  BY <1>1, <1>2
<1>4. ConsTypes'
  BY <1>1, <1>2, StatesTyped DEF ConsInv, ConsTypes, jobVars
<1>5. \A k \in Ids : state[k] # "unborn" => state'[k] # "unborn"
  BY <1>1, <1>3
<1>6. ASSUME NEW w \in wanted' \ excused'
      PROVE  \/ \E k \in Ids \ group : Says(k, w)'
             \/ /\ w \in wanted \ excused
                /\ \A k \in Ids : Says(k, w) => Says(k, w)'
                /\ \A k \in group : w \in content[k] => w \in content'[k]
  <2>1. CASE w \in c
    <3>1. Says(i, w)'
      BY <1>3, <2>1, StatesTyped DEF Says
    <3> QED
      BY <1>2, <3>1
  <2>2. CASE w \notin c
    <3>1. w \in wanted \ excused
      BY <1>1, <1>6, <2>2
    <3>2. ASSUME NEW k \in Ids, Says(k, w)
          PROVE  Says(k, w)'
      <4>1. k # i
        BY <1>1, <3>2, StatesTyped DEF Says
      <4> QED
        BY <1>3, <3>2, <4>1 DEF Says
    <3>3. \A k \in group : content'[k] = content[k]
      BY <1>2, <1>3 DEF ConsInv, ConsTypes
    <3> QED
      BY <3>1, <3>2, <3>3
  <2> QED
    BY <2>1, <2>2
<1> QED
  BY <1>1, <1>4, <1>5, <1>6, RequestMoves

LEMMA EditKeeps ==
  ASSUME ConsInv, ConsolidationAssumption, NEW i \in Ids, NEW c \in Contents, Edit(i, c)
  PROVE  ConsInv'
<1>1. /\ state[i] \in LiveStates /\ state' = state
      /\ content' = [content EXCEPT ![i] = c] /\ UNCHANGED jobVars
      /\ wanted' = (wanted \ content[i]) \cup c
      /\ excused' = IF i \in group THEN excused \cup c ELSE excused
  BY DEF Edit, Request, storeVars
<1>2. content \in [Ids -> SUBSET Words] /\ c \subseteq Words
  BY DEF ConsInv, ConsTypes, ConsolidationAssumption
<1>3. content'[i] = c /\ \A k \in Ids \ {i} : content'[k] = content[k]
  BY <1>1, <1>2
<1>4. ConsTypes'
  BY <1>1, <1>2 DEF ConsInv, ConsTypes, jobVars
<1>5. ASSUME NEW w \in wanted' \ excused'
      PROVE  \/ \E k \in Ids \ group : Says(k, w)'
             \/ /\ w \in wanted \ excused
                /\ \A k \in Ids : Says(k, w) => Says(k, w)'
                /\ \A k \in group : w \in content[k] => w \in content'[k]
  <2>1. CASE w \in c
    <3>1. i \notin group
      BY <1>1, <1>5, <2>1
    <3>2. Says(i, w)'
      BY <1>1, <1>3, <2>1 DEF Says
    <3> QED
      BY <3>1, <3>2
  <2>2. CASE w \notin c
    <3>1. w \in wanted \ excused /\ w \notin content[i]
      BY <1>1, <1>5, <2>2
    <3>2. \A k \in Ids : w \in content[k] => w \in content'[k]
      BY <1>3, <3>1
    <3>3. \A k \in Ids : Says(k, w) => Says(k, w)'
      BY <1>1, <3>2 DEF Says
    <3>4. group \subseteq Ids
      BY DEF ConsInv, ConsTypes
    <3> QED
      BY <3>1, <3>2, <3>3, <3>4
  <2> QED
    BY <2>1, <2>2
<1> QED
  BY <1>1, <1>4, <1>5, RequestMoves

LEMMA ForgetKeeps == ASSUME ConsInv, NEW i \in Ids, Forget(i) PROVE ConsInv'
<1>1. /\ UNCHANGED jobVars /\ UNCHANGED <<content, excused>> /\ wanted' = wanted \ content[i]
      /\ Present(i) /\ (SoftDelete(i) \/ HardDelete(i))
  BY DEF Forget, Request
<1>2. state' = [state EXCEPT ![i] = "deleted"] \/ state' = [state EXCEPT ![i] = "gone"]
  BY <1>1, Zenon DEF SoftDelete, HardDelete
<1>3. /\ state' \in [Ids -> RowStates \cup {"unborn", "gone"}] /\ state'[i] # "unborn"
      /\ \A k \in Ids \ {i} : state'[k] = state[k]
  BY <1>2, StatesTyped DEF ConsInv, ConsTypes
<1>4. ConsTypes'
  BY <1>1, <1>3 DEF ConsInv, ConsTypes, jobVars
<1>5. \A k \in Ids : state[k] # "unborn" => state'[k] # "unborn"
  BY <1>3
<1>6. ASSUME NEW w \in wanted' \ excused'
      PROVE  /\ w \in wanted \ excused
             /\ \A k \in Ids : Says(k, w) => Says(k, w)'
             /\ \A k \in group : w \in content[k] => w \in content'[k]
  <2>1. w \in wanted \ excused /\ w \notin content[i]
    BY <1>1, <1>6
  <2> QED
    BY <1>1, <1>3, <2>1 DEF Says
<1> QED
  BY <1>1, <1>4, <1>5, <1>6, RequestMoves

(* What leaves contents and wishes alone, and the live alive. *)
LEMMA LiveOnesStay ==
  ASSUME ConsInv, UNCHANGED jobVars, UNCHANGED <<content, wanted, excused>>,
         state' \in [Ids -> RowStates \cup {"unborn", "gone"}],
         \A i \in Ids : state[i] \in LiveStates => state'[i] \in LiveStates,
         \A i \in Ids : state[i] # "unborn" => state'[i] # "unborn"
  PROVE  ConsInv'
<1>1. ConsTypes'
  BY DEF ConsInv, ConsTypes, jobVars
<1>2. \A w : \A k \in Ids : Says(k, w) => Says(k, w)'
  BY DEF Says
<1> QED
  BY <1>1, <1>2, RequestMoves

LEMMA DecayOrResolveKeeps == ASSUME ConsInv, NEW i \in Ids, DecayOrResolve(i) PROVE ConsInv'
<1>1. UNCHANGED jobVars /\ UNCHANGED <<content, wanted, excused>>
  BY DEF DecayOrResolve, Request
<1>2. state \in [Ids -> RowStates \cup {"unborn", "gone"}]
  BY DEF ConsInv, ConsTypes
<1>3. \E s \in LiveStates : \A k \in Ids : state'[k] = state[k] \/ state'[k] = s
  <2>1. CASE ResolveMemory(i)
    BY <1>2, <2>1, StatesTyped DEF ResolveMemory
  <2>2. ASSUME NEW s \in {"stale", "archived"}, BatchTransitionStates([j \in {i} |-> s], TRUE)
        PROVE  \A k \in Ids : state'[k] = state[k] \/ state'[k] = s
    BY <2>2 DEF BatchTransitionStates
  <2> QED
    BY <2>1, <2>2, StatesTyped DEF DecayOrResolve
<1>4. state' \in [Ids -> RowStates \cup {"unborn", "gone"}]
  <2>1. DOMAIN state' = Ids /\ state' = [k \in Ids |-> state'[k]]
    <3>1. CASE ResolveMemory(i)
      BY <1>2, <3>1 DEF ResolveMemory
    <3>2. ASSUME NEW s \in {"stale", "archived"}, BatchTransitionStates([j \in {i} |-> s], TRUE)
          PROVE  DOMAIN state' = Ids /\ state' = [k \in Ids |-> state'[k]]
      BY <3>2 DEF BatchTransitionStates
    <3> QED
      BY <3>1, <3>2 DEF DecayOrResolve
  <2> QED
    BY <1>2, <1>3, <2>1, StatesTyped
<1>5. /\ \A k \in Ids : state[k] \in LiveStates => state'[k] \in LiveStates
      /\ \A k \in Ids : state[k] # "unborn" => state'[k] # "unborn"
  BY <1>3, StatesTyped
<1> QED
  BY <1>1, <1>4, <1>5, LiveOnesStay

LEMMA ConsInvHolds == ConsolidationSpec => []ConsInv
<1>1. ConsolidationInit => ConsInv
  BY StatesTyped DEF ConsolidationInit, StoreInit, ConsInv, ConsTypes, JobShape
<1>2. ConsInv /\ [ConsolidationNext]_consVars => ConsInv'
  <2> SUFFICES ASSUME ConsInv, [ConsolidationNext]_consVars PROVE ConsInv'
    OBVIOUS
  <2>1. CASE UNCHANGED consVars
    BY <2>1, LiveOnesStay DEF consVars, storeVars, ConsInv, ConsTypes
  <2>2. CASE FindsGroup
    BY <2>2, <2>1, FindGroupKeeps DEF FindsGroup, FindNothing
  <2>3. CASE LLMMerges \/ TextMerges
    BY <2>3, MergesKeep
  <2>4. CASE Writes
    <3>1. CASE WriteContentFails \/ GroupDone
      BY <3>1, IdleJobKeeps DEF WriteContentFails, GroupDone, storeVars
    <3> QED
      BY <2>4, <3>1, WriteContentKeeps, ActivatePrimaryKeeps, DeleteOtherKeeps DEF Writes
  <2>5. CASE Requests
    <3>1. ASSUME NEW i \in Ids, SetTags(i) PROVE ConsInv'
      BY <3>1, LiveOnesStay DEF SetTags, Request, storeVars, ConsInv, ConsTypes
    <3> QED
      BY <2>5, <3>1, ConsolidationAssumption, StoreWordsKeeps, EditKeeps, ForgetKeeps,
         DecayOrResolveKeeps DEF Requests
  <2>6. CASE Stop
    BY <2>6, IdleJobKeeps DEF Stop, Crash, rowVars
  <2>7. CASE Restart
    BY <2>7, LiveOnesStay DEF Restart, OpenLoad, OpenRebuild, rowVars, ConsInv, ConsTypes
  <2> QED
    BY <2>1, <2>2, <2>3, <2>4, <2>5, <2>6, <2>7 DEF ConsolidationNext
<1> QED
  BY <1>1, <1>2, PTL DEF ConsolidationSpec

(* A word that a request stored, and that no request replaced or deleted since, is said by
   a live memory, whatever the order of the merge's statements, requests, failures and
   deaths of the process (consolidation_processor.go), for any memories and texts. *)
THEOREM MergesLoseNoWords == ConsolidationSpec => []WordsAreKept
<1>1. ConsInv => WordsAreKept
  <2> SUFFICES ASSUME ConsInv, NEW w \in wanted \ excused PROVE w \in Said
    BY DEF WordsAreKept
  <2>1. PICK k \in Ids : Says(k, w)
    BY DEF ConsInv, Kept, ConsTypes
  <2> QED
    BY <2>1 DEF Said, Says
<1> QED
  BY <1>1, ConsInvHolds, PTL

LEMMA ConsolidationStepsStore ==
  ASSUME ConsInv, StoreTypeOK, [ConsolidationNext]_consVars
  PROVE  [StoreNext]_storeVars /\ StoreTypeOK'
<1>1. group \subseteq Ids /\ (step = "activate" => primary \in Ids)
  BY DEF ConsInv, ConsTypes, JobShape
<1>2. CASE UNCHANGED storeVars
  BY <1>2, StoreTypeStep
<1>3. ASSUME NEW i \in Ids, SoftDelete(i) \/ HardDelete(i) \/ CreateMemory(i) \/ UpdateMemoryState(i, "active")
      PROVE  [StoreNext]_storeVars /\ StoreTypeOK'
  BY <1>3, WritesAreTheStores
<1>4. CASE FindsGroup \/ LLMMerges \/ TextMerges
  BY <1>2, <1>4 DEF FindsGroup, FindNothing, FindGroup, LLMMerges, MergeByLLM, TextMerges, MergeByText, Merge,
                    consVars
<1>5. CASE Writes
  <2>1. CASE WriteContent \/ WriteContentFails \/ GroupDone
    BY <1>2, <2>1 DEF WriteContent, WriteContentFails, GroupDone
  <2>2. ASSUME NEW succeeds, ActivatePrimary(succeeds) PROVE [StoreNext]_storeVars /\ StoreTypeOK'
    BY <1>1, <1>2, <1>3, <2>2 DEF ActivatePrimary
  <2>3. ASSUME NEW i \in group, NEW succeeds, DeleteOther(i, succeeds) PROVE [StoreNext]_storeVars /\ StoreTypeOK'
    BY <1>1, <1>2, <1>3, <2>3 DEF DeleteOther
  <2> QED
    BY <1>5, <2>1, <2>2, <2>3 DEF Writes
<1>6. CASE Requests
  <2>1. ASSUME NEW i \in Ids, DecayOrResolve(i) PROVE [StoreNext]_storeVars /\ StoreTypeOK'
    BY <2>1, WritesAreTheStores DEF DecayOrResolve
  <2>2. ASSUME NEW i \in Ids, NEW c \in Contents, Store(i, c) \/ Edit(i, c)
        PROVE  [StoreNext]_storeVars /\ StoreTypeOK'
    BY <1>2, <1>3, <2>2 DEF Store, Edit
  <2>3. ASSUME NEW i \in Ids, SetTags(i) \/ Forget(i) PROVE [StoreNext]_storeVars /\ StoreTypeOK'
    BY <1>2, <1>3, <2>3 DEF SetTags, Forget
  <2> QED
    BY <1>6, <2>1, <2>2, <2>3 DEF Requests
<1>7. CASE Stop \/ Restart
  <2>1. StopOrStart
    BY <1>7 DEF Stop, Restart, StopOrStart
  <2> QED
    BY <2>1, StoreTypeStep DEF StoreNext
<1>8. CASE UNCHANGED consVars
  BY <1>2, <1>8 DEF consVars
<1> QED
  BY <1>4, <1>5, <1>6, <1>7, <1>8 DEF ConsolidationNext

(* A merge among requests, and the end of the process at any of its statements, is a
   behaviour of the store: its theorems, such as NoVectorLost, hold of it. *)
THEOREM ConsolidationImplementsStore == ConsolidationSpec => StoreSpec
<1>1. ConsolidationInit => StoreInit
  BY DEF ConsolidationInit
<1>2. StoreInit => StoreTypeOK
  BY DEF StoreInit, StoreTypeOK
<1> QED
  BY <1>1, <1>2, ConsInvHolds, ConsolidationStepsStore, PTL DEF ConsolidationSpec, StoreSpec

-----------------------------------------------------------------------------
(* Migration.  The table that counts, the one that a rollback would bring back while the
   rebuild is under way, has what was stored; and unless a column could not be added, its
   columns are the first ones of Added, as its rows' values are. *)
Columns == Seq(Range(Added))
RowRecords == [text : Texts, values : Columns]

IsFile(f) == f = [memories |-> f.memories, old |-> f.old, words |-> f.words]

IsTable(t) ==
  /\ t \in [exists : {TRUE}, columns : Columns, resolved : BOOLEAN, triggers : SUBSET Triggers,
            rows : {t.rows}]
  /\ t.rows \in [DOMAIN t.rows -> RowRecords]

FirstOnes(t, n) ==
  /\ \A r \in DOMAIN t.rows : t.rows[r].values = t.columns
  /\ \E k \in n .. Len(Added) : t.columns = SubSeq(Added, 1, k)

Sound(t, n) ==
  /\ IsTable(t)
  /\ DOMAIN t.rows = DOMAIN stored /\ \A r \in DOMAIN stored : t.rows[r].text = stored[r]
  /\ skipped \/ FirstOnes(t, n)

(* The columns before the next one have all been tried. *)
Tried == IF opening = "alter" THEN nth - 1 ELSE 0

AtRest ==
  ~Rebuilding =>
    \/ db.memories.exists /\ Sound(db.memories, Tried)
    \/ /\ ~db.memories.exists /\ stored = <<>>
       /\ opening \in {"closed", "create"}

InRebuild ==
  /\ Rebuilding => IsFile(saved) /\ saved.memories.exists /\ Sound(saved.memories, 0)
  /\ opening = "rename" => db = saved
  /\ opening \in {"recreate", "copy"} => db.old = saved.memories
  /\ opening = "copy" => db.memories = NewTable(Added)
  /\ opening \in {"drop", "commit"} => db.memories.exists /\ Sound(db.memories, 0)

FileTypes ==
  /\ opening \in {"closed", "create", "alter", "text", "check", "rename", "recreate", "copy",
                  "drop", "commit", "verify", "running"}
  /\ nth \in 1 .. Len(Added) + 1 /\ (opening # "alter" => nth = 1) /\ skipped \in BOOLEAN
  /\ IsFile(db) /\ stored = [r \in DOMAIN stored |-> stored[r]]

FileInv == FileTypes /\ AtRest /\ InRebuild

LEMMA AddedIsASequence ==
  /\ Added \in Columns /\ Len(Added) \in Nat /\ DOMAIN Added = 1 .. Len(Added)
  /\ \A i, j \in 1 .. Len(Added) : Added[i] = Added[j] => i = j
BY MigrationAssumption DEF Columns, IsInjective

LEMMA FirstColumns ==
  ASSUME NEW k \in 0 .. Len(Added)
  PROVE  /\ SubSeq(Added, 1, k) \in Columns /\ Len(SubSeq(Added, 1, k)) = k
         /\ \A i \in 1 .. k : SubSeq(Added, 1, k)[i] = Added[i]
BY AddedIsASequence, SubSeqProperties DEF Columns

LEMMA OneMoreColumn ==
  ASSUME NEW k \in 0 .. Len(Added), k < Len(Added)
  PROVE  Append(SubSeq(Added, 1, k), Added[k + 1]) = SubSeq(Added, 1, k + 1)
<1> DEFINE a == SubSeq(Added, 1, k)
<1> DEFINE b == SubSeq(Added, 1, k + 1)
<1>1. k \in Nat /\ k + 1 \in 0 .. Len(Added) /\ k + 1 \in 1 .. Len(Added)
  BY AddedIsASequence
<1>2. /\ a \in Columns /\ Len(a) = k /\ \A i \in 1 .. k : a[i] = Added[i]
      /\ b \in Columns /\ Len(b) = k + 1 /\ \A i \in 1 .. k + 1 : b[i] = Added[i]
  BY <1>1, FirstColumns
<1>3. Added[k + 1] \in Range(Added)
  BY <1>1, AddedIsASequence DEF Range
<1> HIDE DEF a, b
<1>4. /\ Append(a, Added[k + 1]) \in Columns /\ Len(Append(a, Added[k + 1])) = k + 1
      /\ \A i \in 1 .. k : Append(a, Added[k + 1])[i] = a[i]
      /\ Append(a, Added[k + 1])[k + 1] = Added[k + 1]
  BY <1>1, <1>2, <1>3, AppendProperties DEF Columns
<1>5. \A i \in 1 .. k + 1 : Append(a, Added[k + 1])[i] = b[i]
  BY <1>1, <1>2, <1>4
<1>6. Append(a, Added[k + 1]) = b
  BY <1>1, <1>2, <1>4, <1>5, SeqEqual DEF Columns
<1> QED
  BY <1>6 DEF a, b

LEMMA ColumnsThatAreThere ==
  ASSUME NEW k \in 0 .. Len(Added), NEW n \in 1 .. Len(Added)
  PROVE  Contains(SubSeq(Added, 1, k), Added[n]) <=> n <= k
BY FirstColumns, AddedIsASequence DEF Contains

LEMMA AllColumns ==
  ASSUME NEW k \in 0 .. Len(Added), Len(SubSeq(Added, 1, k)) = Len(Added)
  PROVE  SubSeq(Added, 1, k) = Added
BY FirstColumns, AddedIsASequence, SeqEqual DEF Columns

LEMMA NewTableIsSound ==
  /\ IsTable(NewTable(<<>>)) /\ IsTable(NewTable(Added))
  /\ DOMAIN NewTable(<<>>).rows = {} /\ DOMAIN <<>> = {}
  /\ NewTable(<<>>).columns = SubSeq(Added, 1, 0)
<1>1. <<>> \in Columns /\ DOMAIN <<>> = {} /\ Len(<<>>) = 0
  BY DEF Columns
<1>2. Added \in Columns
  BY AddedIsASequence
<1>3. SubSeq(Added, 1, 0) = <<>>
  BY <1>1, FirstColumns, AddedIsASequence, SeqEqual DEF Columns
<1>4. <<>> \in [{} -> RowRecords]
  BY <1>1
<1> QED
  BY <1>1, <1>2, <1>3, <1>4 DEF IsTable, NewTable

-----------------------------------------------------------------------------
(* The statements before the rebuild. *)

LEMMA FilesStart == MigrationAssumption /\ MigrationInit => FileInv
<1> SUFFICES ASSUME MigrationInit PROVE FileInv
  OBVIOUS
<1>1. opening = "closed" /\ nth = 1 /\ skipped = FALSE
  BY DEF MigrationInit
<1>2. nth \in 1 .. Len(Added) + 1 /\ 0 \in 0 .. Len(Added)
  BY <1>1, AddedIsASequence
<1>3. CASE db = [memories |-> Absent, old |-> Absent, words |-> {}] /\ stored = <<>>
  <2>1. IsFile(db) /\ ~db.memories.exists
    BY <1>3 DEF IsFile, Absent
  <2>2. stored = [r \in DOMAIN stored |-> stored[r]]
    BY <1>3
  <2> QED
    BY <1>1, <1>2, <1>3, <2>1, <2>2 DEF FileInv, FileTypes, AtRest, InRebuild, Rebuilding
<1>4. ASSUME NEW n \in 0 .. Len(Added), NEW indexed \in BOOLEAN, NEW text \in [OldRows -> Texts],
             NEW rows, rows = [r \in OldRows |-> [text |-> text[r], values |-> SubSeq(Added, 1, n)]],
             db = [memories |-> [NewTable(SubSeq(Added, 1, n)) EXCEPT
                                   !.resolved = FALSE, !.rows = rows,
                                   !.triggers = IF indexed THEN Triggers ELSE {}],
                   old |-> Absent, words |-> IF indexed THEN WordsOf(rows) ELSE {}],
             stored = text
      PROVE  FileInv
  <2> DEFINE columns == SubSeq(Added, 1, n)
  <2>1. columns \in Columns
    BY FirstColumns
  <2>a. columns = SubSeq(Added, 1, n)
    OBVIOUS
  <2> HIDE DEF columns
  <2>2. rows \in [OldRows -> RowRecords] /\ DOMAIN rows = OldRows
        /\ \A r \in OldRows : rows[r].text = text[r] /\ rows[r].values = columns
    BY <1>4, <2>1, <2>a DEF RowRecords
  <2>3. db.memories = [exists |-> TRUE, columns |-> columns, resolved |-> FALSE,
                       triggers |-> IF indexed THEN Triggers ELSE {}, rows |-> rows]
    BY <1>4, <2>a DEF NewTable
  <2>4. IsFile(db)
    BY <1>4 DEF IsFile
  <2>5. IsTable(db.memories) /\ db.memories.exists
    BY <2>1, <2>2, <2>3 DEF IsTable
  <2>6. FirstOnes(db.memories, 0)
    BY <2>2, <2>3, <2>a DEF FirstOnes
  <2>7. Sound(db.memories, 0)
    BY <1>4, <2>2, <2>3, <2>5, <2>6 DEF Sound
  <2>8. stored = [r \in DOMAIN stored |-> stored[r]]
    BY <1>4
  <2> QED
    BY <1>1, <1>2, <2>4, <2>5, <2>7, <2>8
    DEF FileInv, FileTypes, AtRest, InRebuild, Rebuilding, Tried
<1> QED
  BY <1>3, <1>4 DEF MigrationInit

(* What has been tried up to a column has been up to any before. *)
LEMMA FewerTried ==
  ASSUME NEW t, NEW n \in Nat, Sound(t, n)
  PROVE  Sound(t, 0)
BY AddedIsASequence DEF Sound, FirstOnes

LEMMA OpensKeeps == ASSUME FileInv, Opens PROVE FileInv'
<1>1. opening = "closed" /\ opening' = "create" /\ UNCHANGED <<db, saved, nth, stored, skipped>>
  BY DEF Opens
<1> QED
  BY <1>1 DEF FileInv, FileTypes, AtRest, InRebuild, Rebuilding, Tried, Sound, FirstOnes

LEMMA CreateTablesKeeps == ASSUME FileInv, CreateTables PROVE FileInv'
<1>1. opening = "create" /\ UNCHANGED <<saved, nth, stored, skipped>>
  BY DEF CreateTables
<1>2. CASE opening' = "closed" /\ UNCHANGED db
  BY <1>1, <1>2 DEF FileInv, FileTypes, AtRest, InRebuild, Rebuilding, Tried, Sound, FirstOnes
<1>3. CASE /\ opening' = "alter"
           /\ db' = IF db.memories.exists THEN db ELSE [db EXCEPT !.memories = NewTable(<<>>)]
  <2>0. nth = 1 /\ 1 \in 1 .. Len(Added) + 1 /\ IsFile(db)
    BY <1>1, AddedIsASequence DEF FileInv, FileTypes
  <2>1. CASE db.memories.exists
    <3>1. Sound(db.memories, 0) /\ db' = db
      BY <1>1, <1>3, <2>1 DEF FileInv, AtRest, Rebuilding, Tried
    <3> QED
      BY <1>1, <1>3, <2>0, <2>1, <3>1
      DEF FileInv, FileTypes, AtRest, InRebuild, Rebuilding, Tried, Sound, FirstOnes
  <2>2. CASE ~db.memories.exists
    <3>1. stored = <<>> /\ db' = [db EXCEPT !.memories = NewTable(<<>>)]
      BY <1>1, <1>3, <2>2 DEF FileInv, AtRest, Rebuilding
    <3>2. IsFile(db') /\ db'.memories = NewTable(<<>>)
      BY <2>0, <3>1 DEF IsFile
    <3>a. DOMAIN db'.memories.rows = {} /\ db'.memories.columns = SubSeq(Added, 1, 0)
          /\ db'.memories.exists /\ IsTable(db.memories)' /\ DOMAIN stored' = {}
      BY <1>1, <3>1, <3>2, NewTableIsSound DEF NewTable, IsTable
    <3>b. 0 \in 0 .. Len(Added)
      BY AddedIsASequence
    <3>c. FirstOnes(db.memories, 0)'
      BY <3>a, <3>b DEF FirstOnes
    <3>3. db'.memories.exists /\ Sound(db.memories, 0)'
      BY <3>a, <3>c DEF Sound
    <3> QED
      BY <1>1, <1>3, <2>0, <3>1, <3>2, <3>3
      DEF FileInv, FileTypes, AtRest, InRebuild, Rebuilding, Tried, Sound, FirstOnes
  <2> QED
    BY <2>1, <2>2
<1> QED
  BY <1>1, <1>2, <1>3 DEF CreateTables

LEMMA AddColumnKeeps == ASSUME FileInv, AddColumn PROVE FileInv'
<1> DEFINE t == db.memories
<1> DEFINE c == Added[nth]
<1>1. /\ opening = "alter" /\ nth <= Len(Added) /\ nth' = nth + 1
      /\ UNCHANGED <<saved, opening, stored>>
  BY DEF AddColumn
<1>2. /\ nth \in 1 .. Len(Added) /\ nth' \in 1 .. Len(Added) + 1 /\ nth' - 1 = nth
      /\ IsFile(db) /\ t.exists /\ Sound(t, nth - 1) /\ skipped \in BOOLEAN
      /\ stored = [r \in DOMAIN stored |-> stored[r]]
  BY <1>1, AddedIsASequence DEF FileInv, FileTypes, AtRest, Rebuilding, Tried
<1>3. CASE Contains(t.columns, c) /\ UNCHANGED <<db, skipped>>
  <2>1. ASSUME ~skipped PROVE FirstOnes(t, nth)
    <3>1. PICK k \in nth - 1 .. Len(Added) : t.columns = SubSeq(Added, 1, k)
      BY <1>2, <2>1 DEF Sound, FirstOnes
    <3>2. k \in 0 .. Len(Added)
      BY <1>2, <3>1, AddedIsASequence
    <3>3. nth <= k
      BY <1>2, <1>3, <3>1, <3>2, ColumnsThatAreThere
    <3>4. k \in nth .. Len(Added)
      BY <1>2, <3>2, <3>3, AddedIsASequence
    <3> QED
      BY <1>2, <2>1, <3>1, <3>4 DEF Sound, FirstOnes
  <2>2. Sound(t, nth)
    BY <1>2, <2>1 DEF Sound
  <2> QED
    BY <1>1, <1>2, <1>3, <2>2
    DEF FileInv, FileTypes, AtRest, InRebuild, Rebuilding, Tried, Sound, FirstOnes, IsFile
<1>4. CASE skipped' = TRUE /\ UNCHANGED db
  <2>1. Sound(t, nth - 1)'
    BY <1>1, <1>2, <1>4 DEF Sound
  <2> QED
    BY <1>1, <1>2, <1>4, <2>1
    DEF FileInv, FileTypes, AtRest, InRebuild, Rebuilding, Tried, Sound, FirstOnes, IsFile
<1>5. CASE ~Contains(t.columns, c) /\ db' = WithColumn(c) /\ UNCHANGED skipped
  <2>1. IsTable(t) /\ t.columns \in Columns /\ t.rows \in [DOMAIN t.rows -> RowRecords]
        /\ c \in Range(Added)
    BY <1>2, AddedIsASequence DEF Sound, IsTable, Range
  <2> DEFINE rows == [r \in DOMAIN t.rows |-> [t.rows[r] EXCEPT !.values = Append(t.rows[r].values, c)]]
  <2>a. db' = [db EXCEPT !.memories = [t EXCEPT !.columns = Append(t.columns, c), !.rows = rows]]
    BY <1>5 DEF WithColumn, Rows
  <2>b. t' = [t EXCEPT !.columns = Append(t.columns, c), !.rows = rows] /\ IsFile(db')
    <3> HIDE DEF rows
    <3> QED
      BY <1>2, <2>a DEF IsFile
  <2>c. t'.exists
    BY <2>1, <2>b DEF IsTable
  <2>2. /\ IsFile(db') /\ t'.exists
        /\ t' = [t EXCEPT !.columns = Append(t.columns, c), !.rows = rows]
    BY <2>b, <2>c
  <2>3. Append(t.columns, c) \in Columns
        /\ \A r \in DOMAIN t.rows : Append(t.rows[r].values, c) \in Columns
    BY <2>1, AppendProperties DEF Columns, RowRecords
  <2>4. /\ t'.columns = Append(t.columns, c) /\ DOMAIN t'.rows = DOMAIN t.rows
        /\ \A r \in DOMAIN t.rows : t'.rows[r] = [t.rows[r] EXCEPT !.values = Append(t.rows[r].values, c)]
    BY <2>1, <2>2 DEF IsTable
  <2>5. \A r \in DOMAIN t.rows : /\ t'.rows[r] \in RowRecords /\ t'.rows[r].text = t.rows[r].text
                                 /\ t'.rows[r].values = Append(t.rows[r].values, c)
    <3> SUFFICES ASSUME NEW r \in DOMAIN t.rows
                 PROVE  /\ t'.rows[r] \in RowRecords /\ t'.rows[r].text = t.rows[r].text
                        /\ t'.rows[r].values = Append(t.rows[r].values, c)
      OBVIOUS
    <3>1. t.rows[r] \in RowRecords
      BY <2>1
    <3> QED
      BY <2>3, <2>4, <3>1 DEF RowRecords
  <2>6. IsTable(t)'
    <3>1. t'.rows = [r \in DOMAIN t.rows |-> t'.rows[r]]
      BY <2>1, <2>2 DEF IsTable
    <3>2. t'.rows \in [DOMAIN t'.rows -> RowRecords]
      BY <2>4, <2>5, <3>1
    <3>3. t' \in [exists : {TRUE}, columns : Columns, resolved : BOOLEAN, triggers : SUBSET Triggers,
                  rows : {t'.rows}]
      BY <2>1, <2>2, <2>3 DEF IsTable
    <3> QED
      BY <3>2, <3>3 DEF IsTable
  <2>7. ASSUME ~skipped PROVE FirstOnes(t, nth - 1)'
    <3>1. PICK k \in nth - 1 .. Len(Added) : t.columns = SubSeq(Added, 1, k)
      BY <1>2, <2>7 DEF Sound, FirstOnes
    <3>2. k \in 0 .. Len(Added)
      BY <1>2, <3>1, AddedIsASequence
    <3>3. ~(nth <= k)
      BY <1>2, <1>5, <3>1, <3>2, ColumnsThatAreThere
    <3>4. nth = k + 1 /\ k < Len(Added)
      BY <1>1, <1>2, <3>1, <3>2, <3>3, AddedIsASequence
    <3>5. t'.columns = SubSeq(Added, 1, nth)
      BY <2>4, <3>1, <3>2, <3>4, OneMoreColumn
    <3>6. \A r \in DOMAIN t.rows : t.rows[r].values = t.columns
      BY <1>2, <2>7 DEF Sound, FirstOnes
    <3>7. \A r \in DOMAIN t'.rows : t'.rows[r].values = t'.columns
      BY <2>4, <2>5, <3>6
    <3>8. nth' \in nth .. nth + 1 /\ nth \in nth .. Len(Added)
      BY <1>1, <1>2, AddedIsASequence
    <3> QED
      BY <1>1, <1>2, <3>5, <3>7, <3>8 DEF FirstOnes
  <2>8. /\ DOMAIN t'.rows = DOMAIN stored'
        /\ \A r \in DOMAIN stored' : t'.rows[r].text = stored'[r]
    BY <1>1, <1>2, <2>4, <2>5 DEF Sound
  <2> HIDE DEF t, c
  <2>9. skipped' \/ (FirstOnes(t, nth - 1))'
    BY <1>1, <1>2, <1>5, <2>7
  <2>10. Sound(t, nth - 1)'
    BY <2>6, <2>8, <2>9 DEF Sound
  <2> QED
    BY <1>1, <1>2, <1>5, <2>2, <2>10
    DEF FileInv, FileTypes, AtRest, InRebuild, Rebuilding, Tried, t
<1> QED
  BY <1>3, <1>4, <1>5 DEF AddColumn

LEMMA ColumnsTriedKeeps == ASSUME FileInv, ColumnsTried PROVE FileInv'
<1>1. /\ opening = "alter" /\ opening' = "text" /\ nth' = 1
      /\ UNCHANGED <<db, saved, stored, skipped>>
  BY DEF ColumnsTried
<1>2. /\ nth - 1 \in Nat /\ 1 \in 1 .. Len(Added) + 1
      /\ db.memories.exists /\ Sound(db.memories, nth - 1)
  BY <1>1, AddedIsASequence DEF FileInv, FileTypes, AtRest, Rebuilding, Tried
<1>3. Sound(db.memories, 0)
  BY <1>2, FewerTried
<1> QED
  BY <1>1, <1>2, <1>3 DEF FileInv, FileTypes, AtRest, InRebuild, Rebuilding, Tried, Sound, FirstOnes

LEMMA CreateTextIndexKeeps == ASSUME FileInv, CreateTextIndex PROVE FileInv'
<1>1. PICK F \in SUBSET Triggers :
        db' = [db EXCEPT !.memories = [db.memories EXCEPT !.triggers = Triggers \ F]]
  BY DEF CreateTextIndex
<1>2. opening = "text" /\ opening' = "check" /\ UNCHANGED <<saved, nth, stored, skipped>>
  BY DEF CreateTextIndex
<1>3. IsFile(db) /\ db.memories.exists /\ Sound(db.memories, 0)
  BY <1>2 DEF FileInv, FileTypes, AtRest, Rebuilding, Tried
<1>4. IsFile(db') /\ db'.memories = [db.memories EXCEPT !.triggers = Triggers \ F]
  BY <1>1, <1>3 DEF IsFile
<1>5. /\ IsTable(db.memories)' /\ db'.memories.exists
      /\ db'.memories.rows = db.memories.rows /\ db'.memories.columns = db.memories.columns
  BY <1>3, <1>4 DEF Sound, IsTable
<1>6. Sound(db.memories, 0)'
  BY <1>2, <1>3, <1>5 DEF Sound, FirstOnes
<1> QED
  BY <1>2, <1>4, <1>5, <1>6 DEF FileInv, FileTypes, AtRest, InRebuild, Rebuilding, Tried

LEMMA CheckConstraintKeeps == ASSUME FileInv, CheckConstraint PROVE FileInv'
<1>1. /\ opening = "check" /\ UNCHANGED <<db, nth, stored, skipped>>
      /\ \/ opening' = "verify" /\ UNCHANGED saved
         \/ opening' = "rename" /\ saved' = db
  BY DEF CheckConstraint
<1> QED
  BY <1>1 DEF FileInv, FileTypes, AtRest, InRebuild, Rebuilding, Tried, Sound, FirstOnes, IsFile

-----------------------------------------------------------------------------
(* The rebuild. *)

LEMMA RenameTableKeeps == ASSUME FileInv, RenameTable PROVE FileInv'
<1>1. /\ opening = "rename" /\ opening' = "recreate" /\ UNCHANGED <<saved, nth, stored, skipped>>
      /\ db' = [db EXCEPT !.old = db.memories, !.memories = Absent]
  BY DEF RenameTable
<1>2. IsFile(db) /\ db = saved
  BY <1>1 DEF FileInv, FileTypes, InRebuild
<1>3. IsFile(db') /\ db'.old = saved.memories
  BY <1>1, <1>2 DEF IsFile
<1> QED
  BY <1>1, <1>3 DEF FileInv, FileTypes, AtRest, InRebuild, Rebuilding, Sound, FirstOnes, IsFile

LEMMA RecreateTableKeeps == ASSUME FileInv, RecreateTable PROVE FileInv'
<1>1. /\ opening = "recreate" /\ opening' = "copy" /\ UNCHANGED <<saved, nth, stored, skipped>>
      /\ db' = [db EXCEPT !.memories = NewTable(Added)]
  BY DEF RecreateTable
<1>2. IsFile(db) /\ db.old = saved.memories
  BY <1>1 DEF FileInv, FileTypes, InRebuild
<1>3. IsFile(db') /\ db'.old = saved.memories /\ db'.memories = NewTable(Added)
  BY <1>1, <1>2 DEF IsFile
<1> QED
  BY <1>1, <1>3 DEF FileInv, FileTypes, AtRest, InRebuild, Rebuilding, Sound, FirstOnes, IsFile

LEMMA CopyRowsKeeps == ASSUME FileInv, CopyRows PROVE FileInv'
<1>1. /\ opening = "copy" /\ opening' = "drop" /\ UNCHANGED <<saved, nth, stored, skipped>>
      /\ Len(db.old.columns) = Len(db.memories.columns)
      /\ db' = [db EXCEPT !.memories = [db.memories EXCEPT !.rows = db.old.rows]]
  BY DEF CopyRows
<1>2. /\ IsFile(db) /\ db.old = saved.memories /\ db.memories = NewTable(Added)
      /\ Sound(db.old, 0)
  BY <1>1 DEF FileInv, FileTypes, InRebuild, Rebuilding
<1>3. IsFile(db') /\ db'.memories = [db.memories EXCEPT !.rows = db.old.rows]
  BY <1>1, <1>2 DEF IsFile
<1>4. db'.memories = [NewTable(Added) EXCEPT !.rows = db.old.rows]
  BY <1>2, <1>3
<1>5. /\ db'.memories.exists /\ db'.memories.rows = db.old.rows /\ db'.memories.columns = Added
      /\ db'.memories \in [exists : {TRUE}, columns : Columns, resolved : BOOLEAN,
                           triggers : SUBSET Triggers, rows : {db.old.rows}]
      /\ Len(db.old.columns) = Len(Added)
  <2>1. /\ NewTable(Added).columns = Added
        /\ NewTable(Added) \in [exists : {TRUE}, columns : Columns, resolved : BOOLEAN,
                                triggers : SUBSET Triggers, rows : {NewTable(Added).rows}]
    BY NewTableIsSound DEF NewTable, IsTable
  <2> DEFINE t == NewTable(Added)
  <2> HIDE DEF t
  <2>2. /\ t.columns = Added /\ db'.memories = [t EXCEPT !.rows = db.old.rows]
        /\ t \in [exists : {TRUE}, columns : Columns, resolved : BOOLEAN,
                  triggers : SUBSET Triggers, rows : {t.rows}]
        /\ Len(db.old.columns) = Len(t.columns)
    BY <1>1, <1>2, <1>4, <2>1 DEF t
  <2> QED
    BY <2>2
<1>6. IsTable(db.memories)' /\ db'.memories.exists
  BY <1>2, <1>5 DEF Sound, IsTable
<1>7. ASSUME ~skipped PROVE FirstOnes(db.memories, 0)'
  <2>1. PICK k \in 0 .. Len(Added) : db.old.columns = SubSeq(Added, 1, k)
    BY <1>2, <1>7 DEF Sound, FirstOnes
  <2>2. db.old.columns = Added
    BY <1>5, <2>1, AllColumns
  <2> QED
    BY <1>2, <1>5, <1>7, <2>1, <2>2 DEF Sound, FirstOnes
<1>8. Sound(db.memories, 0)'
  BY <1>1, <1>2, <1>5, <1>6, <1>7 DEF Sound
<1>9. IsFile(saved)' /\ saved'.memories.exists /\ Sound(saved.memories, 0)'
  BY <1>1 DEF FileInv, InRebuild, Rebuilding, Sound, FirstOnes, IsFile
<1> QED
  BY <1>1, <1>3, <1>6, <1>8, <1>9 DEF FileInv, FileTypes, AtRest, InRebuild, Rebuilding

LEMMA DropOldKeeps == ASSUME FileInv, DropOld PROVE FileInv'
<1>1. /\ opening = "drop" /\ opening' = "commit" /\ UNCHANGED <<saved, nth, stored, skipped>>
      /\ db' = [db EXCEPT !.old = Absent]
  BY DEF DropOld
<1>2. IsFile(db')  /\ db'.memories = db.memories
  BY <1>1 DEF FileInv, FileTypes, IsFile
<1> QED
  BY <1>1, <1>2 DEF FileInv, FileTypes, AtRest, InRebuild, Rebuilding, Sound, FirstOnes, IsFile

LEMMA CommitKeeps == ASSUME FileInv, Commit PROVE FileInv'
<1>1. /\ opening = "commit" /\ opening' = "verify" /\ UNCHANGED <<db, nth, stored, skipped>>
  BY DEF Commit
<1>2. db.memories.exists /\ Sound(db.memories, 0)
  BY <1>1 DEF FileInv, InRebuild
<1> QED
  BY <1>1, <1>2
  DEF FileInv, FileTypes, AtRest, InRebuild, Rebuilding, Tried, Sound, FirstOnes

(* A rollback or a death brings back a sound table, or the file that has none. *)
LEMMA RollbackIsSound ==
  ASSUME FileInv, db' = RolledBack, UNCHANGED <<stored, skipped>>,
         opening' = "closed" \/ (Rebuilding /\ opening' = "verify"), nth' = 1
  PROVE  FileInv'
<1>1. /\ IsFile(db') /\ 1 \in 1 .. Len(Added) + 1 /\ Tried' = 0 /\ ~Rebuilding'
      /\ skipped' \in BOOLEAN /\ stored' = [r \in DOMAIN stored' |-> stored'[r]]
  BY AddedIsASequence DEF RolledBack, FileInv, FileTypes, InRebuild, Rebuilding, Tried
<1>2. CASE db'.memories.exists /\ Sound(db'.memories, 0)
  BY <1>1, <1>2 DEF FileInv, FileTypes, AtRest, InRebuild, Rebuilding, Sound, FirstOnes
<1>3. CASE Rebuilding
  BY <1>2, <1>3 DEF RolledBack, FileInv, InRebuild
<1>4. CASE ~Rebuilding
  <2>1. CASE db.memories.exists
    <3>1. Tried \in Nat /\ Sound(db.memories, Tried)
      BY <1>4, <2>1, AddedIsASequence DEF FileInv, FileTypes, AtRest, Tried
    <3>2. Sound(db.memories, 0)
      BY <3>1, FewerTried
    <3> QED
      BY <1>2, <1>4, <2>1, <3>2 DEF RolledBack
  <2>2. CASE ~db.memories.exists
    BY <1>1, <1>4, <2>2
    DEF RolledBack, FileInv, FileTypes, AtRest, InRebuild, Rebuilding
  <2> QED
    BY <2>1, <2>2
<1> QED
  BY <1>3, <1>4

LEMMA RebuildFailsKeeps == ASSUME FileInv, RebuildFails PROVE FileInv'
BY RollbackIsSound DEF RebuildFails, Rebuilding, FileInv, FileTypes

LEMMA StopsOrDiesKeeps == ASSUME FileInv, StopsOrDies PROVE FileInv'
BY RollbackIsSound DEF StopsOrDies

LEMMA VerifyKeeps == ASSUME FileInv, Verify PROVE FileInv'
<1>1. /\ opening = "verify" /\ UNCHANGED <<db, saved, nth, stored, skipped>>
      /\ opening' \in {"running", "closed"}
  BY DEF Verify
<1> QED
  BY <1>1 DEF FileInv, FileTypes, AtRest, InRebuild, Rebuilding, Tried, Sound, FirstOnes

-----------------------------------------------------------------------------
(* The store at work. *)

(* A write of one row: what it leaves alone, and what the table is afterwards. *)
RowsPut(rows, words) ==
  [db EXCEPT !.memories = [db.memories EXCEPT !.rows = rows], !.words = words]
IsMap(f) == f = [x \in DOMAIN f |-> f[x]]

LEMMA RowWritten ==
  ASSUME FileInv, opening = "running", UNCHANGED <<opening, nth, skipped>>,
         NEW rows, NEW words, NEW kept,
         db' = RowsPut(rows, words), stored' = kept, IsMap(kept),
         rows \in [DOMAIN rows -> RowRecords], DOMAIN rows = DOMAIN kept,
         \A r \in DOMAIN rows :
           rows[r].text = kept[r] /\ (skipped \/ rows[r].values = db.memories.columns)
  PROVE  FileInv'
<1>1. IsFile(db) /\ db.memories.exists /\ Sound(db.memories, 0)
  BY DEF FileInv, FileTypes, AtRest, Rebuilding, Tried
<1>2. IsFile(db') /\ db'.memories = [db.memories EXCEPT !.rows = rows]
  BY <1>1 DEF IsFile, RowsPut
<1>a. /\ db'.memories.exists /\ db'.memories.rows = rows
      /\ db'.memories.columns = db.memories.columns
      /\ db'.memories \in [exists : {TRUE}, columns : Columns, resolved : BOOLEAN,
                           triggers : SUBSET Triggers, rows : {rows}]
  BY <1>1, <1>2 DEF Sound, IsTable
<1>3. /\ IsTable(db.memories)' /\ db'.memories.exists
      /\ db'.memories.rows = rows /\ db'.memories.columns = db.memories.columns
  <2>1. rows \in [DOMAIN db'.memories.rows -> RowRecords]
    BY <1>a
  <2>2. IsTable(db'.memories)
    BY <1>a, <2>1 DEF IsTable
  <2> QED
    BY <1>a, <2>2 DEF IsTable
<1>4. Sound(db.memories, 0)'
  BY <1>1, <1>3 DEF Sound, FirstOnes
<1> QED
  BY <1>2, <1>3, <1>4
  DEF FileInv, FileTypes, AtRest, InRebuild, Rebuilding, Tried, IsMap

LEMMA RunningIsSound ==
  ASSUME FileInv, opening = "running"
  PROVE  /\ Rows \in [DOMAIN Rows -> RowRecords] /\ DOMAIN Rows = DOMAIN stored
         /\ db.memories.columns \in Columns
         /\ stored = [r \in DOMAIN stored |-> stored[r]]
         /\ \A r \in DOMAIN Rows : Rows[r].text = stored[r]
         /\ \A r \in DOMAIN Rows : skipped \/ Rows[r].values = db.memories.columns
BY DEF FileInv, FileTypes, AtRest, Rebuilding, Tried, Sound, FirstOnes, IsTable, Rows

LEMMA StoreRowKeeps ==
  ASSUME FileInv, NEW r \in NewRows, NEW text \in Texts, StoreRow(r, text)
  PROVE  FileInv'
<1> DEFINE row  == [text |-> text, values |-> db.memories.columns]
<1> DEFINE rows == With(Rows, r, row)
<1> DEFINE kept == With(stored, r, text)
<1>1. opening = "running" /\ UNCHANGED <<opening, nth, skipped>> /\ stored' = kept
  BY DEF StoreRow
<1>2. PICK words : db' = RowsPut(rows, words)
  BY DEF StoreRow, Rows, RowsPut
<1>3. row \in RowRecords
  BY <1>1, RunningIsSound DEF RowRecords
<1>4. rows \in [DOMAIN rows -> RowRecords] /\ DOMAIN rows = DOMAIN kept
      /\ IsMap(kept)
  BY <1>1, <1>3, RunningIsSound DEF With, IsMap
<1>5. \A x \in DOMAIN rows :
        rows[x].text = kept[x] /\ (skipped \/ rows[x].values = db.memories.columns)
  BY <1>1, RunningIsSound DEF With
<1> HIDE DEF rows, kept
<1> QED
  BY <1>1, <1>2, <1>4, <1>5, RowWritten

LEMMA EditRowKeeps ==
  ASSUME FileInv, NEW r, NEW text \in Texts, EditRow(r, text)
  PROVE  FileInv'
<1> DEFINE rows == [Rows EXCEPT ![r] = [Rows[r] EXCEPT !.text = text]]
<1> DEFINE kept == With(stored, r, text)
<1>1. opening = "running" /\ UNCHANGED <<opening, nth, skipped>> /\ stored' = kept
      /\ r \in DOMAIN Rows
  BY DEF EditRow
<1>2. PICK words : db' = RowsPut(rows, words)
  BY DEF EditRow, Rows, RowsPut
<1>3. Rows[r] \in RowRecords
  BY <1>1, RunningIsSound
<1>4. /\ [Rows[r] EXCEPT !.text = text] \in RowRecords
      /\ [Rows[r] EXCEPT !.text = text].text = text
      /\ [Rows[r] EXCEPT !.text = text].values = Rows[r].values
  BY <1>3 DEF RowRecords
<1>5. rows \in [DOMAIN rows -> RowRecords] /\ DOMAIN rows = DOMAIN kept
      /\ IsMap(kept)
  BY <1>1, <1>4, RunningIsSound DEF With, IsMap
<1>6. \A x \in DOMAIN rows :
        rows[x].text = kept[x] /\ (skipped \/ rows[x].values = db.memories.columns)
  BY <1>1, <1>4, RunningIsSound DEF With
<1> HIDE DEF rows, kept
<1> QED
  BY <1>1, <1>2, <1>5, <1>6, RowWritten

LEMMA DeleteRowKeeps == ASSUME FileInv, NEW r, DeleteRow(r) PROVE FileInv'
<1> DEFINE rows == Without(Rows, r)
<1> DEFINE kept == Without(stored, r)
<1>1. opening = "running" /\ UNCHANGED <<opening, nth, skipped>> /\ stored' = kept
  BY DEF DeleteRow
<1>2. PICK words : db' = RowsPut(rows, words)
  BY DEF DeleteRow, Rows, RowsPut
<1>3. rows \in [DOMAIN rows -> RowRecords] /\ DOMAIN rows = DOMAIN kept
      /\ IsMap(kept)
  BY <1>1, RunningIsSound DEF Without, IsMap
<1>4. \A x \in DOMAIN rows :
        rows[x].text = kept[x] /\ (skipped \/ rows[x].values = db.memories.columns)
  BY <1>1, RunningIsSound DEF Without
<1> HIDE DEF rows, kept
<1> QED
  BY <1>1, <1>2, <1>3, <1>4, RowWritten

(* However often statements of migrate fail and the process dies on the way, a store that
   has opened has every memory that was stored and not deleted, as it was, and its values
   in place while no column was skipped: for any columns, memories and texts. *)
THEOREM OpenedFilesAreWhole == MigrationSpec => []MigrationLosesNothing
<1>1. MigrationInit => FileInv
  BY FilesStart, MigrationAssumption
<1>2. FileInv /\ [MigrationNext]_migrationVars => FileInv'
  <2> SUFFICES ASSUME FileInv, [MigrationNext]_migrationVars PROVE FileInv'
    OBVIOUS
  <2>1. CASE \/ Opens \/ CreateTables \/ AddColumn \/ ColumnsTried \/ CreateTextIndex
             \/ CheckConstraint
    BY <2>1, OpensKeeps, CreateTablesKeeps, AddColumnKeeps, ColumnsTriedKeeps,
       CreateTextIndexKeeps, CheckConstraintKeeps
  <2>2. CASE \/ RenameTable \/ RecreateTable \/ CopyRows \/ DropOld \/ Commit \/ RebuildFails
             \/ Verify \/ StopsOrDies
    BY <2>2, RenameTableKeeps, RecreateTableKeeps, CopyRowsKeeps, DropOldKeeps, CommitKeeps,
       RebuildFailsKeeps, VerifyKeeps, StopsOrDiesKeeps
  <2>3. CASE \E r \in OldRows \cup NewRows :
               \/ \E text \in Texts : (r \in NewRows /\ StoreRow(r, text)) \/ EditRow(r, text)
               \/ DeleteRow(r)
    BY <2>3, StoreRowKeeps, EditRowKeeps, DeleteRowKeeps
  <2>4. CASE UNCHANGED migrationVars
    BY <2>4 DEF migrationVars, FileInv, FileTypes, AtRest, InRebuild, Rebuilding, Tried,
                Sound, FirstOnes
  <2> QED
    BY <2>1, <2>2, <2>3, <2>4 DEF MigrationNext
<1>3. FileInv => MigrationLosesNothing
  <2> SUFFICES ASSUME FileInv, opening = "running"
               PROVE  /\ [r \in DOMAIN Rows |-> Rows[r].text] = stored
                      /\ skipped \/ ValuesAreInPlace
    BY DEF MigrationLosesNothing
  <2> QED
    BY RunningIsSound DEF ValuesAreInPlace
<1> QED
  BY <1>1, <1>2, <1>3, PTL DEF MigrationSpec

-----------------------------------------------------------------------------
(* Archival and purge.  Of the rows that a job holds, those that nobody has written
   since are what they were when it read them; the other job's writes are told like
   everybody's. *)
RetentionInv == RetentionTypeOK /\ PagesAreCurrent

(* A step that writes the rows of R, of which both jobs are told. *)
LEMMA PagesStayCurrent ==
  ASSUME PagesAreCurrent, NEW R,
         \A i \in Ids \ R : state'[i] = state[i],
         aged \ R \subseteq aged', expired \ R \subseteq expired',
         archPage \subseteq Ids, purgePage \subseteq Ids,
         archPage' \ archDirty' \subseteq (archPage \ archDirty) \ R,
         purgePage' \ purgeDirty' \subseteq (purgePage \ purgeDirty) \ R
  PROVE  PagesAreCurrent'
BY DEF PagesAreCurrent, DueForArchival, DueForPurge

LEMMA ArchiveRowsKeeps ==
  ASSUME RetentionInv, NEW commits \in BOOLEAN, ArchiveRows(commits), disturbances' \in 0 .. MaxDisturbances
  PROVE  /\ RetentionInv' /\ [StoreNext]_storeVars
         /\ \A i \in Ids : state'[i] # state[i] => i \in archPage /\ state'[i] = "archived"
<1>1. archPage \in SUBSET Ids /\ StoreTypeOK
  BY DEF RetentionInv, RetentionTypeOK
<1>2. BatchWrite
  <2>1. [i \in archPage |-> "archived"] \in [archPage -> {"active", "stale", "archived", "deleted"}]
    OBVIOUS
  <2> QED
    BY <1>1, <2>1 DEF ArchiveRows, BatchWrite
<1>3. StoreTypeOK'
  BY <1>1, <1>2, StoreTypeStep DEF StoreNext
<1>4. stamped' = stamped
  BY DEF ArchiveRows, BatchTransitionStates
<1>5. RetentionTypeOK'
  BY <1>1, <1>3, <1>4 DEF RetentionInv, RetentionTypeOK, ArchiveRows
<1>6. \A i \in Ids : state'[i] = IF commits /\ i \in archPage /\ Present(i) THEN "archived" ELSE state[i]
  BY <1>1 DEF ArchiveRows, BatchTransitionStates, StoreTypeOK
<1>7. PagesAreCurrent'
  <2> DEFINE R == IF commits THEN archPage ELSE {}
  <2>1. \A i \in Ids \ R : state'[i] = state[i]
    BY <1>6
  <2>2. aged \ R \subseteq aged' /\ expired \ R \subseteq expired'
    BY DEF ArchiveRows
  <2>3. archPage' = {} /\ purgePage' \ purgeDirty' \subseteq (purgePage \ purgeDirty) \ R
    BY DEF ArchiveRows
  <2> HIDE DEF R
  <2> QED
    BY <2>1, <2>2, <2>3, PagesStayCurrent DEF RetentionInv, RetentionTypeOK
<1> QED
  BY <1>2, <1>5, <1>6, <1>7 DEF RetentionInv, StoreNext

LEMMA QueryStaleKeeps ==
  ASSUME RetentionInv, NEW e, NEW page \in SUBSET Ids, QueryStale(e, page),
         page = {} \/ StalePage(e, page), disturbances' \in 0 .. MaxDisturbances
  PROVE  RetentionInv' /\ UNCHANGED storeVars
<1>1. UNCHANGED storeVars /\ UNCHANGED <<aged, expired, purgeVars>>
  BY DEF QueryStale
<1>2. RetentionTypeOK'
  BY <1>1 DEF RetentionInv, RetentionTypeOK, QueryStale, StoreTypeOK, storeVars, purgeVars
<1>3. \A i \in page : state[i] = "stale"
  BY DEF StalePage, IsPage, RowsOf
<1>4. PagesAreCurrent'
  BY <1>1, <1>3 DEF RetentionInv, PagesAreCurrent, DueForArchival, DueForPurge, QueryStale, storeVars, purgeVars
<1> QED
  BY <1>1, <1>2, <1>4 DEF RetentionInv

LEMMA QueryDeletedKeeps ==
  ASSUME RetentionInv, NEW e, NEW page \in SUBSET Ids, QueryDeleted(e, page),
         page = {} \/ DeletedPage(e, page), disturbances' \in 0 .. MaxDisturbances
  PROVE  RetentionInv' /\ UNCHANGED storeVars
<1>1. UNCHANGED storeVars /\ UNCHANGED <<aged, expired, archVars>>
  BY DEF QueryDeleted
<1>2. RetentionTypeOK'
  BY <1>1 DEF RetentionInv, RetentionTypeOK, QueryDeleted, StoreTypeOK, storeVars, archVars
<1>3. \A i \in page : state[i] = "deleted"
  BY DEF DeletedPage, IsPage, RowsOf
<1>4. PagesAreCurrent'
  BY <1>1, <1>3 DEF RetentionInv, PagesAreCurrent, DueForArchival, DueForPurge, QueryDeleted, storeVars, archVars
<1> QED
  BY <1>1, <1>2, <1>4 DEF RetentionInv

LEMMA PurgeRowKeeps ==
  ASSUME RetentionInv, NEW i \in purgePage, NEW succeeds \in BOOLEAN, PurgeRow(i, succeeds),
         disturbances' \in 0 .. MaxDisturbances
  PROVE  /\ RetentionInv' /\ [StoreNext]_storeVars
         /\ \A j \in Ids : state'[j] # state[j] => j = i
<1>1. i \in Ids /\ StoreTypeOK
  BY DEF RetentionInv, RetentionTypeOK
<1>2. [StoreNext]_storeVars
  BY <1>1 DEF PurgeRow, Write, StoreNext
<1>3. StoreTypeOK'
  BY <1>1, <1>2, StoreTypeStep
<1>4. RetentionTypeOK'
  <2>1. expired' \subseteq stamped'
    BY DEF RetentionInv, RetentionTypeOK, PurgeRow, HardDelete, storeVars
  <2> QED
    BY <1>3, <2>1 DEF RetentionInv, RetentionTypeOK, PurgeRow
<1>5. \A j \in Ids : state'[j] # state[j] => j = i /\ succeeds
  BY <1>1 DEF PurgeRow, HardDelete, StoreTypeOK, storeVars
<1>6. PagesAreCurrent'
  <2> DEFINE R == IF succeeds THEN {i} ELSE {}
  <2>1. \A j \in Ids \ R : state'[j] = state[j]
    BY <1>5
  <2>2. aged \ R \subseteq aged' /\ expired \ R \subseteq expired'
    BY DEF PurgeRow
  <2>3. /\ archPage' \ archDirty' \subseteq (archPage \ archDirty) \ R
        /\ purgePage' \ purgeDirty' \subseteq (purgePage \ purgeDirty) \ R
    BY DEF PurgeRow
  <2> HIDE DEF R
  <2> QED
    BY <2>1, <2>2, <2>3, PagesStayCurrent DEF RetentionInv, RetentionTypeOK
<1> QED
  BY <1>2, <1>4, <1>5, <1>6 DEF RetentionInv

(* What the others write, none of which takes a row out of the database. *)
LEMMA OthersKeep ==
  ASSUME RetentionInv, NEW i \in Ids, NEW s \in {"stale", "archived", "deleted"},
         Create(i) \/ Delete(i) \/ ChangeState(i) \/ Decay(i, s)
  PROVE  /\ RetentionInv' /\ [StoreNext]_storeVars
         /\ \A j \in Ids : Present(j) => state'[j] # "gone"
<1>1. StoreTypeOK /\ OtherWrite(i)
  BY DEF RetentionInv, RetentionTypeOK, Create, Delete, ChangeState, Decay
<1>2. /\ [StoreNext]_storeVars
      /\ \A j \in Ids : state'[j] = state[j] \/ (j = i /\ state'[j] \in RowStates)
      /\ expired' \subseteq stamped' /\ expired \ {i} \subseteq expired'
  <2>1. CASE Create(i)
    BY <1>1, <2>1 DEF Create, CreateMemory, StoreNext, Write, RetentionInv, RetentionTypeOK, StoreTypeOK,
                      RowStates, LiveStates
  <2>2. CASE Delete(i)
    BY <1>1, <2>2 DEF Delete, SoftDelete, StoreNext, Write, RetentionInv, RetentionTypeOK, StoreTypeOK,
                      RowStates, LiveStates
  <2>3. CASE ChangeState(i)
    BY <1>1, <2>3 DEF ChangeState, ResolveMemory, UpdateMemoryState, StoreNext, Write, RetentionInv,
                      RetentionTypeOK, StoreTypeOK, RowStates, LiveStates
  <2>4. CASE Decay(i, s)
    <3>1. [StoreNext]_storeVars
      BY <1>1, <2>4, WritesAreTheStores DEF Decay
    <3>2. \A j \in Ids : state'[j] = IF j = i /\ Present(j) THEN s ELSE state[j]
      BY <2>4 DEF Decay, BatchTransitionStates
    <3>3. stamped' = stamped /\ expired' = expired
      BY <2>4 DEF Decay, BatchTransitionStates
    <3> QED
      BY <3>1, <3>2, <3>3 DEF RetentionInv, RetentionTypeOK, RowStates, LiveStates
  <2> QED
    BY <2>1, <2>2, <2>3, <2>4
<1>3. StoreTypeOK'
  BY <1>1, <1>2, StoreTypeStep
<1>4. RetentionTypeOK'
  <2>1. disturbances' \in 0 .. MaxDisturbances
    BY <1>1, RetentionAssumption DEF OtherWrite, Disturb, RetentionInv, RetentionTypeOK
  <2> QED
    BY <1>1, <1>2, <1>3, <2>1 DEF OtherWrite, Rewrite, RetentionInv, RetentionTypeOK
<1>5. PagesAreCurrent'
  <2>1. \A j \in Ids \ {i} : state'[j] = state[j]
    BY <1>2
  <2>2. /\ aged \ {i} \subseteq aged'
        /\ archPage' \ archDirty' \subseteq (archPage \ archDirty) \ {i}
        /\ purgePage' \ purgeDirty' \subseteq (purgePage \ purgeDirty) \ {i}
    BY <1>1 DEF OtherWrite, Rewrite
  <2> QED
    BY <1>2, <2>1, <2>2, PagesStayCurrent DEF RetentionInv, RetentionTypeOK
<1> QED
  BY <1>2, <1>4, <1>5 DEF RetentionInv, RowStates, LiveStates, Present

LEMMA RetentionKeeps ==
  ASSUME RetentionInv, [RetentionNext]_retentionVars
  PROVE  /\ RetentionInv' /\ [StoreNext]_storeVars
         /\ arch = "apply" /\ arch' = "query" =>
              \A i \in Ids : state'[i] # state[i] => i \in archPage
         /\ \A i \in Ids : Present(i) /\ state'[i] = "gone" => i \in purgePage
<1> DEFINE Goal == /\ RetentionInv' /\ [StoreNext]_storeVars
                   /\ arch = "apply" /\ arch' = "query" =>
                        \A i \in Ids : state'[i] # state[i] => i \in archPage
                   /\ \A i \in Ids : Present(i) /\ state'[i] = "gone" => i \in purgePage
<1>1. ASSUME RetentionInv', UNCHANGED storeVars PROVE Goal
  BY <1>1 DEF storeVars, Present, RowStates, LiveStates
<1>2. disturbances \in 0 .. MaxDisturbances /\ AllEntities \subseteq Entities
  BY RetentionAssumption DEF RetentionInv, RetentionTypeOK, AllEntities
<1>3. ASSUME Disturb PROVE disturbances' \in 0 .. MaxDisturbances
  BY <1>2, <1>3, RetentionAssumption DEF Disturb
<1>4. ASSUME NEW e, NEW page \in SUBSET Ids, disturbances' \in 0 .. MaxDisturbances,
             \/ QueryStale(e, page) /\ (page = {} \/ StalePage(e, page))
             \/ QueryDeleted(e, page) /\ (page = {} \/ DeletedPage(e, page))
      PROVE  Goal
  BY <1>1, <1>4, QueryStaleKeeps, QueryDeletedKeeps
<1>5. ASSUME NEW commits \in BOOLEAN, ArchiveRows(commits), disturbances' \in 0 .. MaxDisturbances PROVE Goal
  BY <1>5, ArchiveRowsKeeps DEF Present, RowStates, LiveStates
<1>6. ASSUME NEW i \in purgePage, NEW succeeds \in BOOLEAN, PurgeRow(i, succeeds),
             disturbances' \in 0 .. MaxDisturbances
      PROVE  Goal
  <2>1. arch' = arch
    BY <1>6 DEF PurgeRow
  <2>2. \A j \in Ids : Present(j) /\ state'[j] = "gone" => state'[j] # state[j]
    BY DEF Present, RowStates, LiveStates
  <2> QED
    BY <1>6, <2>1, <2>2, PurgeRowKeeps
<1>7. ASSUME NEW i \in Ids, NEW s \in {"stale", "archived", "deleted"},
             Create(i) \/ Delete(i) \/ ChangeState(i) \/ Decay(i, s)
      PROVE  Goal
  <2>1. arch' = arch
    BY <1>7 DEF Create, Delete, ChangeState, Decay, OtherWrite
  <2> QED
    BY <1>7, <2>1, OthersKeep
<1>8. ASSUME StartArchival \/ EndArchival \/ StartPurge \/ EndPurge \/ UNCHANGED retentionVars PROVE Goal
  <2>1. UNCHANGED <<storeVars, aged, expired, archPage, archDirty, purgePage, purgeDirty, disturbances>>
    BY <1>8 DEF StartArchival, EndArchival, StartPurge, EndPurge, retentionVars, archVars, purgeVars
  <2>2. /\ arch' \in {"idle", "query", "apply"} /\ purge' \in {"idle", "query", "delete"}
        /\ archLeft' \subseteq Entities /\ purgeLeft' \subseteq Entities
    BY <1>2, <1>8 DEF StartArchival, EndArchival, StartPurge, EndPurge, retentionVars, archVars, purgeVars,
                      RetentionInv, RetentionTypeOK
  <2>3. RetentionInv'
    BY <2>1, <2>2 DEF RetentionInv, RetentionTypeOK, PagesAreCurrent, DueForArchival, DueForPurge,
        StoreTypeOK, storeVars
  <2> QED
    BY <1>1, <2>1, <2>3
<1>9. ASSUME NEW i \in Ids, GrowOld(i) \/ Expire(i) PROVE Goal
  <2>1. /\ UNCHANGED <<storeVars, archVars, purgeVars, disturbances>>
        /\ aged \subseteq aged' /\ aged' \subseteq Ids /\ expired \subseteq expired' /\ expired' \subseteq stamped
    BY <1>9 DEF GrowOld, Expire, RetentionInv, RetentionTypeOK
  <2>2. RetentionInv'
    BY <2>1 DEF RetentionInv, RetentionTypeOK, PagesAreCurrent, DueForArchival, DueForPurge,
        StoreTypeOK, storeVars, archVars, purgeVars
  <2> QED
    BY <1>1, <2>1, <2>2
<1>10. {} \in SUBSET Ids
  OBVIOUS
<1> HIDE DEF Goal
<1>11. ASSUME ArchivalGoesOn \/ PurgeGoesOn PROVE Goal
  BY <1>2, <1>4, <1>5, <1>6, <1>8, <1>11 DEF ArchivalGoesOn, PurgeGoesOn
<1>12. ASSUME StatementFails PROVE Goal
  BY <1>3, <1>4, <1>5, <1>6, <1>10, <1>12 DEF StatementFails
<1>13. ASSUME ApiWrites \/ Decays \/ TimePasses PROVE Goal
  BY <1>7, <1>9, <1>13 DEF ApiWrites, Decays, TimePasses
<1>14. Goal
  BY <1>8, <1>11, <1>12, <1>13 DEF RetentionNext
<1> QED
  BY <1>14 DEF Goal

LEMMA RetentionInvHolds == RetentionSpec => []RetentionInv
<1>1. ASSUME RetentionInit PROVE RetentionInv
  <2>1. StoreTypeOK
    BY <1>1 DEF RetentionInit, StoreInit, StoreTypeOK
  <2>2. RetentionTypeOK
    BY <1>1, <2>1, RetentionAssumption DEF RetentionInit, RetentionTypeOK
  <2> QED
    BY <1>1, <2>2 DEF RetentionInit, RetentionInv, PagesAreCurrent
<1> QED
  BY <1>1, RetentionKeeps, PTL DEF RetentionSpec

(* What either job holds, and nobody has written since, is what it read
   (archival_processor.go, purge_processor.go: between a page's query and its writes). *)
THEOREM JobPagesAreCurrent == RetentionSpec => []PagesAreCurrent
<1>1. RetentionInv => PagesAreCurrent
  BY DEF RetentionInv
<1> QED
  BY <1>1, RetentionInvHolds, PTL

(* Only the query of a job adds to its page, and only rows that are due. *)
LEMMA PagesAreDue ==
  ASSUME [RetentionNext]_retentionVars
  PROVE  /\ \A i \in archPage' \ archPage : DueForArchival(i)
         /\ \A i \in purgePage' \ purgePage : DueForPurge(i)
<1> DEFINE Goal == /\ \A i \in archPage' \ archPage : DueForArchival(i)
                   /\ \A i \in purgePage' \ purgePage : DueForPurge(i)
<1>1. ASSUME NEW e, NEW page, QueryStale(e, page), page = {} \/ StalePage(e, page) PROVE Goal
  <2>1. \A i \in page : state[i] = "stale"
    BY <1>1 DEF StalePage, IsPage, RowsOf
  <2>2. archPage' = page \cap aged /\ purgePage' = purgePage
    BY <1>1 DEF QueryStale, purgeVars
  <2> QED
    BY <2>1, <2>2 DEF DueForArchival
<1>2. ASSUME NEW e, NEW page, QueryDeleted(e, page), page = {} \/ DeletedPage(e, page) PROVE Goal
  <2>1. \A i \in page : state[i] = "deleted"
    BY <1>2 DEF DeletedPage, IsPage, RowsOf
  <2>2. purgePage' = page \cap expired /\ archPage' = archPage
    BY <1>2 DEF QueryDeleted, archVars
  <2> QED
    BY <2>1, <2>2 DEF DueForPurge
<1>3. ASSUME archPage' \subseteq archPage, purgePage' \subseteq purgePage PROVE Goal
  BY <1>3
<1>4. ASSUME NEW commits \in BOOLEAN, ArchiveRows(commits) PROVE Goal
  BY <1>3, <1>4 DEF ArchiveRows
<1>5. ASSUME NEW i, NEW succeeds \in BOOLEAN, PurgeRow(i, succeeds) PROVE Goal
  BY <1>3, <1>5 DEF PurgeRow
<1>6. ASSUME StartArchival \/ EndArchival \/ StartPurge \/ EndPurge \/ UNCHANGED retentionVars PROVE Goal
  BY <1>3, <1>6 DEF StartArchival, EndArchival, StartPurge, EndPurge, retentionVars, archVars, purgeVars
<1>7. ASSUME ApiWrites \/ Decays \/ TimePasses PROVE Goal
  <2>1. UNCHANGED <<archPage, purgePage>>
    BY <1>7 DEF ApiWrites, Decays, TimePasses, Create, Delete, ChangeState, Decay, OtherWrite, GrowOld, Expire,
                archVars, purgeVars
  <2> QED
    BY <1>3, <2>1
<1> HIDE DEF Goal
<1>8. ASSUME ArchivalGoesOn \/ PurgeGoesOn \/ StatementFails PROVE Goal
  BY <1>1, <1>2, <1>4, <1>5, <1>6, <1>8 DEF ArchivalGoesOn, PurgeGoesOn, StatementFails
<1>9. Goal
  BY <1>6, <1>7, <1>8 DEF RetentionNext
<1> QED
  BY <1>9 DEF Goal

(* Archival and purge read rows that are due, and take no others: stale rows past the
   cutoff and deleted ones past the retention, which they still are when they are taken,
   unless somebody else has written them since the page was read. *)
THEOREM JobsTakeTheDue == RetentionSpec => JobsTakeWhatIsDue
<1>1. RetentionInv /\ [RetentionNext]_retentionVars =>
        [/\ \A i \in archPage' \ archPage : DueForArchival(i)
         /\ \A i \in purgePage' \ purgePage : DueForPurge(i)
         /\ arch = "apply" /\ arch' = "query" =>
              \A i \in Ids : state'[i] # state[i] => i \in archDirty \/ (i \in archPage /\ DueForArchival(i))
         /\ \A i \in Ids : Present(i) /\ state'[i] = "gone" =>
              i \in purgeDirty \/ (i \in purgePage /\ DueForPurge(i))]_retentionVars
  BY RetentionKeeps, PagesAreDue DEF RetentionInv, PagesAreCurrent
<1> QED
  BY <1>1, RetentionInvHolds, PTL DEF RetentionSpec, JobsTakeWhatIsDue

(* Both jobs, the requests and the decay beside them only do what the store offers. *)
THEOREM RetentionImplementsStore == RetentionSpec => StoreSpec
<1>1. RetentionInit => StoreInit
  BY DEF RetentionInit
<1>2. RetentionInv /\ [RetentionNext]_retentionVars => [StoreNext]_storeVars
  BY RetentionKeeps
<1> QED
  BY <1>1, <1>2, RetentionInvHolds, PTL DEF RetentionSpec, StoreSpec
====
