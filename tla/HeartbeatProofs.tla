---------------------------- MODULE HeartbeatProofs ----------------------------
(***************************************************************************)
(* Heartbeat checks, for any signals, any number of checkers, any hours,   *)
(* autonomies and users: how far apart acts are, what they repeat, and how *)
(* many nudges a day has.                                                  *)
(*                                                                         *)
(* A check reads the records first and writes its own after.  What it may  *)
(* rely on in between (CheckInv) holds because a check that acts tells the *)
(* others, in the histories overlap and missed; that the records tell the  *)
(* truth, as long as they can be written (LastIsKnown, SurfacedIsKnown),   *)
(* is what it relied on when it read them.                                 *)
(***************************************************************************)
EXTENDS Heartbeat, SequenceTheorems, FiniteSetTheorems, TLAPS

CheckRecords ==
  {Waiting} \cup
  [pc : {"decide", "note", "topics", "nudge", "record", "surface"}, view : Views, fresh : Views,
   critical : BOOLEAN, verdict : {"none", "topics", "nudge", "act_deadline_critical", "act"},
   unread : SUBSET {"pending_work", "last"}, overlap : BOOLEAN, missed : Views]

(* The records and their histories. *)
RecordTypes ==
  /\ surfaced \in [Signals -> Ages(SurfaceFor)] /\ raised \in [Signals -> Ages(SurfaceFor)]
  /\ last \in [print : Views \cup {NoPrint}, age : Ages(Forever), nudge : BOOLEAN]
  /\ acted \in [Views \X BOOLEAN -> Ages(TopicWindow)]
  /\ noted \in [Views -> Ages(2 * TopicWindow)]
  /\ spoke \in Ages(Forever)
  /\ lost \subseteq {"act", "suppression", "surfaced"} /\ events \in 0 .. MaxEvents

SignalTypes ==
  /\ fresh \subseteq present /\ critical \subseteq present /\ present \subseteq Signals
  /\ silence \in Ages(LongSilence)

(* The latest nudge comes first. *)
NudgeTypes ==
  /\ nudged \in Seq(0 .. Day - 1)
  /\ \A k, l \in DOMAIN nudged : k <= l => nudged[k] <= nudged[l]

CheckTypes == check \in [Checkers -> CheckRecords]

(* Who is about to record a nudge has seen that the day has room for one. *)
Nudging == {c \in Checkers : check[c].pc = "record" /\ check[c].verdict = "nudge"}
NudgeRoom ==
  NudgesPerDay > 0 => Len(nudged) + Cardinality(Nudging) <= NudgesPerDay + Cardinality(Checkers) - 1

(* The records tell the truth while they can be written. *)
LastIsKnown == "act" \notin lost => last.age = spoke
SurfacedIsKnown ==
  "surfaced" \notin lost =>
    \A s \in Signals : Kind[s] = "pending_work" =>
      surfaced[s] <= raised[s] \/ \E d \in Checkers : check[d].pc = "surface" /\ s \in check[d].view

(* What a check may rely on. *)
CooledSince(r) ==
  r.pc \in {"topics", "record"} /\ r.verdict = "topics" /\ ~ r.overlap /\ "last" \notin r.unread /\ "act" \notin lost
    => CooledDown(spoke)
QuietSince(r) ==
  /\ r.pc \in {"decide", "topics", "nudge", "record"}
  /\ "pending_work" \notin r.unread /\ "surfaced" \notin lost
  => \A s \in r.view \ r.missed : Kind[s] = "pending_work" => raised[s] >= SurfaceFor
CheckInv(r) ==
  /\ r.pc = "topics" => r.verdict = "topics"
  /\ r.pc = "nudge" => r.verdict = "nudge"
  /\ CooledSince(r) /\ QuietSince(r)

HeartbeatInv ==
  /\ RecordTypes /\ SignalTypes /\ NudgeTypes /\ CheckTypes
  /\ NudgeRoom /\ LastIsKnown /\ SurfacedIsKnown
  /\ \A c \in Checkers : CheckInv(check[c])

-----------------------------------------------------------------------------
(* Ages. *)

LEMMA OlderIs ==
  ASSUME NEW bound \in Nat, NEW age \in Ages(bound)
  PROVE  Older(age, bound) \in Ages(bound) /\ Older(age, bound) >= age
BY DEF Older, Ages

LEMMA OlderInOrder ==
  ASSUME NEW bound \in Nat, NEW a \in Ages(bound), NEW b \in Ages(bound), a <= b
  PROVE  Older(a, bound) <= Older(b, bound)
BY DEF Older, Ages

LEMMA LongSilenceIs == LongSilence \in Nat
<1>1. NudgeAfter \in Nat
  BY HeartbeatAssumption
<1>2. \E x \in {NudgeAfter, 1} : \A y \in {NudgeAfter, 1} : x >= y
  BY <1>1
<1> QED
  BY <1>1, <1>2 DEF LongSilence, Max

LEMMA LeastOf ==
  ASSUME NEW S \in SUBSET Nat, S # {}
  PROVE  \E i \in S : \A j \in S : i <= j
<1>1. PICK i \in S : \A j \in S : ~ (<<j, i>> \in OpToRel(<, Nat))
  BY NatLessThanWellFounded, WFMin
<1>2. ASSUME NEW j \in S, j < i PROVE FALSE
  <2>1. <<j, i>> \in Nat \X Nat /\ <<j, i>>[1] < <<j, i>>[2]
    BY <1>2
  <2>2. <<j, i>> \in OpToRel(<, Nat)
    BY <2>1 DEF OpToRel
  <2> QED
    BY <1>1, <2>2
<1> QED
  BY <1>2

(* A set of numbers from 1 up, with all that are smaller than one of it. *)
LEMMA FirstOnes ==
  ASSUME NEW n \in Nat, NEW K \in SUBSET (1 .. n), \A l \in K : \A k \in 1 .. l : k \in K
  PROVE  Cardinality(K) \in 0 .. n /\ K = 1 .. Cardinality(K)
<1> DEFINE Out == {m \in 1 .. n + 1 : m \notin K}
<1>1. Out \in SUBSET Nat /\ n + 1 \in Out
  OBVIOUS
<1>2. PICK m \in Out : \A j \in Out : m <= j
  BY <1>1, LeastOf
<1>3. m \in 1 .. n + 1 /\ m \notin K
  OBVIOUS
<1>4. ASSUME NEW j \in 1 .. m - 1 PROVE j \in K
  BY <1>2, <1>3
<1>5. ASSUME NEW j \in K PROVE j \in 1 .. m - 1
  BY <1>3
<1>6. K = 1 .. m - 1
  BY <1>4, <1>5
<1>7. Cardinality(1 .. m - 1) = m - 1
  BY <1>3, FS_Interval
<1> QED
  BY <1>3, <1>6, <1>7

(* What is left of the nudges when a unit of time has gone by: those of the last day. *)
LEMMA DaysNudgesAre ==
  ASSUME NEW n \in Nat, NEW grown, DOMAIN grown = 1 .. n, \A k \in 1 .. n : grown[k] \in Nat,
         \A k, l \in 1 .. n : k <= l => grown[k] <= grown[l]
  PROVE  /\ DaysNudges(grown) \in Seq(0 .. Day - 1) /\ Len(DaysNudges(grown)) \in 0 .. n
         /\ \A k \in DOMAIN DaysNudges(grown) : DaysNudges(grown)[k] = grown[k]
<1>1. PICK K : K = {k \in DOMAIN grown : grown[k] < Day}
  OBVIOUS
<1>2. K \in SUBSET (1 .. n)
  BY <1>1
<1>3. Day \in Nat
  BY HeartbeatAssumption
<1>4. ASSUME NEW l \in K, NEW k \in 1 .. l PROVE k \in K
  <2>1. k \in 1 .. n /\ l \in 1 .. n /\ grown[l] < Day /\ grown[k] <= grown[l]
    BY <1>1, <1>2
  <2>2. grown[k] \in Nat /\ grown[l] \in Nat
    BY <2>1
  <2>3. grown[k] < Day
    BY <1>3, <2>1, <2>2
  <2> QED
    BY <1>1, <2>1, <2>3
<1>5. PICK m \in 0 .. n : m = Cardinality(K) /\ K = 1 .. m
  BY <1>2, <1>4, FirstOnes
<1>6. ASSUME NEW k \in 1 .. m PROVE grown[k] \in 0 .. Day - 1
  BY <1>1, <1>5, <1>3
<1>7. PICK kept : kept = SubSeq(grown, 1, m)
  OBVIOUS
<1>8. kept = DaysNudges(grown)
  BY <1>1, <1>5, <1>7 DEF DaysNudges
<1>9. PICK S : S = 0 .. Day - 1
  OBVIOUS
<1>10. m \in Int /\ 1 \in Int /\ \A k \in 1 .. m : grown[k] \in S
  BY <1>6, <1>9
<1>11. /\ kept \in Seq(S) /\ Len(kept) = IF 1 <= m THEN m - 1 + 1 ELSE 0
       /\ \A k \in 1 .. m - 1 + 1 : kept[k] = grown[1 + k - 1]
  BY <1>7, <1>10, SubSeqProperties
<1>12. m - 1 + 1 = m /\ (\A k \in 1 .. m : 1 + k - 1 = k) /\ (IF 1 <= m THEN m - 1 + 1 ELSE 0) = m
  BY <1>5
<1>13. kept \in Seq(S) /\ Len(kept) = m /\ \A k \in 1 .. m : kept[k] = grown[k]
  BY <1>11, <1>12
<1>14. DOMAIN kept = 1 .. m
  BY <1>13
<1> QED
  BY <1>5, <1>8, <1>9, <1>13, <1>14

LEMMA OneNudgeMore ==
  ASSUME NudgeTypes
  PROVE  /\ << 0 >> \o nudged \in Seq(0 .. Day - 1) /\ Len(<< 0 >> \o nudged) = Len(nudged) + 1
         /\ \A k, l \in DOMAIN (<< 0 >> \o nudged) : k <= l => (<< 0 >> \o nudged)[k] <= (<< 0 >> \o nudged)[l]
<1>1. Day - 1 \in Nat /\ << 0 >> \in Seq(0 .. Day - 1) /\ nudged \in Seq(0 .. Day - 1)
  BY HeartbeatAssumption DEF NudgeTypes
<1>2. PICK more : more = << 0 >> \o nudged
  OBVIOUS
<1>3. /\ more \in Seq(0 .. Day - 1) /\ Len(more) = Len(nudged) + 1
      /\ more[1] = 0 /\ \A k \in 2 .. Len(more) : more[k] = nudged[k - 1]
  BY <1>1, <1>2
<1>4. ASSUME NEW k \in DOMAIN more, NEW l \in DOMAIN more, k <= l PROVE more[k] <= more[l]
  <2>1. k \in 1 .. Len(nudged) + 1 /\ l \in 1 .. Len(nudged) + 1 /\ more[l] \in Nat
    BY <1>1, <1>3
  <2>2. CASE k = 1
    BY <1>3, <2>1, <2>2
  <2>3. CASE k # 1
    <3>1. k - 1 \in DOMAIN nudged /\ l - 1 \in DOMAIN nudged /\ k - 1 <= l - 1
      BY <1>1, <1>4, <2>1, <2>3
    <3> QED
      BY <1>3, <2>1, <2>3, <3>1, <1>4 DEF NudgeTypes
  <2> QED
    BY <2>2, <2>3
<1> QED
  BY <1>2, <1>3, <1>4

-----------------------------------------------------------------------------
(* The decision. *)

(* The last act is far enough for a verdict of topics. *)
LEMMA TopicsMeanCooled ==
  ASSUME NEW in, Verdict(in) = "topics"
  PROVE  \E rank : ~ Cools(in.last.age, rank, in.period, in.penalty)
BY DEF Verdict

LEMMA CooledMeansDown ==
  ASSUME NEW age \in Nat, NEW rank, NEW period \in Periods, NEW penalty \in Penalties,
         ~ Cools(age, rank, period, penalty)
  PROVE  CooledDown(age)
<1>1. PeriodMultiplier(period) \in {1, 2, 3, 6}
  BY HeartbeatAssumption DEF PeriodMultiplier
<1>2. penalty \in {2, 3, 4} /\ CooldownNormal \in Nat /\ CooldownElevated \in Nat
  BY HeartbeatAssumption, DecisionAssumption
<1>3. PICK m \in {1, 2, 3, 6}, cooldown \in {CooldownElevated, CooldownNormal} :
         ~ (age * 4 < cooldown * m * penalty)
  BY <1>1 DEF Cools
<1>4. cooldown \in Nat
  BY <1>2
<1>5. age * 4 >= cooldown * 2
  <2>1. CASE penalty = 2
    BY <1>3, <1>4, <2>1
  <2>2. CASE penalty = 3
    BY <1>3, <1>4, <2>2
  <2>3. CASE penalty = 4
    BY <1>3, <1>4, <2>3
  <2> QED
    BY <1>2, <2>1, <2>2, <2>3
<1> QED
  BY <1>3, <1>4, <1>5 DEF CooledDown

-----------------------------------------------------------------------------
(* Steps of one check that leave the acts, the nudges and what is raised as they are. *)

LEMMA LaterCheck ==
  ASSUME RecordTypes, RecordTypes', lost \subseteq lost', spoke <= spoke', \A s \in Signals : raised[s] <= raised'[s],
         NEW r \in CheckRecords, CheckInv(r)
  PROVE  CheckInv(r)'
<1>1. CooledSince(r)'
  <2>1. spoke \in Nat /\ spoke' \in Nat /\ CooldownElevated \in Nat /\ CooldownNormal \in Nat
    BY DecisionAssumption DEF RecordTypes, Ages
  <2>2. CooledDown(spoke) => CooledDown(spoke')
    BY <2>1 DEF CooledDown
  <2> QED
    BY <2>2 DEF CheckInv, CooledSince
<1>2. QuietSince(r)'
  <2>1. \A s \in Signals : raised[s] \in Nat /\ raised'[s] \in Nat
    BY DEF RecordTypes, Ages
  <2>2. SurfaceFor \in Nat /\ \A s \in r.view : r.view \in Views => s \in Signals
    BY HeartbeatAssumption DEF Views
  <2>3. r.pc \in {"decide", "topics", "nudge", "record"} => r.view \in Views
    <3>1. CASE r = Waiting
      BY <3>1 DEF Waiting
    <3>2. CASE r # Waiting
      BY <3>2 DEF CheckRecords
    <3> QED
      BY <3>1, <3>2
  <2> QED
    BY <2>1, <2>2, <2>3 DEF CheckInv, QuietSince
<1> QED
  BY <1>1, <1>2 DEF CheckInv

LEMMA SameCheck ==
  ASSUME HeartbeatInv, RecordTypes', lost \subseteq lost', spoke <= spoke',
         \A s \in Signals : raised[s] <= raised'[s], NEW d \in Checkers, check'[d] = check[d]
  PROVE  CheckInv(check[d])'
<1>1. PICK r \in CheckRecords : r = check[d] /\ CheckInv(r)
  BY DEF HeartbeatInv, CheckTypes
<1>2. CheckInv(r)'
  BY <1>1, LaterCheck DEF HeartbeatInv
<1>3. check'[d] = r
  BY <1>1
<1> QED
  BY <1>2, <1>3 DEF CheckInv, CooledSince, QuietSince

(* No room is taken. *)
LEMMA RoomKept ==
  ASSUME HeartbeatInv, nudged' \in Seq(0 .. Day - 1), Len(nudged') <= Len(nudged), Nudging' \subseteq Nudging
  PROVE  NudgeRoom'
<1>1. IsFiniteSet(Nudging) /\ Nudging \subseteq Checkers
  BY HeartbeatAssumption, FS_Subset DEF Nudging
<1>2. IsFiniteSet(Nudging') /\ Cardinality(Nudging') <= Cardinality(Nudging)
  BY <1>1, FS_Subset
<1>3. Cardinality(Nudging') \in Nat /\ Cardinality(Nudging) \in Nat /\ Cardinality(Checkers) \in Nat
  BY <1>1, <1>2, HeartbeatAssumption, FS_CardinalityType
<1>4. Len(nudged) \in Nat /\ Len(nudged') \in Nat /\ NudgesPerDay \in Nat
  BY HeartbeatAssumption DEF HeartbeatInv, NudgeTypes
<1> QED
  BY <1>2, <1>3, <1>4 DEF HeartbeatInv, NudgeRoom

(* One check goes on, and nothing is recorded but its suppression. *)
LEMMA CheckMoves ==
  ASSUME HeartbeatInv, NEW c \in Checkers, NEW x \in CheckRecords, check' = [check EXCEPT ![c] = x],
         CheckInv(x)', RecordTypes', SignalTypes', lost \subseteq lost',
         UNCHANGED <<nudged, last, surfaced, raised, spoke>>,
         check[c].pc # "surface", NudgeRoom'
  PROVE  HeartbeatInv'
<1>1. check' \in [Checkers -> CheckRecords] /\ check'[c] = x /\ \A d \in Checkers : d # c => check'[d] = check[d]
  BY DEF HeartbeatInv, CheckTypes
<1>2. NudgeTypes' /\ LastIsKnown'
  BY DEF HeartbeatInv, NudgeTypes, LastIsKnown
<1>3. SurfacedIsKnown'
  BY <1>1 DEF HeartbeatInv, SurfacedIsKnown
<1>4. ASSUME NEW d \in Checkers PROVE CheckInv(check[d])'
  <2>1. CASE d = c
    BY <1>1, <2>1 DEF CheckInv, CooledSince, QuietSince
  <2>2. CASE d # c
    <3>1. spoke <= spoke' /\ \A s \in Signals : raised[s] <= raised'[s]
      BY DEF HeartbeatInv, RecordTypes, Ages
    <3> QED
      BY <1>1, <2>2, <3>1, SameCheck
  <2> QED
    BY <2>1, <2>2
<1> QED
  BY <1>1, <1>2, <1>3, <1>4 DEF HeartbeatInv, CheckTypes

(* Moves of a check to a place where no nudge is recorded. *)
LEMMA NoNewNudge ==
  ASSUME HeartbeatInv, NEW c \in Checkers, NEW x \in CheckRecords, check' = [check EXCEPT ![c] = x],
         ~ (x.pc = "record" /\ x.verdict = "nudge"), UNCHANGED nudged
  PROVE  NudgeRoom'
<1>1. check'[c] = x /\ \A d \in Checkers : d # c => check'[d] = check[d]
  BY DEF HeartbeatInv, CheckTypes
<1>2. Nudging' \subseteq Nudging
  BY <1>1 DEF Nudging
<1>3. nudged' \in Seq(0 .. Day - 1) /\ Len(nudged') <= Len(nudged)
  BY DEF HeartbeatInv, NudgeTypes
<1> QED
  BY <1>2, <1>3, RoomKept

-----------------------------------------------------------------------------
(* The steps. *)

LEMMA HeartbeatInvStarts == HeartbeatInit => HeartbeatInv
<1> SUFFICES ASSUME HeartbeatInit PROVE HeartbeatInv
  OBVIOUS
<1>0. /\ SurfaceFor \in Nat /\ TopicWindow \in Nat /\ Forever \in Nat /\ MaxEvents \in Nat /\ NudgesPerDay \in Nat
      /\ IsFiniteSet(Checkers)
  BY HeartbeatAssumption
<1>1. RecordTypes
  BY <1>0 DEF HeartbeatInit, NoAct, RecordTypes, Ages
<1>2. SignalTypes
  BY LongSilenceIs DEF HeartbeatInit, SignalTypes, Ages, Views
<1>3. NudgeTypes /\ Len(nudged) = 0
  BY DEF HeartbeatInit, NudgeTypes
<1>4. CheckTypes
  BY DEF HeartbeatInit, CheckTypes, CheckRecords
<1>5. NudgeRoom
  <2>1. Nudging = {}
    BY DEF HeartbeatInit, Nudging, Waiting
  <2>2. Cardinality(Nudging) = 0 /\ Cardinality(Checkers) \in Nat
    BY <1>0, <2>1, FS_EmptySet, FS_CardinalityType
  <2> QED
    BY <1>0, <1>3, <2>2 DEF NudgeRoom
<1>6. LastIsKnown /\ SurfacedIsKnown
  BY <1>0 DEF HeartbeatInit, NoAct, LastIsKnown, SurfacedIsKnown
<1>7. \A c \in Checkers : CheckInv(check[c])
  BY DEF HeartbeatInit, Waiting, CheckInv, CooledSince, QuietSince
<1> QED
  BY <1>1, <1>2, <1>3, <1>4, <1>5, <1>6, <1>7 DEF HeartbeatInv

LEMMA EventCounted ==
  ASSUME RecordTypes, Counts
  PROVE  events' \in 0 .. MaxEvents
BY HeartbeatAssumption DEF RecordTypes, Counts

LEMMA ReadCounted ==
  ASSUME RecordTypes, NEW unread, Reads(unread)
  PROVE  events' \in 0 .. MaxEvents
BY EventCounted DEF RecordTypes, Reads

(* The signals come and go. *)
LEMMA EnvironmentKeeps == HeartbeatInv /\ (Environment \/ UNCHANGED vars) => HeartbeatInv'
<1> SUFFICES ASSUME HeartbeatInv, Environment \/ UNCHANGED vars PROVE HeartbeatInv'
  OBVIOUS
<1>1. UNCHANGED <<record, check, lost, raised, spoke>>
  BY DEF Environment, Appear, Vanish, GetsOld, GetsCritical, UserMessage, Happens, vars
<1>2. RecordTypes'
  <2>1. events' \in 0 .. MaxEvents
    BY EventCounted DEF HeartbeatInv, Environment, Appear, Vanish, GetsOld, GetsCritical, UserMessage, Happens,
                        vars, RecordTypes
  <2> QED
    BY <1>1, <2>1 DEF HeartbeatInv, RecordTypes, record
<1>3. SignalTypes'
  <2>1. CASE Environment
    BY <2>1, LongSilenceIs DEF HeartbeatInv, Environment, Appear, Vanish, GetsOld, GetsCritical, UserMessage, SignalTypes, Ages
  <2>2. CASE UNCHANGED vars
    BY <2>2 DEF HeartbeatInv, vars, signals, SignalTypes
  <2> QED
    BY <2>1, <2>2
<1>4. NudgeTypes' /\ CheckTypes' /\ LastIsKnown' /\ SurfacedIsKnown'
  BY <1>1 DEF HeartbeatInv, record, NudgeTypes, CheckTypes, LastIsKnown, SurfacedIsKnown
<1>5. NudgeRoom'
  BY <1>1 DEF HeartbeatInv, record, NudgeRoom, Nudging
<1>6. ASSUME NEW d \in Checkers PROVE CheckInv(check[d])'
  <2>1. spoke <= spoke' /\ \A s \in Signals : raised[s] <= raised'[s]
    BY <1>1 DEF HeartbeatInv, RecordTypes, Ages
  <2> QED
    BY <1>1, <1>2, <2>1, SameCheck
<1> QED
  BY <1>2, <1>3, <1>4, <1>5, <1>6 DEF HeartbeatInv

LEMMA TickKeeps == HeartbeatInv /\ Tick => HeartbeatInv'
<1> SUFFICES ASSUME HeartbeatInv, Tick PROVE HeartbeatInv'
  OBVIOUS
<1>0. /\ SurfaceFor \in Nat /\ TopicWindow \in Nat /\ Forever \in Nat
      /\ 2 * TopicWindow \in Nat /\ LongSilence \in Nat
  BY HeartbeatAssumption, LongSilenceIs
<1>1. RecordTypes /\ SignalTypes /\ NudgeTypes
  BY DEF HeartbeatInv
<1>2. RecordTypes'
  <2>1. surfaced' \in [Signals -> Ages(SurfaceFor)] /\ raised' \in [Signals -> Ages(SurfaceFor)]
    BY <1>0, <1>1, OlderIs DEF RecordTypes, Tick
  <2>2. last'.age \in Ages(Forever) /\ spoke' \in Ages(Forever)
    BY <1>0, <1>1, OlderIs DEF RecordTypes, Tick
  <2>3. last' \in [print : Views \cup {NoPrint}, age : Ages(Forever), nudge : BOOLEAN]
    BY <1>1, <2>2 DEF RecordTypes, Tick
  <2>4. acted' \in [Views \X BOOLEAN -> Ages(TopicWindow)] /\ noted' \in [Views -> Ages(2 * TopicWindow)]
    BY <1>0, <1>1, OlderIs DEF RecordTypes, Tick
  <2> QED
    BY <1>1, <2>1, <2>2, <2>3, <2>4 DEF RecordTypes, Tick
<1>3. SignalTypes'
  BY <1>0, <1>1, OlderIs DEF SignalTypes, Tick
<1>4. NudgeTypes' /\ Len(nudged') <= Len(nudged)
  <2>1. PICK n \in Nat : n = Len(nudged) /\ DOMAIN nudged = 1 .. n /\ \A k \in 1 .. n : nudged[k] \in Nat
    <3>1. nudged \in Seq(Nat)
      BY <1>1, HeartbeatAssumption, SeqMonotonic DEF NudgeTypes
    <3> QED
      BY <3>1
  <2>2. PICK grown : grown = [k \in DOMAIN nudged |-> nudged[k] + 1]
    OBVIOUS
  <2>3. /\ DOMAIN grown = 1 .. n /\ \A k \in 1 .. n : grown[k] \in Nat
        /\ \A k, l \in 1 .. n : k <= l => grown[k] <= grown[l]
    <3>1. \A k, l \in 1 .. n : k <= l => nudged[k] <= nudged[l]
      BY <1>1, <2>1 DEF NudgeTypes
    <3>2. DOMAIN grown = 1 .. n /\ \A k \in 1 .. n : grown[k] = nudged[k] + 1
      BY <2>1, <2>2
    <3> QED
      BY <2>1, <3>1, <3>2
  <2>4. /\ DaysNudges(grown) \in Seq(0 .. Day - 1) /\ Len(DaysNudges(grown)) \in 0 .. n
        /\ \A k \in DOMAIN DaysNudges(grown) : DaysNudges(grown)[k] = grown[k]
    BY <2>3, DaysNudgesAre
  <2>5. nudged' = DaysNudges(grown)
    BY <2>2 DEF Tick
  <2>6. DOMAIN nudged' \subseteq 1 .. n
    BY <2>4, <2>5
  <2>7. \A k, l \in DOMAIN nudged' : k <= l => nudged'[k] <= nudged'[l]
    BY <2>3, <2>4, <2>5, <2>6
  <2> QED
    BY <2>1, <2>4, <2>5, <2>7 DEF NudgeTypes
<1>5. UNCHANGED <<check, lost>> /\ CheckTypes'
  BY DEF HeartbeatInv, CheckTypes, Tick
<1>6. NudgeRoom'
  <2>1. Nudging' = Nudging
    BY <1>5 DEF Nudging
  <2> QED
    BY <1>4, <2>1, RoomKept DEF NudgeTypes
<1>7. LastIsKnown'
  BY <1>1 DEF HeartbeatInv, LastIsKnown, RecordTypes, Tick
<1>8. SurfacedIsKnown'
  <2> SUFFICES ASSUME "surfaced" \notin lost, NEW s \in Signals, Kind[s] = "pending_work"
               PROVE  surfaced'[s] <= raised'[s] \/ \E d \in Checkers : check[d].pc = "surface" /\ s \in check[d].view
    BY <1>5 DEF SurfacedIsKnown
  <2>1. CASE surfaced[s] <= raised[s]
    <3>1. surfaced[s] \in Ages(SurfaceFor) /\ raised[s] \in Ages(SurfaceFor)
      BY <1>1 DEF RecordTypes
    <3> QED
      BY <1>0, <2>1, <3>1, OlderInOrder DEF Tick
  <2> QED
    BY <2>1 DEF HeartbeatInv, SurfacedIsKnown
<1>9. ASSUME NEW d \in Checkers PROVE CheckInv(check[d])'
  <2>1. spoke <= spoke'
    BY <1>0, <1>1, OlderIs DEF RecordTypes, Tick, Ages
  <2>2. \A s \in Signals : raised[s] <= raised'[s]
    BY <1>0, <1>1, OlderIs DEF RecordTypes, Tick, Ages
  <2> QED
    BY <1>2, <1>5, <2>1, <2>2, SameCheck
<1> QED
  BY <1>2, <1>3, <1>4, <1>5, <1>6, <1>7, <1>8, <1>9 DEF HeartbeatInv

LEMMA ScanKeeps ==
  ASSUME HeartbeatInv, NEW c \in Checkers, NEW unread \in SUBSET {"pending_work", "deadlines"}, Scan(c, unread)
  PROVE  HeartbeatInv'
<1> DEFINE recent == {s \in Signals : surfaced[s] < SurfaceFor /\ Kind[s] \notin unread}
           seen == FilterSurfaced(present, recent)
           others == UNION {check[d].view : d \in {e \in Checkers : check[e].pc = "surface"}}
<1>0. RecordTypes /\ SignalTypes /\ check[c] = Waiting
  BY DEF HeartbeatInv, Scan
<1>1. PICK view, missed : view = seen /\ missed = Work(view) \cap others
  OBVIOUS
<1>2. PICK x : x = [pc |-> "decide", view |-> view, fresh |-> view \cap fresh,
                   critical |-> view \cap critical # {}, verdict |-> "none",
                   unread |-> unread \cap {"pending_work"}, overlap |-> FALSE, missed |-> missed]
  OBVIOUS
<1>3. check' = [check EXCEPT ![c] = x]
  BY <1>1, <1>2 DEF Scan
<1>4. view \in Views /\ missed \in Views /\ missed = {s \in view : Kind[s] = "pending_work" /\ s \in others}
  <2>1. view \subseteq Signals
    BY <1>0, <1>1 DEF FilterSurfaced, SignalTypes
  <2> QED
    BY <1>1, <2>1 DEF Views, Work, OfKind
<1>5. /\ x \in CheckRecords /\ x.pc = "decide" /\ x.verdict = "none" /\ x.view = view /\ x.missed = missed
      /\ x.fresh = view \cap fresh /\ x.unread = unread \cap {"pending_work"}
  BY <1>4, <1>2 DEF CheckRecords, Views
<1>6. /\ UNCHANGED <<signals, lost, raised, spoke>> /\ events' \in 0 .. MaxEvents
      /\ UNCHANGED <<surfaced, last, acted, noted, nudged>>
  BY <1>0, EventCounted DEF Scan, RecordTypes, record
<1>7. RecordTypes' /\ SignalTypes'
  BY <1>0, <1>6 DEF RecordTypes, SignalTypes, signals
<1>8. CheckInv(x)'
  <2>1. ASSUME "surfaced" \notin lost, "pending_work" \notin unread, NEW s \in view, s \notin missed, Kind[s] = "pending_work"
        PROVE  raised[s] >= SurfaceFor
    <3>1. s \in Signals /\ s \notin recent
      BY <1>1, <1>4, <2>1 DEF FilterSurfaced, OfKind, Views
    <3>2. surfaced[s] \in Ages(SurfaceFor) /\ raised[s] \in Ages(SurfaceFor) /\ SurfaceFor \in Nat
      BY <1>0, <3>1, HeartbeatAssumption DEF RecordTypes
    <3>3. surfaced[s] >= SurfaceFor
      BY <2>1, <3>1, <3>2 DEF Ages
    <3>4. s \notin others
      BY <1>4, <2>1
    <3>5. surfaced[s] <= raised[s]
      BY <2>1, <3>1, <3>4 DEF HeartbeatInv, SurfacedIsKnown
    <3> QED
      BY <3>2, <3>3, <3>5 DEF Ages
  <2>2. \A s \in x.view \ x.missed : Kind[s] = "pending_work" /\ "surfaced" \notin lost /\ "pending_work" \notin unread
                                         => raised[s] >= SurfaceFor
    BY <1>5, <2>1
  <2>3. QuietSince(x)'
    BY <1>5, <1>6, <2>2 DEF QuietSince
  <2> QED
    BY <1>5, <2>3 DEF CheckInv, CooledSince
<1>9. NudgeRoom'
  BY <1>3, <1>5, <1>6, NoNewNudge
<1>10. check[c].pc # "surface" /\ lost \subseteq lost' /\ x \in CheckRecords
  <2>1. check[c].pc = "idle"
    BY <1>0 DEF Waiting
  <2>2. lost' = lost
    BY <1>6
  <2> QED
    BY <1>5, <2>1, <2>2
<1> HIDE DEF recent, seen, others
<1> QED
  BY <1>3, <1>6, <1>7, <1>8, <1>9, <1>10, CheckMoves

(* What a check at work has. *)
LEMMA AtWork ==
  ASSUME HeartbeatInv, NEW c \in Checkers, check[c].pc # "idle"
  PROVE  /\ check[c] \in CheckRecords \ {Waiting} /\ check[c].view \in Views /\ check[c].missed \in Views
         /\ check[c].overlap \in BOOLEAN /\ check[c].critical \in BOOLEAN /\ check[c].fresh \in Views
         /\ check[c].unread \in SUBSET {"pending_work", "last"}
         /\ check[c].verdict \in {"none", "topics", "nudge", "act_deadline_critical", "act"}
         /\ CheckInv(check[c])
<1>1. check[c] # Waiting
  BY DEF Waiting
<1>2. check[c] \in CheckRecords \ {Waiting} /\ CheckInv(check[c])
  BY <1>1 DEF HeartbeatInv, CheckTypes
<1> QED
  BY <1>2 DEF CheckRecords

(* A check ends, or goes on as it is. *)
LEMMA CheckEnds ==
  ASSUME HeartbeatInv, NEW c \in Checkers, check[c].pc # "surface", Finish(c), RecordTypes', SignalTypes',
         lost \subseteq lost', UNCHANGED <<nudged, last, surfaced, raised, spoke>>
  PROVE  HeartbeatInv'
<1>1. Waiting \in CheckRecords /\ Waiting.pc = "idle" /\ check' = [check EXCEPT ![c] = Waiting]
  BY DEF CheckRecords, Waiting, Finish
<1>2. CheckInv(Waiting)'
  BY DEF Waiting, CheckInv, CooledSince, QuietSince
<1>3. NudgeRoom'
  BY <1>1, NoNewNudge
<1> QED
  BY <1>1, <1>2, <1>3, CheckMoves

(* Where a verdict takes a check. *)
Decided(r, pc, v, unread) ==
  [r EXCEPT !.pc = pc, !.verdict = v, !.fresh = {}, !.critical = FALSE, !.unread = @ \cup (unread \cap {"last"})]

LEMMA DecidedRecord ==
  ASSUME NEW r \in CheckRecords \ {Waiting}, NEW pc \in {"topics", "nudge", "record", "note"},
         NEW v \in {"none", "topics", "nudge", "act_deadline_critical", "act"}, NEW unread
  PROVE  LET x == Decided(r, pc, v, unread)
         IN /\ x \in CheckRecords /\ x.pc = pc /\ x.verdict = v /\ x.view = r.view /\ x.missed = r.missed
            /\ x.unread = r.unread \cup (unread \cap {"last"}) /\ x.overlap = r.overlap
BY DEF CheckRecords, Views, Decided

LEMMA DecideKeeps ==
  ASSUME HeartbeatInv, NEW c \in Checkers, NEW threshold, NEW period \in Periods, NEW typical, NEW talks,
         NEW penalty \in Penalties, NEW unread, Decide(c, threshold, period, typical, talks, penalty, unread)
  PROVE  HeartbeatInv'
<1>0. check[c].pc = "decide" /\ Reads(unread) /\ UNCHANGED <<signals, record, lost, raised, spoke>>
  BY DEF Decide
<1>1. PICK r \in CheckRecords \ {Waiting} :
         r = check[c] /\ r.pc = "decide" /\ r.view \in Views /\ r.missed \in Views /\ r.overlap \in BOOLEAN /\ CheckInv(r)
  BY <1>0, AtWork
<1> DEFINE in == [view |-> check[c].view, fresh |-> check[c].fresh,
                  critical |-> check[c].critical, threshold |-> threshold,
                  period |-> period, typical |-> typical,
                  talking |-> talks \/ (silence = 0 /\ "messages" \notin unread),
                  penalty |-> penalty, last |-> IF "last" \in unread THEN NoAct ELSE last]
<1>2. PICK verdict : verdict = Verdict(in)
  OBVIOUS
<1>3. PICK x : /\ x = CASE verdict \in {"topics", "nudge"}      -> Decided(r, verdict, verdict, unread)
                        [] verdict = "act_deadline_critical"    -> Decided(r, "record", verdict, unread)
                        [] verdict \in {"act", "act_confluence"} -> Decided(r, "record", "act", unread)
                        [] verdict \in Noted                    -> [Decided(r, "note", "none", unread) EXCEPT !.missed = {}]
                        [] OTHER                                -> Waiting
               /\ check' = [check EXCEPT ![c] = x]
  BY <1>1, <1>2 DEF Decide, Decided
<1>4. RecordTypes' /\ SignalTypes'
  BY <1>0, ReadCounted DEF HeartbeatInv, RecordTypes, SignalTypes, record, signals
<1>5. verdict = "topics" /\ "act" \notin lost /\ "last" \notin unread => CooledDown(spoke)
  <2> SUFFICES ASSUME verdict = "topics", "act" \notin lost, "last" \notin unread PROVE CooledDown(spoke)
    OBVIOUS
  <2>1. PICK rank : ~ Cools(in.last.age, rank, in.period, in.penalty)
    BY <1>2, TopicsMeanCooled
  <2>2. in.last = last /\ in.period = period /\ in.penalty = penalty
    OBVIOUS
  <2>3. last.age = spoke /\ spoke \in Nat
    BY DEF HeartbeatInv, LastIsKnown, RecordTypes, Ages
  <2> HIDE DEF in
  <2> QED
    BY <2>1, <2>2, <2>3, CooledMeansDown
<1> HIDE DEF in
<1>6. /\ x \in CheckRecords /\ x.pc \in {"topics", "nudge", "record", "note", "idle"}
      /\ x.pc \in {"topics", "nudge"} => x.verdict = x.pc
      /\ x.pc = "topics" => verdict = "topics"
      /\ x.pc = "record" => x.verdict \in {"act_deadline_critical", "act"}
      /\ x.pc \in {"topics", "nudge", "record"} =>
           x.view = r.view /\ x.missed = r.missed /\ x.unread = r.unread \cup (unread \cap {"last"})
  <2>1. ASSUME verdict = "topics"
        PROVE  x \in CheckRecords /\ x.pc = "topics" /\ x.verdict = "topics" /\ x.view = r.view /\ x.missed = r.missed
               /\ x.unread = r.unread \cup (unread \cap {"last"})
    BY <1>3, <2>1, DecidedRecord DEF Noted
  <2>2. ASSUME verdict = "nudge"
        PROVE  x \in CheckRecords /\ x.pc = "nudge" /\ x.verdict = "nudge" /\ x.view = r.view /\ x.missed = r.missed
               /\ x.unread = r.unread \cup (unread \cap {"last"})
    BY <1>3, <2>2, DecidedRecord DEF Noted
  <2>3. CASE verdict = "act_deadline_critical"
    BY <1>3, <2>3, DecidedRecord DEF Noted
  <2>4. CASE verdict \in {"act", "act_confluence"}
    BY <1>3, <2>4, DecidedRecord DEF Noted
  <2>5. CASE verdict \in Noted
    BY <1>3, <2>5 DEF Noted, Decided, CheckRecords, Views
  <2>6. CASE verdict \notin {"topics", "nudge", "act_deadline_critical", "act", "act_confluence"} \cup Noted
    BY <1>3, <2>6 DEF Waiting, CheckRecords
  <2> QED
    BY <2>1, <2>2, <2>3, <2>4, <2>5, <2>6
<1>7. CheckInv(x)'
  BY <1>0, <1>1, <1>5, <1>6 DEF CheckInv, CooledSince, QuietSince
<1>8. NudgeRoom'
  BY <1>0, <1>3, <1>6, NoNewNudge DEF record
<1> QED
  BY <1>0, <1>3, <1>4, <1>6, <1>7, <1>8, CheckMoves DEF record

LEMMA CompareKeeps ==
  ASSUME HeartbeatInv, NEW c \in Checkers, NEW unread, CompareTopics(c, unread)
  PROVE  HeartbeatInv'
<1>0. check[c].pc = "topics" /\ Reads(unread) /\ UNCHANGED <<signals, record, lost, raised, spoke>>
  BY DEF CompareTopics
<1>1. PICK r \in CheckRecords \ {Waiting} :
         r = check[c] /\ r.pc = "topics" /\ r.view \in Views /\ r.missed \in Views /\ CheckInv(r)
  BY <1>0, AtWork
<1>2. PICK pc \in {"note", "record"} : Goto(c, pc)
  BY DEF CompareTopics
<1> DEFINE x == [r EXCEPT !.pc = pc]
<1>3. /\ x \in CheckRecords /\ x.pc = pc /\ x.verdict = r.verdict /\ x.overlap = r.overlap
      /\ x.view = r.view /\ x.missed = r.missed /\ x.unread = r.unread
  BY <1>1 DEF CheckRecords
<1>4. check' = [check EXCEPT ![c] = x]
  BY <1>1, <1>2 DEF Goto, HeartbeatInv, CheckTypes
<1> HIDE DEF x
<1>5. RecordTypes' /\ SignalTypes'
  BY <1>0, ReadCounted DEF HeartbeatInv, RecordTypes, SignalTypes, record, signals
<1>6. CheckInv(x)'
  BY <1>0, <1>1, <1>2, <1>3 DEF CheckInv, CooledSince, QuietSince
<1>7. NudgeRoom'
  BY <1>0, <1>1, <1>3, <1>4, NoNewNudge DEF record, CheckInv
<1> QED
  BY <1>0, <1>3, <1>4, <1>5, <1>6, <1>7, CheckMoves DEF record

LEMMA NoteKeeps ==
  ASSUME HeartbeatInv, NEW c \in Checkers, Note(c)
  PROVE  HeartbeatInv'
<1>0. /\ check[c].pc = "note" /\ Finish(c) /\ UNCHANGED <<signals, surfaced, last, acted, nudged, raised, spoke>>
      /\ lost \subseteq lost'
  BY DEF Note, Written, Loses
<1>1. check[c].view \in Views
  BY <1>0, AtWork
<1>2. SignalTypes'
  BY <1>0 DEF HeartbeatInv, SignalTypes, signals
<1>3. RecordTypes'
  <2>1. Fingerprint(check[c].view) \in Views /\ 0 \in Ages(2 * TopicWindow)
    BY <1>1, HeartbeatAssumption DEF Fingerprint, Views, Ages
  <2>2. noted' \in [Views -> Ages(2 * TopicWindow)]
    BY <2>1 DEF HeartbeatInv, RecordTypes, Note
  <2>3. lost' \subseteq {"act", "suppression", "surfaced"} /\ events' \in 0 .. MaxEvents
    BY EventCounted DEF HeartbeatInv, RecordTypes, Note, Written, Loses
  <2> QED
    BY <1>0, <2>2, <2>3 DEF HeartbeatInv, RecordTypes
<1> QED
  BY <1>0, <1>2, <1>3, CheckEnds

LEMMA EvaluateKeeps ==
  ASSUME HeartbeatInv, NEW c \in Checkers, NEW period, NEW penalty, NEW content, NEW unread,
         EvaluateNudge(c, period, penalty, content, unread)
  PROVE  HeartbeatInv'
<1>0. check[c].pc = "nudge" /\ Reads(unread) /\ UNCHANGED <<signals, record, lost, raised, spoke>>
  BY DEF EvaluateNudge
<1>1. RecordTypes' /\ SignalTypes'
  BY <1>0, ReadCounted DEF HeartbeatInv, RecordTypes, SignalTypes, record, signals
<1>2. CASE Finish(c)
  BY <1>0, <1>1, <1>2, CheckEnds DEF record
<1>3. CASE MayNudgeAgain /\ check' = [check EXCEPT ![c].pc = "record"]
  <2>1. PICK r \in CheckRecords \ {Waiting} :
           r = check[c] /\ r.pc = "nudge" /\ r.view \in Views /\ r.missed \in Views /\ CheckInv(r)
    BY <1>0, AtWork
  <2>2. PICK x : x = [r EXCEPT !.pc = "record"]
    OBVIOUS
  <2>3. /\ x \in CheckRecords /\ x.pc = "record" /\ x.verdict = r.verdict
        /\ x.view = r.view /\ x.missed = r.missed /\ x.unread = r.unread
    BY <2>1, <2>2 DEF CheckRecords
  <2>4. check' = [check EXCEPT ![c] = x]
    BY <1>3, <2>1, <2>2 DEF HeartbeatInv, CheckTypes
  <2>5. CheckInv(x)'
    BY <1>0, <2>1, <2>3 DEF CheckInv, CooledSince, QuietSince
  <2>6. NudgeRoom'
    <3>1. IsFiniteSet(Nudging') /\ Cardinality(Nudging') <= Cardinality(Checkers)
      BY HeartbeatAssumption, FS_Subset DEF Nudging
    <3>2. Cardinality(Nudging') \in Nat /\ Cardinality(Checkers) \in Nat /\ Len(nudged) \in Nat /\ NudgesPerDay \in Nat
      BY <3>1, HeartbeatAssumption, FS_CardinalityType DEF HeartbeatInv, NudgeTypes
    <3>3. NudgesPerDay > 0 => Len(nudged) < NudgesPerDay
      BY <1>3 DEF MayNudgeAgain
    <3>4. nudged' = nudged
      BY <1>0 DEF record
    <3> QED
      BY <3>1, <3>2, <3>3, <3>4 DEF NudgeRoom
  <2> QED
    BY <1>0, <1>1, <2>3, <2>4, <2>5, <2>6, CheckMoves DEF record
<1> QED
  BY <1>2, <1>3 DEF EvaluateNudge

(* A check counts what it has raised as surfaced, if it can. *)
LEMMA SurfaceKeeps ==
  ASSUME HeartbeatInv, NEW c \in Checkers, Surface(c)
  PROVE  HeartbeatInv'
<1>0. /\ check[c].pc = "surface" /\ Finish(c) /\ UNCHANGED <<signals, last, acted, noted, nudged, raised, spoke>>
      /\ lost \subseteq lost' /\ lost' \subseteq {"act", "suppression", "surfaced"}
  BY DEF Surface, Written, Loses, HeartbeatInv, RecordTypes
<1>1. check[c].view \in Views /\ RecordTypes /\ SurfaceFor \in Nat
  BY <1>0, AtWork, HeartbeatAssumption DEF HeartbeatInv
<1>2. check' \in [Checkers -> CheckRecords] /\ check'[c] = Waiting /\ \A d \in Checkers : d # c => check'[d] = check[d]
  BY <1>0 DEF HeartbeatInv, CheckTypes, Finish, CheckRecords
<1>3. ASSUME surfaced' = [s \in Signals |-> IF s \in Surfacing(check[c].view) THEN 0 ELSE surfaced[s]],
             Written
      PROVE  RecordTypes' /\ SurfacedIsKnown'
  <2>1. surfaced' \in [Signals -> Ages(SurfaceFor)]
    BY <1>1, <1>3 DEF RecordTypes, Ages
  <2>2. RecordTypes'
    BY <1>0, <1>1, <1>3, <2>1 DEF RecordTypes, Written
  <2>3. SurfacedIsKnown'
    <3> SUFFICES ASSUME "surfaced" \notin lost', NEW s \in Signals, Kind[s] = "pending_work"
                 PROVE  surfaced'[s] <= raised'[s] \/ \E d \in Checkers : check'[d].pc = "surface" /\ s \in check'[d].view
      BY DEF SurfacedIsKnown
    <3>1. CASE s \in check[c].view
      <4>1. surfaced'[s] = 0 /\ raised'[s] \in Nat
        BY <1>0, <1>1, <1>3, <3>1 DEF Surfacing, RecordTypes, Ages
      <4> QED
        BY <4>1
    <3>2. CASE s \notin check[c].view
      <4>1. surfaced[s] <= raised[s] \/ \E d \in Checkers : d # c /\ check[d].pc = "surface" /\ s \in check[d].view
        BY <1>0, <3>2 DEF HeartbeatInv, SurfacedIsKnown
      <4>2. surfaced'[s] = surfaced[s] /\ raised'[s] = raised[s]
        BY <1>0, <1>3, <3>2 DEF Surfacing
      <4> QED
        BY <1>2, <4>1, <4>2
    <3> QED
      BY <3>1, <3>2
  <2> QED
    BY <2>2, <2>3
<1>4. ASSUME Loses("surfaced"), UNCHANGED surfaced PROVE RecordTypes' /\ SurfacedIsKnown'
  <2>1. RecordTypes'
    BY <1>0, <1>1, <1>4, EventCounted DEF RecordTypes, Loses
  <2>2. "surfaced" \in lost'
    BY <1>4 DEF Loses
  <2> QED
    BY <2>1, <2>2 DEF SurfacedIsKnown
<1>5. RecordTypes' /\ SurfacedIsKnown'
  BY <1>3, <1>4 DEF Surface
<1>6. SignalTypes' /\ NudgeTypes' /\ CheckTypes' /\ LastIsKnown'
  BY <1>0, <1>2 DEF HeartbeatInv, SignalTypes, signals, NudgeTypes, CheckTypes, LastIsKnown
<1>7. NudgeRoom'
  BY <1>0, NoNewNudge DEF Finish, CheckRecords, Waiting
<1>8. ASSUME NEW d \in Checkers PROVE CheckInv(check[d])'
  <2>1. CASE d = c
    BY <1>2, <2>1 DEF Waiting, CheckInv, CooledSince, QuietSince
  <2>2. CASE d # c
    <3>1. spoke <= spoke' /\ \A s \in Signals : raised[s] <= raised'[s]
      BY <1>0, <1>1 DEF RecordTypes, Ages
    <3> QED
      BY <1>0, <1>2, <1>5, <2>2, <3>1, SameCheck
  <2> QED
    BY <2>1, <2>2
<1> QED
  BY <1>5, <1>6, <1>7, <1>8 DEF HeartbeatInv

-----------------------------------------------------------------------------
(* An act, which the other checks are told of. *)

LEMMA OvertakenIs ==
  ASSUME CheckTypes, NEW c \in Checkers, check[c] # Waiting, NEW view
  PROVE  /\ Overtaken(c, view) \in [Checkers -> CheckRecords]
         /\ Overtaken(c, view)[c].pc = "surface" /\ Overtaken(c, view)[c].view = check[c].view
         /\ \A d \in Checkers : d # c =>
              /\ Overtaken(c, view)[d].pc = check[d].pc
              /\ check[d] = Waiting => Overtaken(c, view)[d] = Waiting
              /\ check[d] # Waiting =>
                   /\ Overtaken(c, view)[d].verdict = check[d].verdict /\ Overtaken(c, view)[d].view = check[d].view
                   /\ Overtaken(c, view)[d].unread = check[d].unread
                   /\ Overtaken(c, view)[d].overlap = (check[d].overlap \/ check[d].pc \in {"topics", "record"})
                   /\ Overtaken(c, view)[d].missed = check[d].missed \cup (Work(view) \cap check[d].view)
<1>1. ASSUME NEW r \in CheckRecords \ {Waiting}
      PROVE  LET x == [r EXCEPT !.pc = "surface", !.verdict = "none", !.unread = {}, !.overlap = FALSE, !.missed = {}]
             IN x \in CheckRecords /\ x.pc = "surface" /\ x.view = r.view
  BY <1>1 DEF CheckRecords, Views
<1>2. ASSUME NEW d \in Checkers, check[d] # Waiting
      PROVE  /\ check[d] \in CheckRecords \ {Waiting}
             /\ (check[d].overlap \/ check[d].pc \in {"topics", "record"}) \in BOOLEAN
             /\ check[d].missed \cup (Work(view) \cap check[d].view) \in Views
  BY <1>2 DEF CheckTypes, CheckRecords, Views
<1> DEFINE told(d) == [check[d] EXCEPT !.overlap = (@ \/ check[d].pc \in {"topics", "record"}),
                                       !.missed = @ \cup (Work(view) \cap check[d].view)]
           own == [check[c] EXCEPT !.pc = "surface", !.verdict = "none", !.unread = {}, !.overlap = FALSE, !.missed = {}]
<1>3. own \in CheckRecords /\ own.pc = "surface" /\ own.view = check[c].view
  BY <1>1, <1>2
<1>4. ASSUME NEW d \in Checkers, check[d] # Waiting
      PROVE  /\ told(d) \in CheckRecords /\ told(d).pc = check[d].pc /\ told(d).verdict = check[d].verdict
             /\ told(d).view = check[d].view /\ told(d).unread = check[d].unread
             /\ told(d).overlap = (check[d].overlap \/ check[d].pc \in {"topics", "record"})
             /\ told(d).missed = check[d].missed \cup (Work(view) \cap check[d].view)
  <2>1. PICK r \in CheckRecords \ {Waiting}, b \in BOOLEAN, m \in Views :
           /\ r = check[d] /\ b = (r.overlap \/ r.pc \in {"topics", "record"})
           /\ m = r.missed \cup (Work(view) \cap r.view)
    BY <1>2, <1>4
  <2>2. PICK x : x = [r EXCEPT !.overlap = b, !.missed = m]
    OBVIOUS
  <2>3. x \in CheckRecords /\ x.pc = r.pc /\ x.verdict = r.verdict /\ x.view = r.view /\ x.unread = r.unread /\ x.overlap = b /\ x.missed = m
    BY <2>2 DEF CheckRecords
  <2>4. told(d) = x
    BY <2>1, <2>2
  <2> HIDE DEF told
  <2> QED
    BY <2>1, <2>3, <2>4
<1>5. Waiting \in CheckRecords
  BY DEF CheckRecords
<1>6. Overtaken(c, view) = [d \in Checkers |-> IF d = c THEN own ELSE IF check[d] = Waiting THEN Waiting ELSE told(d)]
  BY DEF Overtaken
<1> HIDE DEF own, told
<1>7. Overtaken(c, view) \in [Checkers -> CheckRecords] /\ Overtaken(c, view)[c] = own
  BY <1>3, <1>4, <1>5, <1>6
<1>8. \A d \in Checkers : d # c => Overtaken(c, view)[d] = IF check[d] = Waiting THEN Waiting ELSE told(d)
  BY <1>6
<1> QED
  BY <1>3, <1>4, <1>7, <1>8

(* What the others may rely on after an act on a view. *)
LEMMA OthersAreTold ==
  ASSUME HeartbeatInv, NEW c \in Checkers, check[c] # Waiting, NEW view, check' = Overtaken(c, view),
         lost \subseteq lost', raised' = [s \in Signals |-> IF s \in view THEN 0 ELSE raised[s]]
  PROVE  CheckTypes' /\ \A d \in Checkers : CheckInv(check[d])'
<1>0. CheckTypes /\ RecordTypes
  BY DEF HeartbeatInv
<1> DEFINE next == Overtaken(c, view)
<1>1. /\ next \in [Checkers -> CheckRecords] /\ next[c].pc = "surface"
      /\ \A d \in Checkers : d # c =>
           /\ next[d].pc = check[d].pc /\ (check[d] = Waiting => next[d] = Waiting)
           /\ check[d] # Waiting =>
                /\ next[d].verdict = check[d].verdict /\ next[d].view = check[d].view
                /\ next[d].unread = check[d].unread
                /\ next[d].overlap = (check[d].overlap \/ check[d].pc \in {"topics", "record"})
                /\ next[d].missed = check[d].missed \cup (Work(view) \cap check[d].view)
  BY <1>0, OvertakenIs
<1> HIDE DEF next
<1>2. check' = next
  BY DEF next
<1>3. ASSUME NEW d \in Checkers PROVE CheckInv(check[d])'
  <2>1. CASE d = c
    BY <1>1, <1>2, <2>1 DEF CheckInv, CooledSince, QuietSince
  <2>2. CASE d # c /\ check[d] = Waiting
    BY <1>1, <1>2, <2>2 DEF CheckInv, CooledSince, QuietSince, Waiting
  <2>3. CASE d # c /\ check[d] # Waiting
    <3>1. PICK x : x = next[d]
      OBVIOUS
    <3>2. /\ x.pc = check[d].pc /\ x.verdict = check[d].verdict /\ x.view = check[d].view
          /\ x.unread = check[d].unread
          /\ x.overlap = (check[d].overlap \/ check[d].pc \in {"topics", "record"})
          /\ x.missed = check[d].missed \cup (Work(view) \cap check[d].view)
      BY <1>1, <2>3, <3>1
    <3>3. CheckInv(check[d])
      BY DEF HeartbeatInv
    <3>4. CooledSince(x)'
      BY <3>2 DEF CooledSince
    <3>5. QuietSince(x)'
      <4> SUFFICES ASSUME x.pc \in {"decide", "topics", "nudge", "record"}, "surfaced" \notin lost',
                          "pending_work" \notin x.unread,
                          NEW s \in x.view, s \notin x.missed, Kind[s] = "pending_work"
                   PROVE  raised'[s] >= SurfaceFor
        BY DEF QuietSince
      <4>1. s \in check[d].view /\ s \notin check[d].missed /\ s \notin Work(view)
        BY <3>2
      <4>2. s \notin view
        BY <4>1 DEF Work, OfKind
      <4>3. raised[s] >= SurfaceFor
        BY <3>2, <3>3, <4>1 DEF CheckInv, QuietSince
      <4>4. s \in Signals
        <5>1. check[d].pc # "idle"
          BY <3>2
        <5> QED
          BY <4>1, <5>1, AtWork DEF Views
      <4> QED
        BY <4>2, <4>3, <4>4
    <3>6. CheckInv(x)'
      BY <3>2, <3>3, <3>4, <3>5 DEF CheckInv
    <3>7. check'[d] = x
      BY <1>2, <3>1
    <3> QED
      BY <3>6, <3>7 DEF CheckInv, CooledSince, QuietSince
  <2> QED
    BY <2>1, <2>2, <2>3
<1> QED
  BY <1>1, <1>2, <1>3 DEF CheckTypes

LEMMA RecordActKeeps ==
  ASSUME HeartbeatInv, NEW c \in Checkers, RecordAct(c)
  PROVE  HeartbeatInv'
<1>0. /\ check[c].pc = "record" /\ check[c].verdict # "nudge" /\ check' = Overtaken(c, check[c].view)
      /\ raised' = [s \in Signals |-> IF s \in check[c].view THEN 0 ELSE raised[s]]
      /\ spoke' = 0 /\ UNCHANGED <<signals, surfaced, noted, nudged>> /\ lost \subseteq lost'
  BY DEF RecordAct, Written, Loses
<1>1. /\ check[c] # Waiting /\ check[c].view \in Views /\ RecordTypes /\ CheckTypes
      /\ 0 \in Ages(SurfaceFor) /\ 0 \in Ages(Forever) /\ 0 \in Ages(TopicWindow)
  <2>1. check[c].pc # "idle"
    BY <1>0
  <2>2. check[c].view \in Views /\ check[c] # Waiting
    BY <2>1, AtWork DEF Waiting
  <2>3. SurfaceFor \in Nat /\ Forever \in Nat /\ TopicWindow \in Nat
    BY HeartbeatAssumption
  <2> QED
    BY <2>2, <2>3 DEF HeartbeatInv, Ages
<1>2. CheckTypes' /\ \A d \in Checkers : CheckInv(check[d])'
  BY <1>0, <1>1, OthersAreTold
<1>3. /\ check'[c].pc = "surface" /\ check'[c].view = check[c].view
      /\ \A d \in Checkers : d # c =>
           /\ check'[d].pc = check[d].pc
           /\ check[d] = Waiting => check'[d] = Waiting
           /\ check[d] # Waiting => check'[d].verdict = check[d].verdict /\ check'[d].view = check[d].view
  BY <1>0, <1>1, OvertakenIs
<1>4. RecordTypes' /\ LastIsKnown'
  <2>1. raised' \in [Signals -> Ages(SurfaceFor)] /\ spoke' \in Ages(Forever)
    BY <1>0, <1>1 DEF RecordTypes
  <2>2. ASSUME NEW v \in Views \cup {NoPrint}, NEW printed \in BOOLEAN,
               last' = [print |-> v, age |-> 0, nudge |-> FALSE],
               acted' = [acted EXCEPT ![<<check[c].view, printed>>] = 0], Written
        PROVE  RecordTypes' /\ LastIsKnown'
    <3>1. last' \in [print : Views \cup {NoPrint}, age : Ages(Forever), nudge : BOOLEAN] /\ last'.age = 0
      BY <1>1, <2>2
    <3>2. acted' \in [Views \X BOOLEAN -> Ages(TopicWindow)]
      BY <1>1, <2>2 DEF RecordTypes
    <3> QED
      BY <1>0, <1>1, <2>1, <2>2, <3>1, <3>2 DEF RecordTypes, LastIsKnown, Written
  <2>3. ASSUME Loses("act"), UNCHANGED <<last, acted>> PROVE RecordTypes' /\ LastIsKnown'
    <3>1. events' \in 0 .. MaxEvents /\ lost' = lost \cup {"act"}
      BY <1>1, <2>3, EventCounted DEF Loses
    <3> QED
      BY <1>0, <1>1, <2>1, <2>3, <3>1 DEF RecordTypes, LastIsKnown
  <2>4. Fingerprint(check[c].view) \in Views
    BY <1>1 DEF Fingerprint, Views
  <2> QED
    BY <2>2, <2>3, <2>4 DEF RecordAct
<1>5. SignalTypes' /\ NudgeTypes'
  BY <1>0 DEF HeartbeatInv, SignalTypes, signals, NudgeTypes
<1>6. NudgeRoom'
  <2>1. Nudging' \subseteq Nudging
    BY <1>3 DEF Nudging, Waiting
  <2>2. nudged' \in Seq(0 .. Day - 1) /\ Len(nudged') <= Len(nudged)
    BY <1>0 DEF HeartbeatInv, NudgeTypes
  <2> QED
    BY <2>1, <2>2, RoomKept
<1>7. SurfacedIsKnown'
  <2> SUFFICES ASSUME "surfaced" \notin lost', NEW s \in Signals, Kind[s] = "pending_work"
               PROVE  surfaced'[s] <= raised'[s] \/ \E d \in Checkers : check'[d].pc = "surface" /\ s \in check'[d].view
    BY DEF SurfacedIsKnown
  <2>1. CASE s \in check[c].view
    BY <1>3, <2>1
  <2>2. CASE s \notin check[c].view
    <3>1. surfaced[s] <= raised[s] \/ \E d \in Checkers : check[d].pc = "surface" /\ s \in check[d].view
      BY <1>0 DEF HeartbeatInv, SurfacedIsKnown
    <3>2. surfaced'[s] = surfaced[s] /\ raised'[s] = raised[s]
      BY <1>0, <2>2
    <3>3. ASSUME NEW d \in Checkers, check[d].pc = "surface", s \in check[d].view
          PROVE  check'[d].pc = "surface" /\ s \in check'[d].view
      BY <1>0, <1>3, <3>3 DEF Waiting
    <3> QED
      BY <3>1, <3>2, <3>3
  <2> QED
    BY <2>1, <2>2
<1> QED
  BY <1>2, <1>4, <1>5, <1>6, <1>7 DEF HeartbeatInv

(* A nudge is recorded: the check is over. *)
LEMMA RecordNudgeKeeps ==
  ASSUME HeartbeatInv, NEW c \in Checkers, RecordNudge(c)
  PROVE  HeartbeatInv'
<1>0. /\ check[c].pc = "record" /\ check[c].verdict = "nudge" /\ check' = [Overtaken(c, {}) EXCEPT ![c] = Waiting]
      /\ spoke' = 0 /\ UNCHANGED <<signals, surfaced, acted, noted, raised>> /\ lost \subseteq lost'
  BY DEF RecordNudge, Written, Loses
<1>1. check[c] # Waiting /\ RecordTypes /\ CheckTypes /\ NudgeTypes /\ 0 \in Ages(Forever)
  <2>1. check[c].pc # "idle"
    BY <1>0
  <2>2. Forever \in Nat
    BY HeartbeatAssumption
  <2> QED
    BY <2>1, <2>2 DEF HeartbeatInv, Ages, Waiting
<1>2. PICK next : next = Overtaken(c, {})
  OBVIOUS
<1>3. /\ next \in [Checkers -> CheckRecords]
      /\ \A d \in Checkers : d # c =>
           /\ next[d].pc = check[d].pc
           /\ check[d] = Waiting => next[d] = Waiting
           /\ check[d] # Waiting =>
                /\ next[d].verdict = check[d].verdict /\ next[d].view = check[d].view
                /\ next[d].unread = check[d].unread
                /\ next[d].overlap = (check[d].overlap \/ check[d].pc \in {"topics", "record"})
                /\ next[d].missed = check[d].missed \cup (Work({}) \cap check[d].view)
  BY <1>1, <1>2, OvertakenIs
<1>4. /\ check' \in [Checkers -> CheckRecords] /\ check'[c] = Waiting
      /\ \A d \in Checkers : d # c => check'[d] = next[d]
  BY <1>0, <1>2, <1>3 DEF CheckRecords
<1>5. ASSUME NEW d \in Checkers PROVE CheckInv(check[d])'
  <2>1. CASE check'[d] = Waiting
    BY <2>1 DEF CheckInv, CooledSince, QuietSince, Waiting
  <2>2. CASE d # c /\ check[d] # Waiting
    <3>1. PICK x : x = next[d]
      OBVIOUS
    <3>2. /\ x.pc = check[d].pc /\ x.verdict = check[d].verdict /\ x.view = check[d].view
          /\ x.unread = check[d].unread
          /\ x.overlap = (check[d].overlap \/ check[d].pc \in {"topics", "record"})
          /\ x.missed = check[d].missed \cup (Work({}) \cap check[d].view)
      BY <1>3, <2>2, <3>1
    <3>3. CheckInv(check[d])
      BY DEF HeartbeatInv
    <3>4. CooledSince(x)'
      BY <3>2 DEF CooledSince
    <3>5. QuietSince(x)'
      BY <1>0, <3>2, <3>3 DEF CheckInv, QuietSince
    <3>6. CheckInv(x)'
      BY <3>2, <3>3, <3>4, <3>5 DEF CheckInv
    <3>7. check'[d] = x
      BY <1>4, <2>2, <3>1
    <3> QED
      BY <3>6, <3>7 DEF CheckInv, CooledSince, QuietSince
  <2> QED
    BY <1>3, <1>4, <2>1, <2>2
<1>6. ASSUME last' = [print |-> NoPrint, age |-> 0, nudge |-> TRUE], nudged' = << 0 >> \o nudged, Written
      PROVE  RecordTypes' /\ LastIsKnown' /\ NudgeTypes' /\ Len(nudged') = Len(nudged) + 1
  <2>1. last' \in [print : Views \cup {NoPrint}, age : Ages(Forever), nudge : BOOLEAN] /\ last'.age = 0
    BY <1>1, <1>6
  <2>2. RecordTypes' /\ LastIsKnown'
    BY <1>0, <1>1, <1>6, <2>1 DEF RecordTypes, LastIsKnown, Written
  <2> QED
    BY <1>1, <1>6, <2>2, OneNudgeMore DEF NudgeTypes
<1>7. ASSUME Loses("act"), UNCHANGED <<last, nudged>>
      PROVE  RecordTypes' /\ LastIsKnown' /\ NudgeTypes' /\ Len(nudged') = Len(nudged)
  <2>1. events' \in 0 .. MaxEvents /\ lost' = lost \cup {"act"}
    BY <1>1, <1>7, EventCounted DEF Loses
  <2> QED
    BY <1>0, <1>1, <1>7, <2>1 DEF RecordTypes, LastIsKnown, NudgeTypes
<1>8. RecordTypes' /\ LastIsKnown' /\ NudgeTypes' /\ Len(nudged') \in {Len(nudged), Len(nudged) + 1}
  BY <1>6, <1>7 DEF RecordNudge
<1>9. NudgeRoom'
  <2>1. Nudging' = Nudging \ {c} /\ c \in Nudging /\ Nudging \subseteq Checkers
    BY <1>0, <1>3, <1>4 DEF Nudging, Waiting
  <2>2. IsFiniteSet(Nudging)
    BY <2>1, HeartbeatAssumption, FS_Subset
  <2>3. Cardinality(Nudging') = Cardinality(Nudging) - 1 /\ Cardinality(Nudging) \in Nat
    BY <2>1, <2>2, FS_RemoveElement, FS_CardinalityType
  <2>4. Len(nudged) \in Nat /\ NudgesPerDay \in Nat /\ Cardinality(Checkers) \in Nat
    BY <1>1, HeartbeatAssumption, FS_CardinalityType DEF NudgeTypes
  <2> QED
    BY <1>8, <2>3, <2>4 DEF HeartbeatInv, NudgeRoom
<1>10. SurfacedIsKnown'
  <2> SUFFICES ASSUME "surfaced" \notin lost', NEW s \in Signals, Kind[s] = "pending_work"
               PROVE  surfaced'[s] <= raised'[s] \/ \E d \in Checkers : check'[d].pc = "surface" /\ s \in check'[d].view
    BY DEF SurfacedIsKnown
  <2>1. surfaced[s] <= raised[s] \/ \E d \in Checkers : check[d].pc = "surface" /\ s \in check[d].view
    BY <1>0 DEF HeartbeatInv, SurfacedIsKnown
  <2>2. ASSUME NEW d \in Checkers, check[d].pc = "surface", s \in check[d].view
        PROVE  check'[d].pc = "surface" /\ s \in check'[d].view
    BY <1>0, <1>3, <1>4, <2>2 DEF Waiting
  <2> QED
    BY <1>0, <2>1, <2>2
<1>11. SignalTypes'
  BY <1>0 DEF HeartbeatInv, SignalTypes, signals
<1> QED
  BY <1>4, <1>5, <1>8, <1>9, <1>10, <1>11 DEF HeartbeatInv, CheckTypes

-----------------------------------------------------------------------------

LEMMA HeartbeatInvKept == HeartbeatInv /\ [HeartbeatNext]_vars => HeartbeatInv'
<1> SUFFICES ASSUME HeartbeatInv, [HeartbeatNext]_vars PROVE HeartbeatInv'
  OBVIOUS
<1>1. ASSUME NEW c \in Checkers, Continue(c) PROVE HeartbeatInv'
  BY <1>1, DecideKeeps, EvaluateKeeps, CompareKeeps, NoteKeeps, RecordActKeeps, RecordNudgeKeeps, SurfaceKeeps
     DEF Continue
<1> QED
  BY <1>1, EnvironmentKeeps, TickKeeps, ScanKeeps DEF HeartbeatNext, Check

LEMMA HeartbeatInvHolds == HeartbeatSpec => []HeartbeatInv
BY HeartbeatInvStarts, HeartbeatInvKept, PTL DEF HeartbeatSpec

(* The types of the records and of the checks. *)
THEOREM HeartbeatTypes == HeartbeatSpec => []HeartbeatTypeOK
<1>1. HeartbeatInv => HeartbeatTypeOK
  <2> SUFFICES ASSUME HeartbeatInv PROVE HeartbeatTypeOK
    OBVIOUS
  <2>1. ASSUME NEW c \in Checkers
        PROVE  check[c].pc \in {"idle", "decide", "note", "topics", "nudge", "record", "surface"}
    <3>1. PICK r \in CheckRecords : r = check[c]
      BY DEF HeartbeatInv, CheckTypes
    <3>2. CASE r = Waiting
      BY <3>1, <3>2 DEF Waiting
    <3>3. CASE r # Waiting
      <4>1. r.pc \in {"decide", "note", "topics", "nudge", "record", "surface"}
        BY <3>3 DEF CheckRecords
      <4> QED
        BY <3>1, <4>1
    <3> QED
      BY <3>2, <3>3
  <2> QED
    BY <2>1 DEF HeartbeatInv, RecordTypes, SignalTypes, NudgeTypes, HeartbeatTypeOK
<1> QED
  BY <1>1, HeartbeatInvHolds, PTL

(* No more nudges in a day than the cap and one for every further checker
   (heartbeat_decide.go, evaluateNudge: GetNudgeCountToday is read before the nudge is
   recorded). *)
THEOREM NudgesAreCapped == HeartbeatSpec => []NudgesStayUnderTheCap
<1>1. HeartbeatInv => NudgesStayUnderTheCap
  <2> SUFFICES ASSUME HeartbeatInv PROVE NudgesStayUnderTheCap
    OBVIOUS
  <2>1. IsFiniteSet(Nudging)
    BY HeartbeatAssumption, FS_Subset DEF Nudging
  <2>2. Cardinality(Nudging) \in Nat /\ Cardinality(Checkers) \in Nat /\ Len(nudged) \in Nat /\ NudgesPerDay \in Nat
    BY <2>1, HeartbeatAssumption, FS_CardinalityType DEF HeartbeatInv, NudgeTypes
  <2> QED
    BY <2>2 DEF HeartbeatInv, NudgeRoom, NudgesStayUnderTheCap
<1> QED
  BY <1>1, HeartbeatInvHolds, PTL

(* A check that compared topics before it acts is a cooldown away from the act before,
   unless it overlapped with that, its record was lost or could not be read
   (heartbeat_decide.go, steps 7 and 11). *)
THEOREM ActsKeepTheirDistance == HeartbeatSpec => CooldownsHold
<1>1. HeartbeatInv =>
        [\A c \in Checkers :
           /\ ActsNow(c) /\ check[c].verdict = "topics"
           /\ ~check[c].overlap /\ "act" \notin lost /\ "last" \notin check[c].unread
           => CooledDown(spoke)]_vars
  BY DEF HeartbeatInv, CheckInv, CooledSince, ActsNow
<1> QED
  BY <1>1, HeartbeatInvHolds, PTL DEF CooldownsHold

(* No act speaks of pending work that an act within the hour has spoken of, unless their
   checks overlapped or the record of what was surfaced was lost or could not be read
   (heartbeat.go: "same memory won't resurface for 1h"). *)
THEOREM WorkIsRaisedOnce == HeartbeatSpec => WorkIsNotRaisedTwice
<1>1. HeartbeatInv =>
        [\A c \in Checkers :
           ActsNow(c) /\ "surfaced" \notin lost /\ "pending_work" \notin check[c].unread =>
             \A s \in check[c].view \ check[c].missed :
               Kind[s] = "pending_work" => raised[s] >= SurfaceFor]_vars
  BY DEF HeartbeatInv, CheckInv, QuietSince, ActsNow
<1> QED
  BY <1>1, HeartbeatInvHolds, PTL DEF WorkIsNotRaisedTwice

=============================================================================
