------------------------------- MODULE Heartbeat -------------------------------
(***************************************************************************)
(* Heartbeat checks of one entity and agent: the watcher's and those that  *)
(* clients ask for, side by side.  Each scans for signals, decides from    *)
(* the record of earlier decisions, and records its own.                   *)
(*                                                                         *)
(* Time is kept as the age of each record, clipped where it stops to       *)
(* matter.  The entity has five memories at least, else every check acts.  *)
(***************************************************************************)
EXTENDS HeartbeatDecision, Sequences, SequencesExt

CONSTANTS
  Checkers,      \* who checks
  Thresholds,    \* for confluence: those of the autonomies that checks are made with
  Periods,       \* the hours of the day that checks meet
  Rhythms,       \* whether the user is typically active then
  Penalties,     \* the multiplier for users that do not respond, in halves: 2 .. 4
  PluginTalks,   \* whether a client says that a conversation is on
  UserSpeaks,    \* whether the user writes messages
  TopicWindow,   \* the window of the topic check (the normal cooldown)
  SurfaceFor,    \* how long a surfaced memory is filtered (an hour)
  NudgeAfter, NudgeMax, NudgesPerDay, Day,  \* the nudge protocol
  Forever,       \* bound: an age that no rule tells from a greater one
  MaxEvents      \* bound on changes of the signals, messages, overlapping checks,
                 \* reads that fail and records that fail to be written

ASSUME HeartbeatAssumption ==
  /\ {TopicWindow, SurfaceFor, NudgeAfter, NudgeMax, NudgesPerDay, Day, Forever, MaxEvents} \subseteq Nat
  /\ TopicWindow > 0 /\ SurfaceFor > 0 /\ Forever > 0 /\ Day > 0
  /\ IsFiniteSet(Checkers)
  /\ Penalties \subseteq 2 .. 4 /\ Thresholds \subseteq Nat
  /\ Rhythms \subseteq BOOLEAN /\ PluginTalks \subseteq BOOLEAN /\ UserSpeaks \in BOOLEAN
  /\ Periods \subseteq {"morning", "working", "evening", "late_night", "quiet"}
  /\ \A period \in Periods, penalty \in Penalties, tier \in {"normal", "elevated"} :
       ~Cools(Forever, Rank(tier), period, penalty)
  /\ Forever >= 2 * CooldownNormal /\ Forever >= StaleImmediate
  /\ \A penalty \in Penalties : 2 * Forever >= NudgeMax * penalty

Views == SUBSET Signals
LongSilence == Max({NudgeAfter, 1})
NoAct == [print |-> NoPrint, age |-> Forever, nudge |-> FALSE]

VARIABLES
  present,    \* the signals that a scan would find
  fresh,      \* those from memories of the last half hour
  critical,   \* deadlines of the next hour, and overdue ones
  silence,    \* the age of the user's last message
  surfaced,   \* the age of each signal's last row in surfaced_memories
  last,       \* the last act: its print, its age, and whether it was a nudge
  acted,      \* the age of the last act on each view, with a print and without
  noted,      \* the age of the last suppression recorded with each print
  nudged,     \* the ages of the nudges of the last day
  check,      \* what each checker is at
  lost,       \* history: what records failed to be written
  events,     \* how many of the things that MaxEvents bounds have happened
  raised,     \* history: the age of the last act that each signal was part of,
  spoke       \* and that of the last act or nudge, recorded or not

record  == <<surfaced, last, acted, noted, nudged>>
signals == <<present, fresh, critical, silence>>
vars    == <<signals, events, record, check, lost, raised, spoke>>

Waiting == [pc |-> "idle"]

HeartbeatInit ==
  /\ present \in Views /\ fresh \in SUBSET present /\ critical = {}
  /\ events = 0
  /\ silence = LongSilence
  /\ surfaced = [s \in Signals |-> SurfaceFor]
  /\ last = NoAct
  /\ acted = [v \in Views \X BOOLEAN |-> TopicWindow]
  /\ noted = [v \in Views |-> 2 * TopicWindow]
  /\ nudged = <<>>
  /\ check = [c \in Checkers |-> Waiting]
  /\ lost = {}
  /\ raised = [s \in Signals |-> SurfaceFor]
  /\ spoke = Forever

-----------------------------------------------------------------------------
(* The signals come and go: memories are stored, edited, resolved, expire. *)
Counts == events < MaxEvents /\ events' = events + 1

Happens ==
  /\ Counts
  /\ UNCHANGED <<record, check, lost, raised, spoke>>

Appear(s) ==
  /\ s \notin present
  /\ present' = present \cup {s}
  /\ fresh' \in {fresh, fresh \cup {s}}
  /\ UNCHANGED <<critical, silence>>
  /\ Happens

Vanish(s) ==
  /\ s \in present
  /\ present' = present \ {s} /\ fresh' = fresh \ {s} /\ critical' = critical \ {s}
  /\ UNCHANGED silence
  /\ Happens

GetsOld(s) ==
  /\ s \in fresh
  /\ fresh' = fresh \ {s}
  /\ UNCHANGED <<present, critical, silence>>
  /\ Happens

(* Less than an hour is left; an overdue deadline counts the same. *)
GetsCritical(s) ==
  /\ s \in present \ critical
  /\ Kind[s] = "deadlines"
  /\ critical' = critical \cup {s}
  /\ UNCHANGED <<present, fresh, silence>>
  /\ Happens

UserMessage ==
  /\ UserSpeaks /\ silence > 0
  /\ silence' = 0
  /\ UNCHANGED <<present, fresh, critical>>
  /\ Happens

Older(age, bound) == IF age < bound THEN age + 1 ELSE bound

(* GetNudgeCountToday: the latest nudge comes first. *)
DaysNudges(ages) == SubSeq(ages, 1, Cardinality({k \in DOMAIN ages : ages[k] < Day}))

Tick ==
  /\ silence' = Older(silence, LongSilence)
  /\ surfaced' = [s \in Signals |-> Older(surfaced[s], SurfaceFor)]
  /\ last' = [last EXCEPT !.age = Older(@, Forever)]
  /\ acted' = [v \in Views \X BOOLEAN |-> Older(acted[v], TopicWindow)]
  /\ noted' = [v \in Views |-> Older(noted[v], 2 * TopicWindow)]
  /\ nudged' = DaysNudges([k \in DOMAIN nudged |-> nudged[k] + 1])
  /\ raised' = [s \in Signals |-> Older(raised[s], SurfaceFor)]
  /\ spoke' = Older(spoke, Forever)
  /\ UNCHANGED <<present, fresh, critical, events, check, lost>>

-----------------------------------------------------------------------------
(* Every error of these writes is dropped. *)
Written     == UNCHANGED <<lost, events>>
Loses(what) == Counts /\ lost' = lost \cup {what}

(* A read that fails finds nothing, and the check goes on. *)
Reads(unread) == IF unread = {} THEN UNCHANGED events ELSE Counts

Goto(c, pc)  == check' = [check EXCEPT ![c].pc = pc]
Finish(c)    == check' = [check EXCEPT ![c] = Waiting]

(* A check of its own: for the properties it keeps which of the two records they rest
   on it could not read (unread), whether another has acted since it read the last act
   (overlap), and which of its pending work others raised, or were about to count as
   surfaced, since its scan (missed). *)
Work(view) == OfKind(view, "pending_work")

(* Each kind that is filtered has a read of its own. *)
Scan(c, unread) ==
  /\ check[c] = Waiting
  /\ IF unread = {} /\ \A d \in Checkers : check[d] = Waiting THEN UNCHANGED events ELSE Counts
  /\ LET recent == {s \in Signals : surfaced[s] < SurfaceFor /\ Kind[s] \notin unread}
         view   == FilterSurfaced(present, recent)
     IN check' = [check EXCEPT ![c] =
          [pc |-> "decide", view |-> view, fresh |-> view \cap fresh,
           critical |-> view \cap critical # {}, verdict |-> "none", unread |-> unread \cap {"pending_work"},
           overlap |-> FALSE,
           missed |-> Work(view) \cap UNION {check[d].view : d \in {e \in Checkers : check[e].pc = "surface"}}]]
  /\ UNCHANGED <<signals, record, lost, raised, spoke>>

(* evaluateShouldAct, with the last act as it is now.  In the first unit of time
   after a message the conversation is on. *)
Decide(c, threshold, period, typical, talks, penalty, unread) ==
  /\ check[c].pc = "decide" /\ Reads(unread)
  /\ LET verdict == Verdict([view |-> check[c].view, fresh |-> check[c].fresh,
                             critical |-> check[c].critical, threshold |-> threshold,
                             period |-> period, typical |-> typical,
                             talking |-> talks \/ (silence = 0 /\ "messages" \notin unread),
                             penalty |-> penalty,
                             last |-> IF "last" \in unread THEN NoAct ELSE last])
         next(pc, v) == [check[c] EXCEPT !.pc = pc, !.verdict = v, !.fresh = {}, !.critical = FALSE,
                                         !.unread = @ \cup (unread \cap {"last"})]
     IN check' = [check EXCEPT ![c] =
          CASE verdict \in {"topics", "nudge"}      -> next(verdict, verdict)
            [] verdict = "act_deadline_critical"    -> next("record", verdict)
            [] verdict \in {"act", "act_confluence"} -> next("record", "act")
            [] verdict \in Noted                    -> [next("note", "none") EXCEPT !.missed = {}]
            [] OTHER                                -> Waiting]
  /\ UNCHANGED <<signals, record, lost, raised, spoke>>

(* shouldSuppressTopicRepeat: the same summary was acted on (layer 1); the same
   topics were, with this print or with none (2); or the print was suppressed (3). *)
SameSummary(v, view) == v = view /\ ~IsRestless(v)
SameTopics(v, printed, view) ==
  /\ Topics(view) # {} /\ Topics(view) \subseteq Topics(v)
  /\ printed => Fingerprint(v) = Fingerprint(view)

IsTopicRepeat(view, unread) ==
  \/ /\ "acts" \notin unread
     /\ \E v \in Views, printed \in BOOLEAN :
          acted[<<v, printed>>] < TopicWindow /\ (SameSummary(v, view) \/ SameTopics(v, printed, view))
  \/ "decisions" \notin unread /\ noted[Fingerprint(view)] < 2 * TopicWindow

CompareTopics(c, unread) ==
  /\ check[c].pc = "topics" /\ Reads(unread)
  /\ Goto(c, IF IsTopicRepeat(check[c].view, unread) THEN "note" ELSE "record")
  /\ UNCHANGED <<signals, record, lost, raised, spoke>>

(* recordDecision of a suppression. *)
Note(c) ==
  /\ check[c].pc = "note"
  /\ \/ noted' = [noted EXCEPT ![Fingerprint(check[c].view)] = 0] /\ Written
     \/ Loses("suppression") /\ UNCHANGED noted
  /\ Finish(c)
  /\ UNCHANGED <<signals, surfaced, last, acted, nudged, raised, spoke>>

(* evaluateNudge: the backoff looks at the last act, and only if that was a nudge. *)
Backoff(penalty) ==
  LET n == Len(nudged)
      interval == IF n = 0 THEN NudgeAfter ELSE Min({NudgeAfter * 2 ^ n, NudgeMax})
  IN last.nudge /\ last.age * 2 < interval * penalty

(* Slip: one nudge too many. *)
MayNudgeAgainSlip == NudgesPerDay > 0 => Len(nudged) <= NudgesPerDay

(* The cap of the day; zero is no cap. *)
MayNudgeAgain == NudgesPerDay > 0 => Len(nudged) < NudgesPerDay

EvaluateNudge(c, period, penalty, content, unread) ==
  /\ check[c].pc = "nudge" /\ Reads(unread)
  /\ IF /\ NudgeAfter > 0
        /\ silence >= NudgeAfter
        /\ MayNudgeAgain
        /\ "last" \in unread \/ ~Backoff(penalty)
        /\ MinTier(period) = "low"
        /\ content
     THEN check' = [check EXCEPT ![c].pc = "record"]
     ELSE Finish(c)
  /\ UNCHANGED <<signals, record, lost, raised, spoke>>

(* The other checks have scanned, or read the last act, without this one. *)
Overtaken(c, view) ==
  [d \in Checkers |->
     IF d = c THEN [check[c] EXCEPT !.pc = "surface", !.verdict = "none", !.unread = {},
                                    !.overlap = FALSE, !.missed = {}]
     ELSE IF check[d] = Waiting THEN Waiting
     ELSE [check[d] EXCEPT !.overlap = (@ \/ check[d].pc \in {"topics", "record"}),
                           !.missed = @ \cup (Work(view) \cap check[d].view)]]

(* recordDecisionFull.  A critical deadline acts before
   there is a fingerprint. *)
RecordAct(c) ==
  /\ check[c].pc = "record" /\ check[c].verdict # "nudge"
  /\ LET view    == check[c].view
         printed == check[c].verdict # "act_deadline_critical"
     IN \/ /\ last' = [print |-> IF printed THEN Fingerprint(view) ELSE NoPrint, age |-> 0, nudge |-> FALSE]
           /\ acted' = [acted EXCEPT ![<<view, printed>>] = 0]
           /\ Written
        \/ Loses("act") /\ UNCHANGED <<last, acted>>
  /\ check' = Overtaken(c, check[c].view)
  /\ raised' = [s \in Signals |-> IF s \in check[c].view THEN 0 ELSE raised[s]]
  /\ spoke' = 0
  /\ UNCHANGED <<signals, surfaced, noted, nudged>>

(* Slip: a nudge is not the last act. *)
RecordNudgeAside(c) ==
  /\ check[c].pc = "record" /\ check[c].verdict = "nudge"
  /\ nudged' = <<0>> \o nudged
  /\ check' = [Overtaken(c, {}) EXCEPT ![c] = Waiting]
  /\ spoke' = 0
  /\ UNCHANGED <<signals, surfaced, last, acted, noted, events, lost, raised>>

RecordNudge(c) ==
  /\ check[c].pc = "record" /\ check[c].verdict = "nudge"
  /\ \/ /\ last' = [print |-> NoPrint, age |-> 0, nudge |-> TRUE]
        /\ nudged' = <<0>> \o nudged
        /\ Written
     \/ Loses("act") /\ UNCHANGED <<last, nudged>>
  /\ check' = [Overtaken(c, {}) EXCEPT ![c] = Waiting]
  /\ spoke' = 0
  /\ UNCHANGED <<signals, surfaced, acted, noted, raised>>

(* RecordSurfacedMemories; then the check returns and is delivered. *)
Surface(c) ==
  /\ check[c].pc = "surface"
  /\ \/ /\ surfaced' = [s \in Signals |-> IF s \in Surfacing(check[c].view) THEN 0 ELSE surfaced[s]]
        /\ Written
     \/ Loses("surfaced") /\ UNCHANGED surfaced
  /\ Finish(c)
  /\ UNCHANGED <<signals, last, acted, noted, nudged, raised, spoke>>

Continue(c) ==
  \/ \E threshold \in Thresholds, period \in Periods, typical \in Rhythms,
        talks \in PluginTalks, penalty \in Penalties, unread \in SUBSET {"last", "messages"} :
       Decide(c, threshold, period, typical, talks, penalty, unread)
  \/ \E period \in Periods, penalty \in Penalties, content \in BOOLEAN, unread \in SUBSET {"last"} :
       EvaluateNudge(c, period, penalty, content, unread)
  \/ \E unread \in SUBSET {"acts", "decisions"} : CompareTopics(c, unread)
  \/ Note(c)
  \/ RecordAct(c)
  \/ RecordNudge(c)
  \/ Surface(c)

Environment ==
  \/ \E s \in Signals : Appear(s) \/ Vanish(s) \/ GetsOld(s) \/ GetsCritical(s)
  \/ UserMessage

Check == \E c \in Checkers :
  \/ \E unread \in SUBSET {"pending_work", "deadlines"} : Scan(c, unread)
  \/ Continue(c)

HeartbeatNext ==
  \/ Environment
  \/ Tick
  \/ Check

HeartbeatSpec == HeartbeatInit /\ [][HeartbeatNext]_vars

(* Time goes by, and checks are made again and again and go on, though not every
   checker need be heard of: weak fairness of Check, which is always enabled and alone
   in changing check. *)
FairHeartbeatSpec == HeartbeatSpec /\ WF_vars(Tick) /\ []<><<TRUE>>_check

-----------------------------------------------------------------------------
(* Properties. *)

Ages(bound) == 0 .. bound

HeartbeatTypeOK ==
  /\ fresh \subseteq present /\ critical \subseteq present /\ present \subseteq Signals
  /\ silence \in Ages(LongSilence)
  /\ {surfaced, raised} \subseteq [Signals -> Ages(SurfaceFor)]
  /\ last \in [print : Views \cup {NoPrint}, age : Ages(Forever), nudge : BOOLEAN]
  /\ acted \in [Views \X BOOLEAN -> Ages(TopicWindow)]
  /\ noted \in [Views -> Ages(2 * TopicWindow)]
  /\ nudged \in Seq(0 .. Day - 1)
  /\ \A c \in Checkers : check[c].pc \in {"idle", "decide", "note", "topics", "nudge", "record", "surface"}
  /\ spoke \in Ages(Forever)
  /\ lost \subseteq {"act", "suppression", "surfaced"} /\ events \in 0 .. MaxEvents

ActsNow(c) == check[c].pc = "record" /\ check'[c].pc = "surface"

(* Half the shorter of the two cooldowns, which is what is left of it in the morning. *)
CooledDown(age) == age * 2 >= CooldownElevated \/ age * 2 >= CooldownNormal

(* An act that went through the cooldown is a cooldown away from the act before
   it, a nudge included, unless the two checks overlapped, the record of an act was
   lost, or the check failed to read the last act, which it takes for none: the
   shortest cooldown there is, for a client sets both (heartbeat_decide.go, steps 7
   and 11: the last act is read once, and the new one written after). *)
CooldownsHold ==
  [][\A c \in Checkers :
       /\ ActsNow(c) /\ check[c].verdict = "topics"
       /\ ~check[c].overlap /\ "act" \notin lost /\ "last" \notin check[c].unread
       => CooledDown(spoke)]_vars

(* Whatever the reason of an act, confluence and critical deadlines included: it
   speaks of no pending work that an act within the hour has spoken of, but for
   acts of checks that overlapped with its scan, and unless the record of what was
   surfaced was lost or this check failed to read it (heartbeat.go, "same memory
   won't resurface for 1h"; filterSurfacedMemoriesStrict). *)
WorkIsNotRaisedTwice ==
  [][\A c \in Checkers :
       ActsNow(c) /\ "surfaced" \notin lost /\ "pending_work" \notin check[c].unread =>
         \A s \in check[c].view \ check[c].missed :
           Kind[s] = "pending_work" => raised[s] >= SurfaceFor]_vars

(* Checks that overlap can each send the last nudge of the day: no more than one
   nudge for every further checker goes over the cap (GetNudgeCountToday). *)
NudgesStayUnderTheCap ==
  NudgesPerDay > 0 => Len(nudged) <= NudgesPerDay + Cardinality(Checkers) - 1

(* A deadline that stays is in the end part of an act, at any hour, in any rhythm
   and during conversations: immediate signals are not starved by the filter of
   surfaced memories, by the stale rule, or by what else is there. *)
Raises(c, s) == check[c].pc = "surface" /\ s \in check[c].view
DeadlinesGetThrough ==
  \A s \in Signals : Kind[s] = "deadlines" =>
    (s \in present ~> s \notin present \/ \E c \in Checkers : Raises(c, s))

(* What the comment on the stale escape says, "enough time has passed": a signal
   that stays is part of an act again and again, in hours in which nothing else
   keeps the check from it. *)
SignalsThatStayAreRaised ==
  \A s \in Signals : s \in present ~> s \notin present \/ \E c \in Checkers : Raises(c, s)
=============================================================================
