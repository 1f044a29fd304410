------------------------------ MODULE Schedules ------------------------------
(***************************************************************************)
(* Schedules: rows with a cron tag, the API that keeps them (keyoku.go:    *)
(* CreateSchedule, UpdateSchedule, CancelSchedule, ListScheduled and       *)
(* AcknowledgeSchedule) and the scan of a heartbeat check that reports the *)
(* due ones and acknowledges them (heartbeat.go, check 3).                 *)
(*                                                                         *)
(* A schedule is a row like any other, an active plan, and the requests    *)
(* about memories write it too: what is told may be taken for its          *)
(* completion, its correction or its end (engine_add.go).                  *)
(*                                                                         *)
(* One entity and one agent.  An id is the row's place in the order of     *)
(* created_at.  A content is a set of words.  The process stays up here.   *)
(***************************************************************************)
EXTENDS MemoryStore, ScheduleTimes

CONSTANTS
  Old,          \* the memories told before: the first ids
  Callers,      \* the requests and checks that may be under way at once
  Contents,     \* the contents of schedules
  NoTag,        \* the tag of a row that has no cron tag
  ScanLimit,    \* rows that a scan reads (maxResults * 5)
  ReportLimit,  \* schedules that a check reports (maxResults)
  PageLimit,    \* schedules that create and list read (100)
  MaxTime,      \* bound on the clock
  MaxRequests,  \* bound on the requests
  MaxFails      \* bound on the reads and writes that fail

ASSUME SchedulesAssumption ==
  /\ Ids \subseteq Nat /\ Old \subseteq Ids
  /\ NoTag \notin Tags
  /\ {ScanLimit, ReportLimit, PageLimit} \subseteq Nat \ {0}
  /\ {MaxTime, MaxRequests, MaxFails} \subseteq Nat
  /\ MaxTime < Horizon

VARIABLES
  tag,      \* the cron tag of each row
  text,     \* the content of each row
  lastRun,  \* last_accessed_at, or created_at
  now,
  surfaced, \* the rows surfaced under the agent's name within the last 30 minutes
  call,     \* what each caller has read and has still to do
  requests, fails,
  made,     \* history: rows that CreateSchedule wrote and nobody has edited or revived
  unseen,   \* history: the rows that the creation of a row did not find, or failed to archive
  ended,    \* history: rows that a request has cancelled, replaced, deleted, resolved or superseded
  fired     \* history: the last occurrence of each row that a check acknowledged

rows      == <<tag, text, lastRun>>
histories == <<made, unseen, ended, fired>>
vars      == <<storeVars, rows, now, surfaced, call, requests, fails, histories>>

IsActive(i) == state[i] = "active"
IsOnce(g)   == g # NoTag /\ g.type = "once"
IsDueRow(i) == tag[i] # NoTag /\ IsDue(tag[i], lastRun[i], now)
Scheduled(s) == {i \in Ids : state[i] = s /\ tag[i] # NoTag}

(* The first n of a set of rows, in the order of created_at. *)
FirstOf(S, n) == {i \in S : Cardinality({j \in S : j < i}) < n}

(* isScheduleContentMatch: one content is contained in the other. *)
IsScheduleContentMatch(a, b) == a \subseteq b \/ b \subseteq a

Idle == [pc |-> "idle"]

(* A database on which the memories in Old have been told, and may have decayed. *)
SchedulesInit ==
  /\ \E past \in [Old -> {"active", "stale"}] :
       state = [i \in Ids |-> IF i \in Old THEN past[i] ELSE "unborn"]
  /\ stamped = {} /\ dropped = {} /\ index = Old
  /\ file = {} /\ fileKind = "none" /\ phase = "open" /\ fileLags = (Old # {}) /\ lags = FALSE
  /\ tag = [i \in Ids |-> NoTag]
  /\ text \in [Ids -> Contents \cup {{}}]
  /\ \A i \in Ids : text[i] = {} <=> i \notin Old
  /\ lastRun = [i \in Ids |-> 0]
  /\ now = 0
  /\ surfaced = {}
  /\ call = [c \in Callers |-> Idle]
  /\ requests = 0 /\ fails = 0
  /\ made = {} /\ ended = {}
  /\ unseen = [i \in Ids |-> {}]
  /\ fired = [i \in Ids |-> 0]

-----------------------------------------------------------------------------
(* Shorthands for what a step does to its own call. *)
Goto(c, pc) == call' = [call EXCEPT ![c].pc = pc]
Finish(c)   == call' = [call EXCEPT ![c] = Idle]

(* A loop takes its rows in the order of created_at: the row, or the run of a
   row, that its turn has come to. *)
FirstRow(S) == CHOOSE i \in S : \A j \in S : i <= j
FirstRun(S) == CHOOSE r \in S : \A q \in S : r.id <= q.id
RowNow(c)   == FirstRow(call[c].rows)
RunNow(c)   == FirstRun(call[c].rows)

Starts(c) ==
  /\ call[c] = Idle
  /\ requests < MaxRequests
  /\ requests' = requests + 1

(* A write that fails changes nothing. *)
WriteFails ==
  /\ fails < MaxFails
  /\ fails' = fails + 1
  /\ UNCHANGED storeVars

NoRequest == UNCHANGED requests
NoFailure == UNCHANGED fails

NewRow(i) == i \in Ids /\ state[i] = "unborn" /\ \A j \in Ids : j < i => state[j] # "unborn"

-----------------------------------------------------------------------------
(* Requests of one statement.  The caller that makes one is not tracked: an Add
   writes several of them, with other writes in between, to rows that it has
   looked up some time before and writes by id, whatever became of them. *)
OneStatement == requests < MaxRequests /\ requests' = requests + 1

(* A memory is told; the LLM may give it a cron tag. *)
Tell(i, g, w) ==
  /\ OneStatement
  /\ NewRow(i)
  /\ CreateMemory(i)
  /\ tag' = [tag EXCEPT ![i] = g]
  /\ text' = [text EXCEPT ![i] = w]
  /\ lastRun' = [lastRun EXCEPT ![i] = now]
  /\ UNCHANGED <<now, surfaced, call, fails, histories>>

(* UpdateTags replaces all tags: a memory becomes a schedule, or stops being one. *)
UpdateTags(i, g) ==
  /\ OneStatement
  /\ Present(i)
  /\ tag' = [tag EXCEPT ![i] = g]
  /\ made' = made \ {i}
  /\ UNCHANGED <<storeVars, text, lastRun, now, surfaced, call, fails, unseen, ended, fired>>

(* What is told changes the text, and the tags where the LLM gives any: an
   update, or the merge of a near duplicate. *)
Edit(i, g, w) ==
  /\ OneStatement
  /\ Present(i)
  /\ tag' = [tag EXCEPT ![i] = g]
  /\ text' = [text EXCEPT ![i] = w]
  /\ made' = made \ {i}
  /\ UNCHANGED <<storeVars, lastRun, now, surfaced, call, fails, unseen, ended, fired>>

(* A client sets the state, to any. *)
SetState(i, s) ==
  /\ OneStatement
  /\ UpdateMemoryState(i, s)
  /\ made' = made \ {i}
  /\ UNCHANGED <<rows, now, surfaced, call, fails, unseen, ended, fired>>

(* A client or the LLM resolves the row, or autoResolveSuperseded takes what was told
   for its completion, because it is an active plan of a similar text: whether it
   has a cron tag is not asked. *)
Resolve(i) ==
  /\ OneStatement
  /\ ResolveMemory(i)
  /\ ended' = ended \cup {i}
  /\ UNCHANGED <<rows, now, surfaced, call, fails, made, unseen, fired>>

(* What is told contradicts the row, and is believed: ResolutionUseNew. *)
Supersede(i) ==
  /\ OneStatement
  /\ UpdateMemoryState(i, "archived")
  /\ ended' = ended \cup {i}
  /\ UNCHANGED <<rows, now, surfaced, call, fails, made, unseen, fired>>

(* The decay job: it leaves rows with a cron tag alone. *)
Decay(i) ==
  /\ OneStatement
  /\ IsActive(i)
  /\ tag[i] = NoTag
  /\ TransitionState(i, "stale")
  /\ UNCHANGED <<rows, now, surfaced, call, fails, histories>>

(* A search returns the row: UpdateAccessStats. *)
Search(i) ==
  /\ OneStatement
  /\ i \in index /\ state[i] \in Searchable
  /\ lastRun' = [lastRun EXCEPT ![i] = now]
  /\ UNCHANGED <<storeVars, tag, text, now, surfaced, call, fails, histories>>

(* UpdateSchedule makes the row active, whatever state it was in.  It and
   CancelSchedule read the row first, to see that it has a cron tag and to keep
   its other tags, which are not modelled. *)
UpdateSchedule(i, g, w) ==
  /\ OneStatement
  /\ Present(i)
  /\ tag[i] # NoTag
  /\ UpdateMemoryState(i, "active")
  /\ tag' = [tag EXCEPT ![i] = g]
  /\ text' = [text EXCEPT ![i] = w]
  /\ made' = made \ {i}
  /\ UNCHANGED <<lastRun, now, surfaced, call, fails, unseen, ended, fired>>

CancelSchedule(i) ==
  /\ OneStatement
  /\ Present(i)
  /\ tag[i] # NoTag
  /\ UpdateMemoryState(i, "archived")
  /\ ended' = ended \cup {i}
  /\ UNCHANGED <<rows, now, surfaced, call, fails, made, unseen, fired>>

(* A client or the LLM deletes the row. *)
Forget(i) ==
  /\ OneStatement
  /\ Present(i)
  /\ SoftDelete(i)
  /\ ended' = ended \cup {i}
  /\ UNCHANGED <<rows, now, surfaced, call, fails, made, unseen, fired>>

-----------------------------------------------------------------------------
(* CreateSchedule: read the active schedules, archive the matching ones one
   by one, embed the content, write the row.  When the read fails, it goes on
   as if there were none. *)
CreateRead(c, w, g, reads) ==
  /\ Starts(c)
  /\ LET page == IF reads THEN FirstOf(Scheduled("active"), PageLimit) ELSE {}
     IN call' = [call EXCEPT ![c] =
          [pc |-> "replace", text |-> w, tag |-> g, unseen |-> Ids \ page,
           rows |-> {i \in page : IsScheduleContentMatch(text[i], w)}]]
  /\ IF reads THEN NoFailure ELSE fails < MaxFails /\ fails' = fails + 1
  /\ UNCHANGED <<storeVars, rows, now, surfaced, histories>>

(* A slip: a schedule for another time is not taken for a duplicate. *)
CreateReplaceSameTime(c) ==
  /\ call[c].pc = "replace" /\ call[c].rows # {}
  /\ IF tag[RowNow(c)] = call[c].tag
     THEN UpdateMemoryState(RowNow(c), "archived") /\ ended' = ended \cup {RowNow(c)}
     ELSE UNCHANGED <<storeVars, ended>>
  /\ call' = [call EXCEPT ![c].rows = @ \ {RowNow(c)}]
  /\ UNCHANGED <<rows, now, surfaced, requests, fails, made, unseen, fired>>

(* The error of the archival is not looked at. *)
CreateReplace(c) ==
  /\ call[c].pc = "replace" /\ call[c].rows # {}
  /\ \/ /\ UpdateMemoryState(RowNow(c), "archived")
        /\ ended' = ended \cup {RowNow(c)}
        /\ call' = [call EXCEPT ![c].rows = @ \ {RowNow(c)}]
        /\ NoFailure
     \/ /\ WriteFails
        /\ call' = [call EXCEPT ![c].rows = @ \ {RowNow(c)}, ![c].unseen = @ \cup {RowNow(c)}]
        /\ UNCHANGED ended
  /\ UNCHANGED <<rows, now, surfaced, requests, made, unseen, fired>>

(* The embedder or the INSERT fails: what was archived stays archived. *)
CreateFails(c) ==
  /\ call[c].pc = "replace" /\ call[c].rows = {}
  /\ WriteFails
  /\ Finish(c)
  /\ UNCHANGED <<rows, now, surfaced, requests, histories>>

CreateWrite(c, i) ==
  /\ call[c].pc = "replace" /\ call[c].rows = {}
  /\ NewRow(i)
  /\ CreateMemory(i)
  /\ tag' = [tag EXCEPT ![i] = call[c].tag]
  /\ text' = [text EXCEPT ![i] = call[c].text]
  /\ lastRun' = [lastRun EXCEPT ![i] = now]
  /\ made' = made \cup {i}
  /\ unseen' = [unseen EXCEPT ![i] = call[c].unseen]
  /\ Finish(c)
  /\ UNCHANGED <<now, surfaced, requests, fails, ended, fired>>

(* ListScheduled: the stale schedules are set back to active one by one. *)
ListRead(c) ==
  /\ Starts(c)
  /\ call' = [call EXCEPT ![c] =
       [pc |-> "recover", rows |-> FirstOf(Scheduled("stale"), PageLimit)]]
  /\ UNCHANGED <<storeVars, rows, now, surfaced, fails, histories>>

ListRecover(c) ==
  /\ call[c].pc = "recover" /\ call[c].rows # {}
  /\ \/ UpdateMemoryState(RowNow(c), "active") /\ NoFailure
     \/ WriteFails
  /\ call' = [call EXCEPT ![c].rows = @ \ {RowNow(c)}]
  /\ made' = made \ {RowNow(c)}
  /\ UNCHANGED <<rows, now, surfaced, requests, unseen, ended, fired>>

ListDone(c) ==
  /\ call[c].pc = "recover" /\ call[c].rows = {}
  /\ Finish(c)
  /\ UNCHANGED <<storeVars, rows, now, surfaced, requests, fails, histories>>

-----------------------------------------------------------------------------
(* AcknowledgeSchedule(i), asked for by a client. *)
AckRequest(c, i) ==
  /\ Starts(c)
  /\ Present(i)
  /\ call' = [call EXCEPT ![c] = [pc |-> "ack", by |-> "client", report |-> {i},
                                  rows |-> {[id |-> i, tag |-> NoTag, occ |-> 0]}]]
  /\ UNCHANGED <<storeVars, rows, now, surfaced, fails, histories>>

(* The scan of a check.  The rows read are the entity's first active ones,
   scheduled or not.  The rows surfaced lately are looked up under the agent's
   name; a check without a name finds none, for its own are recorded under
   "default".  A check that finds no schedule due changes nothing here. *)
CheckScan(c, by, named) ==
  /\ call[c] = Idle
  /\ LET page == FirstOf({i \in Ids : IsActive(i)}, ScanLimit)
         due  == {i \in page : IsDueRow(i) /\ ~(named /\ i \in surfaced)}
         read == FirstOf(due, ReportLimit)
     IN call' = IF read = {} THEN call ELSE [call EXCEPT ![c] =
          [pc |-> IF by = "check" THEN "ack" ELSE "decide", by |-> by, named |-> named, report |-> read,
           rows |-> {[id |-> i, tag |-> tag[i], occ |-> NextRun(tag[i], lastRun[i])] : i \in read}]]
  /\ UNCHANGED <<storeVars, rows, now, surfaced, requests, fails, histories>>

(* The next row of a loop of acknowledgements, or what follows the loop. *)
NextAck(c) ==
  LET left == call[c].rows \ {RunNow(c)}
  IN call' = [call EXCEPT ![c] =
       IF left # {} THEN [call[c] EXCEPT !.pc = "ack", !.rows = left]
       ELSE IF call[c].by = "client" THEN Idle
       ELSE [call[c] EXCEPT !.pc = "decide", !.rows = {}]]

(* After AcknowledgeSchedule, whose error a check drops: the second archival,
   of what the scan has read as a one-shot. *)
AfterAck(c) ==
  IF call[c].by = "check" /\ IsOnce(RunNow(c).tag) THEN Goto(c, "again") ELSE NextAck(c)

(* A slip: only a one-shot is marked as run. *)
AckStatsOfOneShots(c) ==
  LET i == RunNow(c).id
  IN /\ call[c].pc = "ack"
     /\ Present(i) /\ tag[i] # NoTag
     /\ lastRun' = IF IsOnce(tag[i]) THEN [lastRun EXCEPT ![i] = now] ELSE lastRun
     /\ fired' = [fired EXCEPT ![i] = IF RunNow(c).occ > @ THEN RunNow(c).occ ELSE @]
     /\ IF IsOnce(tag[i]) THEN Goto(c, "archive") ELSE AfterAck(c)
     /\ UNCHANGED <<storeVars, tag, text, now, surfaced, requests, fails, made, unseen, ended>>

(* A slip: every schedule is archived once it has run. *)
AckStatsAlwaysArchives(c) ==
  LET i == RunNow(c).id
  IN /\ call[c].pc = "ack"
     /\ Present(i) /\ tag[i] # NoTag
     /\ lastRun' = [lastRun EXCEPT ![i] = now]
     /\ fired' = [fired EXCEPT ![i] = IF RunNow(c).occ > @ THEN RunNow(c).occ ELSE @]
     /\ Goto(c, "archive")
     /\ UNCHANGED <<storeVars, tag, text, now, surfaced, requests, fails, made, unseen, ended>>

(* GetMemory and UpdateAccessStats. *)
AckStats(c) ==
  LET i == RunNow(c).id
  IN /\ call[c].pc = "ack"
     /\ \/ /\ Present(i) /\ tag[i] # NoTag
           /\ lastRun' = [lastRun EXCEPT ![i] = now]
           /\ fired' = [fired EXCEPT ![i] = IF RunNow(c).occ > @ THEN RunNow(c).occ ELSE @]
           /\ IF IsOnce(tag[i]) THEN Goto(c, "archive") ELSE AfterAck(c)
           /\ UNCHANGED storeVars /\ NoFailure
        \/ /\ ~Present(i) \/ tag[i] = NoTag
           /\ AfterAck(c)
           /\ UNCHANGED <<storeVars, lastRun, fired>> /\ NoFailure
        \/ /\ WriteFails
           /\ AfterAck(c)
           /\ UNCHANGED <<lastRun, fired>>
     /\ UNCHANGED <<tag, text, now, surfaced, requests, made, unseen, ended>>

(* The one-shot that AcknowledgeSchedule has read is archived. *)
AckArchive(c) ==
  /\ call[c].pc = "archive"
  /\ \/ UpdateMemoryState(RunNow(c).id, "archived") /\ NoFailure
     \/ ~Present(RunNow(c).id) /\ UNCHANGED storeVars /\ NoFailure
     \/ WriteFails
  /\ AfterAck(c)
  /\ UNCHANGED <<rows, now, surfaced, requests, histories>>

(* And so is the one that the scan has read. *)
ArchiveAgain(c) ==
  /\ call[c].pc = "again"
  /\ \/ UpdateMemoryState(RunNow(c).id, "archived") /\ NoFailure
     \/ ~Present(RunNow(c).id) /\ UNCHANGED storeVars /\ NoFailure
     \/ WriteFails
  /\ NextAck(c)
  /\ UNCHANGED <<rows, now, surfaced, requests, histories>>

(* The decision: the check acts, and the rows count as surfaced, or it is
   suppressed. *)
CheckDecide(c, acts) ==
  /\ call[c].pc = "decide"
  /\ surfaced' = IF acts /\ call[c].named THEN surfaced \cup call[c].report ELSE surfaced
  /\ Finish(c)
  /\ UNCHANGED <<storeVars, rows, now, requests, fails, histories>>

-----------------------------------------------------------------------------
(* A slot is longer than the 30 minutes of the surfacing filter. *)
Tick ==
  /\ now < MaxTime
  /\ now' = now + 1
  /\ surfaced' = {}
  /\ UNCHANGED <<storeVars, rows, call, requests, fails, histories>>

(* Half an hour goes by within the slot. *)
SurfacingExpires ==
  /\ surfaced # {}
  /\ surfaced' = {}
  /\ UNCHANGED <<storeVars, rows, now, call, requests, fails, histories>>

Api ==
  \/ \E i \in Ids, g \in Tags \cup {NoTag}, w \in Contents : Tell(i, g, w) \/ Edit(i, g, w)
  \/ \E i \in Ids : Decay(i) \/ Search(i) \/ CancelSchedule(i) \/ Forget(i) \/ Resolve(i) \/ Supersede(i)
  \/ \E i \in Ids, s \in RowStates : SetState(i, s)
  \/ \E i \in Ids, g \in Tags \cup {NoTag} : UpdateTags(i, g)
  \/ \E i \in Ids, g \in Tags, w \in Contents : UpdateSchedule(i, g, w)

Begin(c) ==
  \/ \E w \in Contents, g \in Tags, reads \in BOOLEAN : CreateRead(c, w, g, reads)
  \/ ListRead(c)
  \/ \E i \in Ids : AckRequest(c, i)

(* A deferred check, which acknowledges nothing, is one that a request asks for. *)
Scan(c) == \E by \in {"check", "deferred"}, named \in BOOLEAN : CheckScan(c, by, named)

Continue(c) ==
  \/ CreateReplace(c)
  \/ CreateFails(c)
  \/ \E i \in Ids : CreateWrite(c, i)
  \/ ListRecover(c)
  \/ ListDone(c)
  \/ AckStats(c)
  \/ AckArchive(c)
  \/ ArchiveAgain(c)
  \/ \E acts \in BOOLEAN : CheckDecide(c, acts)

SchedulesNext ==
  \/ Api
  \/ \E c \in Callers : Begin(c) \/ Scan(c) \/ Continue(c)
  \/ Tick
  \/ SurfacingExpires

SchedulesSpec == SchedulesInit /\ [][SchedulesNext]_vars

(* Calls end, half hours go by, and the watcher checks again and again, with the
   defaults: strong fairness, for it takes any caller that is free. *)
Fairness ==
  /\ \A c \in Callers : WF_vars(Continue(c))
  /\ SF_vars(\E c \in Callers : CheckScan(c, "check", TRUE))
  /\ WF_vars(SurfacingExpires)

FairSchedulesSpec == SchedulesSpec /\ Fairness

-----------------------------------------------------------------------------
(* Properties. *)

SchedulesTypeOK ==
  /\ StoreTypeOK
  /\ tag \in [Ids -> Tags \cup {NoTag}]
  /\ text \in [Ids -> Contents \cup {{}}]
  /\ lastRun \in [Ids -> 0 .. now]
  /\ now \in 0 .. MaxTime
  /\ surfaced \subseteq Ids
  /\ \A c \in Callers : call[c].pc \in {"idle", "replace", "recover", "ack", "archive", "again", "decide"}

(* Of two active schedules that were created through the API and left alone
   since, with contents that match, the later was created by a call that had
   not found the earlier (it was not there yet, it lay beyond the page, or its
   reading or archival failed): CreateSchedule replaces every matching schedule
   that it reads, and nothing brings a replaced one back (keyoku.go:
   CreateSchedule, "Duplicate detection"). *)
DuplicateSchedulesNeedAnOverlap ==
  \A i, j \in made :
    i < j /\ IsActive(i) /\ IsActive(j) /\ IsScheduleContentMatch(text[i], text[j])
      => i \in unseen[j]

(* A recurring schedule that nobody has edited is active until a request ends it,
   and is not active after.  The requests that end one are a cancellation, a
   deletion, a resolution, a creation that takes it for a duplicate (though it
   may fail before it writes its own row), and a memory told that is taken for
   its completion or its correction.  Neither its runs, in checks and
   acknowledgements that overlap with anything, nor decay end it; neither a list
   that recovers stale schedules nor an acknowledgement still under way brings
   it back. *)
OnlyRequestsEndARecurringSchedule ==
  \A i \in made : ~IsOnce(tag[i]) => (IsActive(i) <=> i \notin ended)

(* What decay and consolidation see to, and Add does not: a recurring schedule is
   no plan that something told completes.  TLC refutes it. *)
RecurringSchedulesAreNotResolved ==
  \A i \in made : ~IsOnce(tag[i]) => state[i] # "resolved"

(* A check never reports an occurrence of a schedule that an earlier check has
   reported and acknowledged, nor an earlier one, whatever edits, searches and
   client acknowledgements come between (heartbeat.go, "so the task doesn't
   re-fire until the next scheduled interval"). *)
OccurrencesAreReportedOnce ==
  [][\A c \in Callers :
       call[c] = Idle /\ call'[c] # Idle /\ call'[c].pc \in {"ack", "decide"} =>
         \A r \in call'[c].rows : r.occ # 0 => r.occ > fired[r.id]]_vars

IsReported(i) == \E c \in Callers : call[c].pc \in {"ack", "archive", "again", "decide"}
                                   /\ call[c].by # "client" /\ i \in call[c].report

(* What ScheduleDiagnostic says of an active schedule that is due: it is "waiting
   for next heartbeat cycle to surface". *)
DueSchedulesAreReported ==
  \A i \in Ids : IsActive(i) /\ IsDueRow(i)
                ~> IsReported(i) \/ ~(IsActive(i) /\ IsDueRow(i))

(* What the comment of AcknowledgeSchedule says: a one-shot reminder is consumed
   only when it is acknowledged.  One that is due stays due until an
   acknowledgement, an edit or its end. *)
OneShotsWaitForAcknowledgement ==
  [][\A i \in Ids :
       (IsActive(i) /\ IsOnce(tag[i]) /\ IsDueRow(i)) =>
         \/ IsDueRow(i)'
         \/ tag'[i] # tag[i] \/ state'[i] # state[i]
         \/ \E c \in Callers : call[c].pc = "ack" /\ RunNow(c).id = i]_vars
=============================================================================
