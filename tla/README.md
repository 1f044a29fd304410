# TLA+ models of keyoku-engine

keyoku-engine keeps memories for AI agents: an LLM extracts facts from messages,
SQLite stores them, an in-process HNSW index finds them by similarity, background
jobs let them decay, and a watcher tells an agent when one of them calls for
action.  This directory holds models of the parts whose behaviour depends on the
order of steps, the TLC runs that check them, and TLAPS proofs of the results that
matter most.  `src/` below is the root of the repository.

## 1. Inventory

### The system's parts

| Part | State | Operations | Modelled by |
|---|---|---|---|
| Store (`storage/sqlite*.go`, `vectorindex/`) | `memories` rows; the HNSW index in memory; `<db>.hnsw` on disk; `s.mu` serialises writes | create, update, delete (soft, hard), resolve, transition, batch transition, find similar, close, open | `MemoryStore` |
| Schema migration (`storage/sqlite_migrate.go`) | the file of an earlier release: columns, CHECK, triggers, text index | the statements of `migrate`, one at a time | `Migration` |
| Decay job (`jobs/decay_processor.go`, `engine/decay.go`) | offset, one page of rows and its transitions | a run: read a page, decide, write | `DecayJob` |
| Archival and purge jobs | the entities left, one page of rows each | a run: per entity, read a page, archive or delete | `RetentionJobs` |
| Consolidation job | one group of similar rows, the merged text | a run: group, ask the LLM, write, activate, delete | `Consolidation` |
| Scheduler (`jobs/scheduler.go`) | `running`, tickers, wait group, context | Start, RunNow, runTimer, Stop | `JobScheduler` |
| Remember pipeline (`engine/engine_add.go`, `dedup.go`, `conflict.go`) | what a call of `Add` has read | Add: duplicates, conflicts, create, update, delete, resolve, auto-resolve | `Remember` |
| Search (`engine/engine_query.go`, `engine/ranker.go`, `engine/scorer.go`) | the rows a query holds | Query: index or words, rank, write statistics and stability | `Query` |
| Tiered retrieval, LRU cache, eviction job | hot cache, index, rows | Retrieve, EnforceHNSWBounds, both eviction phases | `Tiers` |
| HNSW graph (`vectorindex/hnsw.go`) | nodes, layers, links, entry point | Add, Remove, Search, Save, Load | `Hnsw` (a set of ids in `MemoryStore`) |
| Heartbeat (`heartbeat*.go`) | rows of `heartbeat_actions`, surfaced memories and topics | HeartbeatCheck, evaluateShouldAct, finalizeAct, evaluateNudge; response tracking | `HeartbeatDecision`, `Heartbeat` |
| Watcher and delivery (`watcher.go`, `delivery*.go`, `keyoku.go`) | watched entities, failure count, time of the next round; `k.watcher` | the loop: wait, checkAll, Deliver; Start, Stop, Watch, Unwatch, Close | `Watcher`, `WatcherLife`; promise: `Breaker` |
| Schedules (`schedule.go`, `keyoku.go`, check 3 of `heartbeat.go`) | rows with a `cron:` tag | create, update, list, acknowledge, cancel, scan; next run | `ScheduleTimes`, `ScheduleLife`, `Schedules` |
| Events and SSE (`events.go`, `cmd/keyoku-server/sse.go`, `main.go`) | handlers; clients' channels | On, Emit, Broadcast, AddClient, RemoveClient; the server's shutdown | `EventStream`; promise: `Feed` |
| Token budget (`engine/budget.go`) | entries of the last minute per entity | CanSpend, Record, GetUsage | `Budget`; promise: `SlidingWindow` |
| Entities and relationships (`engine/entity.go`, `relationship.go`, `engine_lifecycle.go`) | rows, mentions, evidence | resolve, create, strengthen; DeleteAll | `Knowledge` |
| Graph (`engine/graph.go`) | the queue and the marks of one search | FindPath, TraverseFrom | `GraphSearch` |
| Agent state (`engine/state.go`) | a row per agent and schema, a log | Register, Update | `AgentState` |
| Teams (`keyoku.go`, `storage/sqlite_team.go`) | teams, memberships | create, add, remove, delete | only the team checks of a watcher (`WatcherLife`) |
| LLM and embedding providers | none | requests to services | any answer |
| HTTP server | none of its own | decode, call, encode | its shutdown (`EventStream`), its handlers of watchers and schedules |

### How they interact

Requests, the jobs and the watcher run concurrently and share the store.  A store
operation is one critical section of `s.mu`, so it is one action; everything
longer is a sequence of them with nothing held in between.  Four patterns follow
from this, and most properties are about them:

* **read, think, write**: a job or a call reads rows, computes or asks an LLM for
  seconds, and writes with `WHERE id = ?`.  What it writes was decided about rows
  that may have changed.
* **several statements for one change**: a merge, a conflict that is won, the
  lists of an extraction, an entry of a log and the row it tells of, the rebuild of
  a table are applied one statement at a time, some with their errors dropped, most
  with no transaction around them.
* **two copies**: rows are durable, the index is not, the text index follows by
  triggers, the hot cache by callbacks, and each write maintains the other copies
  in its own way.
* **a goroutine nobody waits for**: an event's handler, a watcher's loop, a timer
  of the scheduler outlive the call that started them and meet what stops them.

### What makes each part correct

* Store: no deleted memory among the search candidates; no vector lost but by a
  write that means it; after a start, what is active can be found.
* Migration: no memory lost, no value in another column, wherever it ends; a text
  index that tells the rows.
* Decay: schedules never move, resolved memories only forward, nothing moves
  further than its age warrants, and every overdue row is reached.
* Archival and purge: only rows that were of the right state and age when a run read
  them; what is due goes.
* Consolidation: nothing that was told is lost, whatever happens half way.
* Scheduler: one run per type, no claim that outlives its run, Stop waits for
  what it must and ends.
* Remember: duplicates only from overlapping calls; what was told is kept; what
  was deleted stays deleted unless somebody still held it.
* Search: a gain of stability is not undone by a query that wrote late; the cache
  holds nothing that the store does not have, unless it was told too late.
* HNSW graph: a search that looks wide enough is exact on what it can reach, it can
  reach everything until a link was dropped, and it has an answer while there are
  vectors.
* Schedules: one live schedule per content, unless calls overlap; a recurring one lives
  until a request ends it, what is told to `Add` included; an occurrence is reported once;
  the next run is the first instant that the tag names.
* Heartbeat: an action per cooldown and a surfaced memory per hour, unless checks
  overlap or a read or record fails; nudges under the cap of the day; urgent signals get through.
* Watcher: deliveries are suspended and resumed as by a circuit breaker, a deadline
  is tried while they are suspended, and no suspension is for good; one loop runs,
  and none after Stop.
* Events: each event reaches a client once at most and is lost only to a full
  buffer; nothing is sent to a client that has gone; shutdown ends.
* Budget: a call is let through if and only if the window has room for it.
* Entities and graph: names are unique unless calls overlap, and so are the ends and
  type of a relationship; both ends exist, a strength only grows, a path is a shortest
  one unless a read failed.
* Agent state: the log tells the state, unless updates overlap or a write fails.

`PROJECT.json` lists the hazards behind these, each with its line and the
properties that cover it.

## 2. Plan

1. `MemoryStore`: the base that the others extend, with its proofs. *Done.*
2. `DecayJob`, `RetentionJobs`, `Consolidation`, `JobScheduler`: the jobs. *Done.*
   Proofs for the decay job and the scheduler. *Done.*
3. `Remember`. *Done, but for the parts its component names.*
4. `ScheduleTimes`, `ScheduleLife`, `Schedules`. *Done.*
5. `Heartbeat`: decision and record, with two checks of one entity. *Done, but for
   the parts its component names.*  `Watcher` and `WatcherLife`. *Done.*
6. `Hnsw`, the layered graph over a handful of nodes; `Query`, `Tiers`. *Done.*
7. `EventStream`, `Budget`, `Knowledge`, `GraphSearch`, `AgentState`, `Migration`.
   *Done.*  Abstract promises: `Breaker`, `Feed`, `SlidingWindow`. *Done.*
8. Proofs.  *Done*: `Watcher` implements `Breaker`, and the loops of `WatcherLife`;
   `EventStream` implements `Feed`, and `NoSendToTheGone`; `LogTellsTheState`; the three
   properties of `Knowledge`; `ReinforcementSticks`; `CacheFollowsTheIndex`; `Remember`
   implements `MemoryStore`, with its three properties; `WordsAreKept`;
   `MigrationLosesNothing`; `GracefulStopIsQuiet`; the three properties of `Schedules`
   and its calendar, for every one that `CalendarAssumption` allows; the cooldowns, the
   repeats and the nudges of `Heartbeat`; `RetentionJobs` and `Consolidation` implement
   `MemoryStore`; `JobsTakeWhatIsDue`; `DeadlinesAreTriedInTime`; `Budget` implements
   `SlidingWindow`; `SearchesAreTrue`; the three properties of `Hnsw`.
   With these every safety property that a passing run checks is a theorem.
   *Left*: liveness, which section 5 names as model-checked only.

Runs are few and each asks one question of one area; small parts that share no
state are moved in one run, one of them in each behaviour.

## 3. Modules

Every module keeps the names of the code.  A definition whose comment calls it *a
slip* is a fault variant of the one that follows it: a mistake that the code could
have had, kept to show that a property notices it (`mutants` in `PROJECT.json`).
It is no part of any specification.

### Storage and jobs

**`MemoryStore`** (abstract store). A row is its `state` and whether `deleted_at`
is set (`stamped`); `index` is the set of ids with a vector; `file`, `fileKind`
and `phase` are the index file and the life of the process.  Each write of
`sqlite_memory.go` and `sqlite_helpers.go` is an action; so are the two halves of
`Close`, a crash, and the two ways of opening.  `lags`, `fileLags` and `dropped`
record history for the properties.  Assumption: embeddings have the dimensions of
the index (`CreateMemory` drops the error of `Add` otherwise).

**`Migration`** stands beside it: what `migrate` does to the table of memories.  A
table is its columns, whether its CHECK knows *resolved*, its triggers and its rows;
a row's values are given as the columns they were written for, so that a copy by
place can be told from a copy by name.  `saved` is the file as it was before the open
transaction, `nth` the column whose `ALTER TABLE` is next.  The initial states are no file,
or the file of a release that knew some of the columns, with a text index or without.
`opening` is the statement that is next; the process may end at any of them, and a statement
of the kinds in `Failing` may fail.

**`DecayJob`** extends the store with the job's page and offset and with the requests.
An id is the row's place in the order of `created_at`; `band[i]` is what
`DetermineDecayState` says of the row's factor now, which `Age` and `Access` move.

**`RetentionJobs`** extends it with archival and purge, each a loop over entities.
`aged` and `expired` are the rows whose `updated_at` or `deleted_at` is old enough.
`archDirty` and `purgeDirty` are history: rows of a page that others have written since.
docs/troubleshooting.md:261 says that purge deletes `archived` memories; the module follows
the code (purge_processor.go:67) and docs/architecture.md:250: it deletes deleted ones.

**`Consolidation`** extends it with one merge at a time.  A content is a set of
words; `wanted` is what was told and not taken back; `excused` names what the
property lets go (an edit of a row that the job holds, words that the text-based
merge drops, a primary that was deleted meanwhile).

**`JobScheduler`** stands alone: goroutines as counters per job type, the ticker's
channel as a set, the wait group as an integer.

### Telling and recalling

**`Remember`** extends `MemoryStore` with overlapping calls of `Add` as records
(`call[c]`), the fact a memory was created with (`hash`: content hash, embedding
and type) and the facts its content says (`says`).  Similarity has the levels that
the thresholds of the code tell apart: 0.5/0.6/0.7 as *related*, 0.85, 0.93, 0.97.

**`Query`** is `Engine.Query`: candidates from the index, or the rows that hold a word
of the query if there are few memories; their rows; an order; then one write of
statistics and one of stability per result.  A stability is counted in its logarithm,
so growth is an addition.  `crowded` and `alone` are history: which queries held a
memory together, and what a memory gained from those that did not.

**`Tiers`** is the tiered retriever with its hot cache, `EnforceHNSWBounds` and the
eviction job, for one entity.  Cache, index and rows are three variables, with locks of
their own in the code; a search looks at one after the other and then promotes what it
found.  `toTell` holds the callbacks that are still to come; `missed` is history.
Similarity has the three thresholds of the code; ranks are any distinct numbers.

**`Hnsw`** is the layered graph.  `nodes` is the slice with its holes (`vector = Nil`),
`layers` the links by number; `Explored`, `LinkLayer`, `LinkBack` and
`PruneConnections` are the algorithms, `Add`, `Replace`, `RemoveVector` and `Restart`
(Save, then Load, or a rebuild if the file is refused) the operations.  A rebuild reads the
table and not the index: the rows of state active, stale or resolved that have an embedding
(`Tables`: any list of rows that were stored before), which an archived row has left and an
evicted one has not.  Every one of them holds the index's lock,
so each is one action.  A loop of the code is a function of its rounds; a search closes a
node in every round, so it ends within as many as there are nodes.  Of nodes at the same
distance the model takes a fixed one.  The distance is a constant.

**`Knowledge`** follows the entities and relationships of overlapping calls of `Add`, one
lookup or statement at a time, beside `DeleteAll`.  A relationship is looked up by its ends
and its type, so that two types between the same ends are two rows.  Lookups and writes may
fail and most of these errors are dropped.  `raced`, `swept` and `failed` are history.
**`GraphSearch`** is breadth-first search over a graph that may change between two reads.  A
read that fails gives an entity no links, or not those whose other end could not be read,
and the search goes on; `missed` counts them.
**`AgentState`** is registration and update of one agent's state: read, ask, log, write.

### Acting

**`ScheduleTimes`** translates the `next*Run` helpers as pure operators over an
abstract calendar: `First[m]` is the day on which month `m` begins, an instant
counts the slots of a day, and the location of a schedule has a fixed offset (a
change of clock is left out, and so is the parsing of the tag).  **`ScheduleLife`**
moves one schedule through that calendar (acknowledged late, touched by a search,
edited) and compares it with what its tag names.

**`Schedules`** extends `MemoryStore` with the rows' tags, contents and times.  Each
API call is a sequence of statements kept in `call[c]`; so is a heartbeat check,
from its scan over the acknowledgements to the decision.  The order of ids is that
of `created_at`, a content is a set of words (one containing another is a match),
and `Old` rows are memories told before.  `UpdateSchedule` and `CancelSchedule` are
one action each: what they read is checked and otherwise only copied.  A schedule is an
active plan like any other, and requests about memories write it too: `Edit` (an update or
a merge), `SetState`, `Resolve` (a client, the LLM's list, or `autoResolveSuperseded`, which
asks for no cron tag), `Supersede` (a conflict that the new memory wins) and `Forget`, on any
row, for a call of `Add` writes by id what it looked up before.  `made`,
`unseen`, `ended` and `fired` record history for the properties.

**`HeartbeatDecision`** has the rules of `evaluateShouldAct` as operators over what a check
has found, the hour, the user and the last act; `Verdict` keeps their order. A signal is a
memory (or a conflict, a gap, ...) with a kind, and the memories of two signals mention
different entities.  **`Heartbeat`** keeps the records that the rules read, each as an age
that is clipped where no rule tells it from a greater one: the last act, the acts and
suppressions in the windows of the topic check, the nudges of the day, the surfaced
memories.  A check is a sequence of reads and writes in `check[c]`: scan, decide, compare
topics or consider a nudge, record, surface.  `Tick` may fall between any two.  Every write
may fail and its error is dropped.  The reads that a rule goes on without may fail as well
(`unread`): of the last act (the stale, cooldown and novelty rules are skipped), of what was
surfaced (nothing is filtered), and of the records that topics are compared with (nothing is
suppressed).  `lost`, `raised`, `spoke` and two fields of a check are history.  The entity
has five memories at least and has written once (with fewer memories every check acts;
without a message there are no nudges).

**`Watcher`** is one loop: the ticker or the adaptive timer, a round over the entities,
a delivery with its timeout, the count of failures and the suspension.  A check is what
`Heartbeat` promises of one: it acts on an immediate signal that no immediate act has just
spoken of, may act on another one whose cooldown is over or pass it over for good, does not
see the cooldown if it fails to read the last act, and records an act before the delivery
is tried.  Time passes in units while the loop waits
or a delivery runs.  **`WatcherLife`** is about the watchers of a process: `k.watcher`,
which requests read and write without a lock, the goroutine of each `Start`, and
`Close`.  **`Breaker`** is what the first promises.

**`EventStream`** is the bus with a goroutine per event and handler, the hub's handler
that tries each client's channel under the hub's lock, clients that come, fall behind and
leave, and the shutdown of the server with its timeout.  **`Feed`** is what every client is
promised.

**`Budget`** is the entity's window of token entries; a call asks with an estimate, waits
without a lock, and records what it used.  **`SlidingWindow`** is what a limit per window
promises, and forgets nothing.

Eight modules hold the theorems: `MemoryStoreProofs`, `LoopProofs` (`DecayJob`,
`JobScheduler`, `Watcher`, `WatcherLife`), `ServiceProofs` (`EventStream`, `AgentState`,
`Budget`), `KnowledgeProofs` (`Knowledge`, `GraphSearch`, `Hnsw`), `RememberProofs`
(`Query`, `Tiers`, `Remember`), `StorageProofs` (`Consolidation`, `Migration`,
`RetentionJobs`), `SchedulesProofs` (`ScheduleTimes`, `ScheduleLife`, `Schedules`) and
`HeartbeatProofs`;
the `MC*` modules give TLC its small instances.  Three of them (`MCMemoryStore`,
`MCRemember`, `MCKnowledgeSearch`) and `MCServices` hold several parts that share no
state: a variable `part` is chosen at the start, and a behaviour moves that part while
the others rest.  Such a run explores the sum of the parts' states and nothing of their
product, which would say no more.

## 4. Runs

| Run | Instance | Shows |
|---|---|---|
| `memory_store` | 3 ids, symmetric, with merges of texts of 1 and of 3 words and 5 requests; a file with 3 added columns, 1 old row and 2 new | the store's invariants over every write, a batch whose commit fails, close, crash, restart; no word is lost by a merge; no row or value by a migration |
| `memory_restart` (violation) | 2 ids | after a crash the old index file is taken as it is: `ActiveIsSearchable` fails |
| `migration_text` (violation) | 2 columns, 1 old row and 1 new, nothing fails | the rebuild drops the triggers: `TextIndexStaysInSync` fails |
| `decay_job` | 2 rows, pages of 1, 4 disturbances | the fences on untouched rows; no row left behind |
| `retention` | 3 rows of 2 entities, pages of 1, 5 disturbances | both jobs take what they should and in the end all of it |
| `remember` | 3 ids, 2 calls, 3 facts, 6 operations; 2 memories and 3 queries; 2 memories, a cache and an index of 1 | duplicates, lost facts, returning rows; what queries strengthen; what the cache may hold |
| `heartbeat` | 2 checkers, a plan and a deadline, 2 events (failing reads count) | cooldowns, repeated work, nudges, deadlines that get through |
| `schedules` | 3 rows, 2 callers (symmetric), a daily and a one-shot tag, 2 requests, 2 failing statements | duplicates, ends and reports of schedules |
| `services` | 2 job types; 2 entities and 3 events of a watcher; 2 handlers and 3 requests about watchers; 2 clients and 2 events; 2 callers and 3 calls of the budget; 2 updaters and 3 updates; 20 months and 15 tags of one schedule | the scheduler, the watcher, the stream, the budget, the agent's log, the calendar |
| `knowledge_search` | 2 calls, 4 ids of entities and relationships; 2 types of relationship; every graph of 5 entities with 5 links, a change and a failing read; 4 vectors, `M = 1`, a removal and a restart | names, ends, strengths; paths; what a vector search finds |
| `schedules_limit` (violation) | 3 rows, scan of 1 row | a due schedule behind older memories is never reported |
| `schedules_oneshot` (violation) | 2 rows, 1 caller | a search consumes a one-shot reminder |

**Bounds.** `MaxDisturbances`, `MaxRequests`, `MaxOps` and `MaxEvents` count what *others*
do in a behaviour (requests, failing statements, changes of the world), never the steps of
the loop or job that is being checked.

* *Storage and jobs.*  With pages of one row, two rows are enough for the offset to move
  past a row that slides under it; two entities are enough for one to be known to the jobs
  while the other is not; three rows are enough for a merge and a bystander.  A migration
  has three columns to add, so that one can fail between two that do not; one row written
  before it and two stored after it.  `MaxRuns` bounds goroutines of one type that are
  alive; the second is one that has left `finish` and not yet called `Done`.
* *Telling.*  Two calls and three facts give every pair of steps of two calls, a plan, its
  completion and a near-duplicate; six operations are a call's start, two facts and three
  writes, in either call.  Three queries are the two that overlap and one that overlaps
  neither.  A cache and an index of one (`CacheSize`, `MaxIndexed`) are full with the first
  of two memories; `MaxAgings` is the one step of decay or deletion by another job, and
  both evictors may run beside one search.
* *Knowing.*  Four ids are a person, a namesake, a second person and their relationship.
  Two types of relationship may join the same ends.  `MaxResults` 4 and `MaxDepth` 2 lie inside
  a graph of five; `MaxMissed` is the one read that fails, of all the links of an entity or
  of some.  `M` is 1 for 16, so that a
  third link back is pruned: the first of four vectors is near to the three others.
  `EfSearch` is as large as the vectors are many (50 and up in the code), and one less
  than the slots that a removal and an addition leave.
* *Schedules.*  Two requests are two creations that overlap, or a creation and what somebody
  does to it; checks are not counted.  `ScanLimit` and `ReportLimit` (100 and 20 in the code)
  are 2, so that a row may lie beyond the scan and two may be reported and acknowledged, one
  by one.  `PageLimit` is 2 (100): three schedules would take a third request, so that what
  lies beyond the page is left to the theorems.  There is one content, for rows
  whose contents do not match are not replaced and nothing is said of them; `MaxTime` lets
  a daily schedule run twice; `MaxFails` is two reads or writes that fail.  A write of `Add` is a
  request of its own.  `ScheduleLife` has a leap and a common February and every pair of
  month lengths in a row; a schedule is acknowledged at most `MaxDelay` slots late, and a
  search moves the last run to any slot.
* *Heartbeat.*  `MaxEvents` counts changes of the signals, messages, checks that begin
  while another is under way, and reads and writes that fail: two of them give an overlap among
  changed signals, or an overlap and a lost record.  Checks one after the other and time
  are not counted.  Cooldowns and windows are one unit of time long, multiplied by the
  hour's and the user's factors; two checks may have the thresholds of different autonomies
  (3 stands for a view whose other signals weigh five).
* *Services.*  The watcher suspends after two failures (3 in the code) for at most two units
  (6 hours); three events are a signal, a receiver that fails and one that recovers, or the
  signals of both entities and a receiver that fails one of them.  Two watchers and three
  requests are two starts that overlap and a stop.  A client's channel holds one event (64),
  and two are emitted.  The budget's window of two ticks empties within `MaxNow`, and the
  hour is one tick longer; three calls are two that overlap and one that asks when they have
  left the window, or not yet.  Three updates are two that overlap and one after them.

`services`, `remember` and `knowledge_search` turn deadlock checking off: once what others
do is used up, calls end and nothing is left to happen.

**Fairness.** `FairDecaySpec`, `FairRetentionSpec`: a ticker starts a run for as
long as the process is up, and a run goes on when its statements succeed (failures
are disturbances, hence finitely many); rows grow old.  The scheduler: tickers fire,
goroutines are scheduled, `Process` returns, and `Stop` goes on once it was called;
nothing makes anybody call it.  `NoRowIsLeftBehind` and `DueRowsAreTaken` are therefore
claims about a process that stays up while requests pause.  `FairSchedulesSpec`, for
`schedules_limit`: calls end, half hours go by, and the watcher checks again and again
(strong fairness, for a scan takes a caller that is free); even so a due schedule is not
reported.  `FairHeartbeatSpec`: time goes by, and steps of checks are taken again and again,
as the watcher's loop does; it need not be the same checker each time, and a step may be
one whose read failed, of which there are finitely many.  The watcher: time goes
by, and its goroutine is scheduled; a delivery ends because the command is killed at the
timeout.  The stream: the shutdown's timeout fires.  `FairLifeSpec`: goroutines are
scheduled, and a `select` with both cases ready does not take the ticker for ever (strong
fairness of the return).  The other runs assume no fairness and claim only safety.

**Refinements.**  Three modules are shown to implement what they promise, and the jobs and
the calls of `Add` the store.  All are theorems, and those of the store are only theorems:
TLC checks the store's invariants on its own run.

| Detailed | Abstract | Property | Mapping |
|---|---|---|---|
| `Watcher` | `Breaker` | `ObeysTheBreaker` | *open* while the failures suspend ordinary deliveries, *half open* when their time is over, *closed* below the threshold |
| `EventStream` | `Feed`, of all clients at once | `ImplementsTheFeed` | *due* is what goroutines still try and what the channel holds |
| `Budget` | `SlidingWindow` | `ImplementsTheLimit` | what was spent is the ledger of all entries, of which the code keeps those of the window |
| `DecayJob` | `MemoryStore` | `DecayImplementsStore` | the store's variables are the job's |
| `RetentionJobs` | `MemoryStore` | `RetentionImplementsStore` | the store's variables are those of both jobs |
| `Consolidation` | `MemoryStore` | `ConsolidationImplementsStore` | the store's variables are the job's |
| `Remember` | `MemoryStore` | `RememberImplementsStore` | the store's variables are those of the calls |

**What the properties show.**  `UnindexedWereDropped` is exact: the store loses a vector
only to a write that means to drop it, and a row can then come back without it
(`ResolveMemory` and `UpdateMemory` look at neither the index nor `deleted_at`).
`MigrationLosesNothing` speaks of files whose columns could all be added, for a rebuild
copies by place.  `DecayFollowsFence` holds of rows nobody wrote meanwhile; the condition is
needed (below).  `JobsTakeWhatIsDue` speaks of every row that archival or purge takes: it
was due when the same run read it, and if it no longer is, others have written it between.
`DueRowsAreTaken` holds of deleted rows only if they are dated, of entities that still have
a memory, and with fewer undated rows than a page holds: each is a way in which purge does
not reach a row. `WordsAreKept` holds because the merged text is written before anything is
deleted.  `DuplicatesNeedAnOverlap`, `ToldIsKept` and `OnlyHeldRowsComeBack` say what
overlapping calls can and cannot do to one another. `DuplicateSchedulesNeedAnOverlap` and
`OnlyRequestsEndARecurringSchedule` do it for schedules (a creation whose embedding fails
has ended what it was to replace, and what is told may end a schedule as well),
`RowsAreUnique` and `EndsExist` for entities and relationships, and `LogTellsTheState` for
an agent; `OccurrencesAreReportedOnce` holds because an acknowledgement moves
`last_accessed_at` to the present, past every occurrence that a check has seen.
`ReinforcementSticks` is what is left of "an answer strengthens a memory" when two queries
hold the same rows: the gains of the queries that overlapped none are a floor.
`CacheFollowsTheIndex` says which memories a cache may hold that it should not.

`SearchIsExact` separates what the graph's search guarantees from what it does not: with a
wide enough search the answer is the nearest of what can be reached, and everything can be
reached until the first link was pruned, vector replaced or node removed.

`CooldownsHold` and `WorkIsNotRaisedTwice` except checks that overlap, records that were
lost and the check whose read of them fails, and each exception is needed: the code takes a
read that fails for one that found nothing, and lets the act through.  `SearchesAreTrue`
names its failing reads in the same way: a search that missed some may answer with a longer
path or none, though never with links that it did not read.

`RestartKeepsTheVectors` has two cases, for the file and the table are two sources: a file
that loads brings back what the index held, one that is refused what the table gives, and
never some of both.  `DeliveriesResume` promises deliveries of ordinary signals only while
checks act on them, which they may not (`SignalsThatStayAreRaised`, below); of immediate
ones without that premise.

`WorkIsNotRaisedTwice` covers the acts that no cooldown or novelty rule holds back
(confluence, critical deadlines). `NudgesStayUnderTheCap` is exceeded by one nudge per
further checker and no more. `OneLoopUnlessStartsOverlap` has its exception in `k.watcher`
being read and written by two starts at once: both watchers run, and only the second can be
stopped.

**What the code does not keep.**  Four runs expect a violation, and `findings` in
`PROJECT.json` quotes what each one contradicts.  More properties are stated in
the modules, each with what the code does instead, and refuted by TLC.  To see one fail,
put it in the place of the properties in the configuration of the run:

| Property | Run | What happens |
|---|---|---|
| `ResolvedOnlyMovesForward` (`DecayJob`) | `decay_job` | a row resolved while the job holds its page goes back to stale |
| `DecayedIsPurged` (`RetentionJobs`) | `retention` | rows that decay deletes have no `deleted_at` and are never purged |
| `ArchivedIsPurged` (`RetentionJobs`) | `retention` | purge asks for rows of state deleted (purge_processor.go:67); docs/troubleshooting.md:261 says that it "deletes `archived` memories older than 90 days" |
| `RestoredRowsStay` (`RetentionJobs`) | `retention` | purge deletes the rows of its page without a look at them: one that was brought back since the page was read is lost |
| `RecurringSchedulesAreNotResolved` (`Schedules`) | `schedules` | decay and consolidation spare rows with a cron tag; `autoResolveSuperseded` (engine_add.go:605) takes a schedule, which is an active plan, for completed by what was told |
| `SchedulesAreNotMergedAway` (`Consolidation`) | `memory_store` | a row that becomes a schedule after the job has read it is merged away |
| `ValuesStayInPlace` (`Migration`) | `memory_store` | after an `ALTER TABLE` whose error was dropped, the rebuild copies values into the columns of others |
| `ExactMatchesMatch`, `FirstIsBest` (`Remember`) | `remember` | an updated memory keeps the hash of its old text; the first result of a similarity search is the oldest above the threshold, not the nearest, and updates, deletes, resolves and merges take it for the best (engine/engine.go:246 says that results are sorted by similarity) |
| `StabilityNeverFalls` (`Query`) | `remember` | a query that read before two others wrote undoes the second's gain |
| `DeletedAreNotServed` (`Tiers`) | `remember` | a copy that was on its way to the cache when its memory was deleted stays and is answered |
| `SignalsThatStayAreRaised` (`Heartbeat`) | `MCHeartbeatLivelock.cfg` | once a conflict was acted on, each check that suppresses it leaves a record which layer 3 of the topic check takes for a reason to suppress it again; checks that come more often than twice the window keep it silent for good, against the "stale escape" of heartbeat_decide.go:293 |
| `OthersDoNotSuspend` (`Watcher`) | `services` | failures are counted for all entities together: the immediate signals of one whose messages fail, tried in spite of the suspension, prolong it for the others |
| `EventsComeInOrder` (`EventStream`) | `services` | an act's umbrella event can come after the events of its signals |
| `HourIsReported` (`Budget`) | `services` | `GetUsage` speaks of an hour and adds up what the window of a minute has left |
| `LoadRestoresTheLinks` (`Hnsw`) | `knowledge_search` | after a removal the file holds links by numbers that the loaded list does not have, against hnsw.go:449 |
| `NewVectorsAreFound` (`Hnsw`) | `knowledge_search` | the nearest node may prune its link to a new one at once, which then nothing leads to |

Statements that hold and are not listed, because a stronger or a deeper one is, or because
there was nothing more to learn: the modules' type invariants (`...TypeOK`), `StoreInv`,
`PagesAreCurrent`, `PageIsCurrent`, `NoLostClaim`, `WaitGroupCounts`, `TimersQuit`,
`OverspendIsBounded` (callers that overlap exceed the budget, each by no more than its
call; a theorem), `RegistrationKeepsTheState`, `ShutdownEnds`, and `StopsComeBack` under
`FairLifeSpec`.

**Met on the way**, and not a property of a model: foreign keys are never switched on (the
parameters of the DSN are not the driver's), so mentions and evidence outlive `DeleteAll`,
and memberships outlive a team, against keyoku.go:1348; a relationship's evidence count is
one less than its evidence; a rebuild of the index after a file that does not load draws
new levels; a similarity search considers `max(50, 5 * limit)` vectors of all entities and
filters for the entity afterwards; the text index is not filled for the rows of a file that
had none.

## 5. Proofs

| Theorem | Statement |
|---|---|
| `StoreTypes`, `NoDeletedCandidates`, `NoVectorLost` | the three invariants of the store, for any set of ids |
| `DecayImplementsStore` | `DecaySpec => StoreSpec`: every step of the job and of the requests is a write of the store, or leaves it alone |
| `DecayTypes`, `HeldPagesAreCurrent`, `FencesHold` | the decay job's types, `PageIsCurrent` and `DecayFollowsFence` |
| `SchedulerTypes`, `RunsDoNotOverlap`, `ClaimsAreReleased` | the scheduler's types, `OneRunPerType` and `NoLostClaim` |
| `StopWaitsForAll` | `GracefulStopIsQuiet`: a Stop that did not time out leaves no goroutine that it had to wait for |
| `WatcherIsABreaker` | `ObeysTheBreaker`: the deliveries of the loop are those of a circuit breaker |
| `DeadlinesInTime` | `DeadlinesAreTriedInTime`: an immediate signal is tried within a bound, whatever fails |
| `LifeTypesHold`, `OneLoop`, `StopMeansQuiet` | the types of the watchers of a process, `OneLoopUnlessStartsOverlap`, `QuietAfterStop` |
| `NobodyGoneIsSentTo`, `StreamImplementsTheFeed` | `NoSendToTheGone`; `ImplementsTheFeed`, for all clients at once |
| `LogTellsTheWholeState` | `LogTellsTheState` of an agent |
| `EndsAlwaysExist`, `NamesAndRelationsUnique`, `StrengthsNeverFall` | `EndsExist`, `RowsAreUnique`, `StrengthOnlyGrows` |
| `BudgetTypeOKAlways`, `BudgetImplementsTheLimit`, `OverspendIsBoundedAlways` | the budget's types, `ImplementsTheLimit`, `OverspendIsBounded` |
| `SearchesAreTrueAlways` | `SearchesAreTrue`: paths are shortest and traversals complete, in any graph, if no read fails; true to what was read if one does |
| `HnswTypeOKAlways`, `AnswersWhileThereAreVectorsAlways`, `SearchIsExactAlways`, `RestartKeepsTheVectorsAlways` | the index's types, `AnswersWhileThereAreVectors`, `SearchIsExact`, `RestartKeepsTheVectors` |
| `LoneGainsStick` | `ReinforcementSticks` |
| `CacheFollows` | `CacheFollowsTheIndex` |
| `ToldStaysTold`, `OnlyOverlapsDuplicate`, `OnlyHoldersBringBack` | `ToldIsKept`, `DuplicatesNeedAnOverlap`, `OnlyHeldRowsComeBack` |
| `RememberImplementsStore` | `RememberSpec => StoreSpec` |
| `MergesLoseNoWords`, `ConsolidationImplementsStore` | `WordsAreKept` by the consolidation job; `ConsolidationSpec => StoreSpec` |
| `OpenedFilesAreWhole` | `MigrationLosesNothing` |
| `JobPagesAreCurrent`, `JobsTakeTheDue`, `RetentionImplementsStore` | `PagesAreCurrent` and `JobsTakeWhatIsDue` of archival and purge; `RetentionSpec => StoreSpec` |
| `NextRunIsNext`, `DueWhenNamed` | the next run is the first instant after the last that the tag names; `DueFromTheNamedInstantOn` |
| `DuplicatesOverlap`, `RecurringSchedulesLast`, `OccurrencesOnce` | `DuplicateSchedulesNeedAnOverlap`, `OnlyRequestsEndARecurringSchedule`, `OccurrencesAreReportedOnce` |
| `HeartbeatTypes`, `NudgesAreCapped`, `ActsKeepTheirDistance`, `WorkIsRaisedOnce` | the types of the checks and their records, `NudgesStayUnderTheCap`, `CooldownsHold`, `WorkIsNotRaisedTwice` |

All of them hold for any values of the constants that the named assumptions allow: any
numbers of callers, rows, clients, watchers or job types, any texts, and any bound on what
others do.

*Store.*  The two index properties are not inductive: they speak of searchable
rows while a write may bring any row back, and of the index in memory while a
restart replaces it by the file.  `StoreInv` adds the same for every present row
and, while nothing has overtaken it, for the file; `StoreInvStep` shows it kept by
each action, given the types.

*Decay job.*  `PageIsCurrent` is what the job holds: of rows nobody wrote since the
read, the transitions are still ones that the fences allow.  Time can only move a
band further, and requests put their row into `touched`.  `FencesHold` then looks
at the one step that writes a page.  `DecayImplementsStore` is an inclusion of
steps, so the store's theorems hold of the job as well.

*Scheduler.*  `OneRunPerType` names the owner of a claimed type (a run, a timer or a
RunNow call) and, with `NoLostClaim`, is inductive given the types.  For `StopWaitsForAll`
the invariant `Counted` is `WaitGroupCounts` by cardinalities: each goroutine is a member of
a set (`TimersUp`, `RunsUp`: a run is a type and a number), so that a counter that goes up
or down by one is a set that gains or loses a member.  The counter at zero is then an empty
set, which is what `Wait` returns on.

*Watcher.*  The breaker has to know of the loop only that failures and their age stay where
they are clipped and that a delivery under way is to somebody (`Delivering`); each step is then
a step of the breaker or a stutter.  For `DeadlinesInTime` the invariant measures what lies
ahead of an entity's turn (`Ahead`): the interval that is running, the rest of the delivery
under way, a timeout for each entity that comes first.  A signal that was not tried has been so
for as long as the bound leaves beside that (`ComesUp`), or an act has spoken of it within
`StaleImmediate`; then two rounds may follow, which the event that brought the signal pays
for.  Nothing is asked of the fixed interval: it may be longer than the bound of the adaptive
ones, and the bound takes the longer.  For the watchers of a process the invariant says where a
cancelled watcher may still have a loop, and who waits for it; the part for one loop is
conditional on `~overlapped`, and names for each place of a handler which loops there may be.

*Stream.*  `NoSendToTheGone` needs that the clients of a broadcast are in the hub, which
they leave under its lock.  The refinement adds that an event is with its goroutine, or in a
broadcast, or in a client's channel, and in one of these only, so that what is received
leaves what is due.

*Agent state.*  Until calls overlap one call at a time is between its read and its write;
its log entry is the end of the log and begins with the state that the row still has.

*Knowledge.*  `EndsExist` is inductive with what an adder carries: the entity it found or
made is there until a sweep begins, and nobody works while it sweeps, or `swept` is set.
`RowsAreUnique` adds that what is to be inserted was looked up by the only adder at work;
`StrengthOnlyGrows` that the strength it read is the row's.

*Budget.*  The code keeps the entries that were left by the last pruning, the promise a ledger
of all.  The invariant (`BudgetInv`): entries and ledger have the same since every moment of
the window or later, so that whoever asks, now or later, adds up the same tokens from both,
and pruning takes nothing that will ever be counted.  For the overspend (`SpendInv`), what
the window holds and the most that each call under way may cost stay within the limit and one
round: a call adds its most when it is let through, and its record turns that into tokens.

*Searches of the graph.*  The invariant speaks of the paths that the parents spell
(`Paths`): the queue is in the order of their lengths, nothing visited lies more than one
deeper than its head (`InOrder`), and, while the graph stays as it is, who no longer waits
and is not too deep has its neighbours visited (`Complete`, while no read has failed).  That
every entity within *n* links has a path of as many at most is then an induction over *n*.
Whatever changes, a path's steps are links that were read.

*Vector index.*  The operations are loops in loops, and what a loop computes is an induction
over its rounds: `LoopIs` says that a function which is defined round by round follows its
rounds, `LoopStays` that what holds at the start and is kept by each round holds after all.
The invariant `HnswInv` is that the index is `Sound` (a living node has from one layer to as
many as the index, a removed one none; links are distinct and lead to nodes of the list; the
entry point lives if anything does) and, until a link is dropped, `Joined`: no part of the
nodes but the whole is left by no link of the lowest layer.

`Joined` is where `Add` is subtle.  A new node is linked to its nearest, which link back; a
list of more than 2M is cut to M, and then it has lost an old link (`PrunedLoses`), even when
the new link goes as well: hence an insertion that drops no link of a former node has hooked
the new one in, in both directions (`Hooked`).  Soundness through `Remove` does not need that all
links to the removed node go: only those that the code looks for do, and the others lead to a
hole that every search steps over.  A file is loaded only if its numbers are in range, which
is all that `Sound` asks of links; without holes it is the list itself, so it is.  What a
rebuild makes has the rows that it has added so far, each with its vector, by induction over
them.

For `SearchIsExact` a search with room for all is followed round by round (`Exact`): it drops
no result, so the results are what was met and lives, what is closed has its links among
them, and a node is closed in each round until none is open.  What it explored is thus the
least set that has the start and is left by no link, `Reached`; the nearest *k* of a sorted
row begin the row (`SortedPrefix`).  The wanderings of the upper layers only need to end at a
node that lives.

*Queries.*  A late write undoes what was gained since its read.  The invariant compares the
stability that a query holds with what the row gained from queries that nobody overlapped:
two queries that hold a memory are both crowded, and while one is, that gain does not grow.

*Cache.*  The property is about what is in the cache; the invariant adds what is on its way
into it (`Coming`: held by a search, or by a callback that was not yet made): it is in the
index, or being told, or missed.  `OnItsWay` at the moment of the telling is what keeps it.

*Remember.*  `ToldIsKept` is inductive given the types.  For the duplicates the invariant
(`NoDuplicateSeen`) speaks of all rows and not of live ones, because a deleted row may come
back: whoever decides about a fact overlooks every row that has it or that is not born, and
a row's `blind` has all that were not born when it was made.  `RememberStepsStore` shows
each step to be a write of the store or none, and only a call that holds a deleted row to
bring it back.

*Consolidation.*  A word that has to be kept (`Kept`) is said by a live row outside the
group, or by one of the group and by what the merge is going to put into the primary's
place: the copies it read, the text made of them, the text written.

*Archival and purge.*  The two jobs hold pages of the same rows at once.  `PagesAreCurrent`
says that a page is still true of each row that nobody wrote since; what is due stays so, a
date only gets older, and either job's own write counts as one for the other.  Only the query
of a job adds to its page (`PagesAreDue`).

*The jobs and the store.*  `WritesAreTheStores` (`MemoryStoreProofs`) lists what a job or a
request calls, and that each is a step of the store; a module's refinement is then an
inclusion of its steps, given that it keeps the store's types.

*Calendar.*  The loops of `schedule.go` try a few days or months in a row.  `FirstOfDays`:
the first day of a set whose slot is still to come is the next run, if no day before it is
in the set.  Seven days in a row have every day of the week (`nextWeeklyRun`,
`nextWeekdayRun`); of two months in a row one has 31 days (`CalendarAssumption`), so that
`nextMonthlyRun`, which gives up after two tries, has found the first month that has the
day.  `time.Date` names a day of the next month when this one is too short, and the helper
notices by the day.

*Schedules.*  A step either makes a row (one step of one call) or keeps what was made
(`KeepsMade`), and what keeps it keeps the table's invariants with everything that the other
callers have read.  What a caller has read is part of the invariant: a creation that has
still to write its row knows of every matching row that it did find, or lists it as unseen
(`Covers`); a check has read tags as they are, unless they were edited (`ReadsTrue`); and
who archives a row has read it as a one-shot (`ArchivesOneShots`).  What the requests of one
statement write is either told to the property (`ended`) or takes the row out of `made`.
`fired` never passes `lastRun`, of which an occurrence that is reported is later.

*Heartbeat.*  A check decides on records that it read earlier and others write.  It is told
of an act by the histories `overlap` and `missed`, which belong to the model; what holds
without them is the invariant of a check (`CheckInv`).  What it read was true
(`LastIsKnown`, `SurfacedIsKnown`) unless a record was lost or it failed to read it
(`unread`), or the act has not recorded it yet, and then it is told.  Nudges are counted
together with those who are about to record one (`NudgeRoom`): whoever is about to has seen
room, so the others can exceed the cap by one each.

*Migration.*  One table counts at every moment, the one that a rollback would bring back
while the rebuild is under way (`RolledBack`).  It has the rows that were stored, and while
no column was skipped its columns are a prefix of `Added` that has all that were tried; a
copy by place between tables of one length is then a copy by name.

The proofs assume of the constants what the modules' named assumptions say (sets of callers,
items, handlers and rows are finite where they are counted or ordered; ids are numbers; an
extraction is a pair of sequences; pages have a row at least; months have 28 to 31 days and
no two short ones meet; intervals of tags are positive, though `ParseSchedule` lets others
through), and TLC evaluates these assumptions on the runs' constants.

**Model-checked only.**  Every liveness property (`NoRowIsLeftBehind`, `DueRowsAreTaken`,
`ScheduledJobsKeepRunning`, `DeadlinesGetThrough`, `DeliveriesResume`): the prover does not
handle fairness or `ENABLED`.

## 6. Not modelled, and why

* *Providers* (`llm/`, `embedder/`): requests to services and the parsing of their
  answers; where a module calls them, any answer may come.
* *HTTP server* (`cmd/keyoku-server`): decodes, calls and encodes; its shutdown and the
  handlers that race (watchers, schedules, events) are in the modules of those parts.
* *Teams*: rows written one statement at a time and read by queries.
* *Never called by the program*: `MergeEntities`, aliases, `GetRelationshipPath`,
  `EnhancedRetriever`, entity extraction without the LLM.  The tiered retriever, the cache
  and the eviction job are not instantiated either, but they are the library's own answer
  to full memory, have tests, and are modelled (`Tiers`).
* *Heartbeat*: the queries behind the signals, first contact, tags and stability in scores,
  positive deltas, the response tracking (its multiplier is an input), topic surfacings,
  which no rule reads, and the LLM's analysis.
* *Remember*: the importance re-evaluation, custom schemas and the session log.
* *Events*: one that cannot be encoded is dropped (sse.go:85).
* Scores, prompts, parsing and rendering carry no order of steps.  The history log and the
  session log are written and never read back by the parts modelled here.  Importance,
  confidence, sentiment and visibility change no state that a property speaks of;
  agents and teams narrow what a call sees and are left out of `Remember`, which has
  one agent.
* SQLite is taken to do what it promises: a statement happens or does not, and a committed
  row survives a crash.  Its rules for triggers under `RENAME` and `DROP` are in `Migration`.
