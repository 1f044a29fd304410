------------------------------ MODULE WatcherLife ------------------------------
(***************************************************************************)
(* The watchers of one process, as requests start, stop and edit them and  *)
(* as Close ends them.  k.watcher is read and written without a lock, and  *)
(* a request reads it once for each use.  Each Start of a watcher is a     *)
(* goroutine; what it does in a round is Watcher's subject.                *)
(***************************************************************************)
EXTENDS Integers, FiniteSets

CONSTANTS
  Watchable,
  Teams,         \* the teams that are watched, with every entity
  Handlers,       \* handlers of requests under way
  NoWatcher,     \* the nil pointer
  NoTeam,        \* the part of a round that is about the entity itself
  MaxWatchers,   \* bound on the watchers that are made,
  MaxRequests    \* and on requests

ASSUME WatcherLifeAssumption ==
  /\ MaxWatchers \in Nat /\ MaxRequests \in Nat
  /\ NoWatcher \notin 1 .. MaxWatchers /\ NoTeam \notin Teams /\ IsFiniteSet(Handlers)

Watchers == 1 .. MaxWatchers
Loops    == Watchers \X Handlers   \* a goroutine, named for the request that started it

VARIABLES
  current,     \* k.watcher
  made,        \* how many watchers were made
  watched,     \* the entities of each
  cancelled,   \* those whose context is cancelled
  loops,       \* the goroutines: what each is at, and the checks left in its round
  request,     \* what each handler is at
  closing,     \* what Close is at, "up", "stop", "wait" or "closed", and its watcher
  requests,    \* how many requests were made
  overlapped,  \* history: a start has overlapped another, or Close
  quiet        \* history: the watchers that a Stop has come back from

lifeVars == <<current, made, watched, cancelled, loops, request, closing, requests, overlapped, quiet>>

Free == [op |-> "none", pc |-> "free", w |-> NoWatcher, ids |-> {}]
Gone == [pc |-> "gone", left |-> {}]

LifeInit ==
  /\ current = NoWatcher /\ made = 0
  /\ watched = [w \in Watchers |-> {}] /\ cancelled = {}
  /\ loops = [l \in Loops |-> Gone]
  /\ request = [c \in Handlers |-> Free]
  /\ closing = [pc |-> "up", w |-> NoWatcher] /\ requests = 0
  /\ overlapped = FALSE /\ quiet = {}

Alive(w)    == {l \in Loops : l[1] = w /\ loops[l] # Gone}
Starting(c) == request[c].op = "start"

-----------------------------------------------------------------------------
(* Requests.  The server takes no new ones once it shuts down. *)
Begin(c, op, ids) ==
  /\ request[c] = Free /\ closing.pc = "up"
  /\ requests < MaxRequests /\ requests' = requests + 1
  /\ op = "start" => made + Cardinality({d \in Handlers : Starting(d)}) < MaxWatchers
  /\ request' = [request EXCEPT ![c] = [op |-> op, pc |-> "read", w |-> NoWatcher, ids |-> ids]]
  /\ overlapped' = (overlapped \/ (op = "start" /\ \E d \in Handlers : Starting(d)))
  /\ UNCHANGED <<current, made, watched, cancelled, loops, closing, quiet>>

Goto(c, pc) == request' = [request EXCEPT ![c].pc = pc]
Answer(c)   == request' = [request EXCEPT ![c] = Free]

(* Slip: the running watcher is left alone. *)
StartReadsForget(c) ==
  /\ Starting(c) /\ request[c].pc = "read"
  /\ Goto(c, "make")
  /\ UNCHANGED <<current, made, watched, cancelled, loops, closing, requests, overlapped, quiet>>

(* StartWatcher: is there a watcher? *)
StartReads(c) ==
  /\ Starting(c) /\ request[c].pc = "read"
  /\ Goto(c, IF current = NoWatcher THEN "make" ELSE "stop")
  /\ UNCHANGED <<current, made, watched, cancelled, loops, closing, requests, overlapped, quiet>>

(* It is read again to stop it. *)
StartStops(c) ==
  /\ Starting(c) /\ request[c].pc = "stop"
  /\ request' = [request EXCEPT ![c].pc = "wait", ![c].w = current]
  /\ cancelled' = cancelled \cup {current}
  /\ UNCHANGED <<current, made, watched, loops, closing, requests, overlapped, quiet>>

(* Slip: Stop does not wait for the goroutine. *)
StopReturnsAtOnce(c) ==
  /\ request[c].pc = "wait"
  /\ quiet' = quiet \cup {request[c].w}
  /\ IF Starting(c) THEN Goto(c, "make") ELSE Answer(c)
  /\ UNCHANGED <<current, made, watched, cancelled, loops, closing, requests, overlapped>>

(* Stop returns when the goroutines of the watcher have. *)
StopReturns(c) ==
  /\ request[c].pc = "wait"
  /\ Alive(request[c].w) = {}
  /\ quiet' = quiet \cup {request[c].w}
  /\ IF Starting(c) THEN Goto(c, "make") ELSE Answer(c)
  /\ UNCHANGED <<current, made, watched, cancelled, loops, closing, requests, overlapped>>

StartMakes(c) ==
  /\ Starting(c) /\ request[c].pc = "make"
  /\ made' = made + 1
  /\ current' = made'
  /\ watched' = [watched EXCEPT ![made'] = request[c].ids]
  /\ Goto(c, "run")
  /\ UNCHANGED <<cancelled, loops, closing, requests, overlapped, quiet>>

(* k.watcher.Start(): of the watcher that k.watcher is by now. *)
StartRuns(c) ==
  /\ Starting(c) /\ request[c].pc = "run"
  /\ loops' = [loops EXCEPT ![<<current, c>>] = [pc |-> "wait", left |-> {}]]
  /\ Answer(c)
  /\ UNCHANGED <<current, made, watched, cancelled, closing, requests, overlapped, quiet>>

(* The other handlers hold on to the watcher they have read. *)
HandlerReads(c) ==
  /\ request[c].op \in {"stop", "watch", "unwatch"} /\ request[c].pc = "read"
  /\ IF current = NoWatcher THEN Answer(c)
     ELSE request' = [request EXCEPT ![c].w = current, ![c].pc = "do"]
  /\ UNCHANGED <<current, made, watched, cancelled, loops, closing, requests, overlapped, quiet>>

StopCancels(c) ==
  /\ request[c].op = "stop" /\ request[c].pc = "do"
  /\ cancelled' = cancelled \cup {request[c].w}
  /\ Goto(c, "wait")
  /\ UNCHANGED <<current, made, watched, loops, closing, requests, overlapped, quiet>>

Edit(c) ==
  /\ request[c].op \in {"watch", "unwatch"} /\ request[c].pc = "do"
  /\ watched' = [watched EXCEPT ![request[c].w] =
       IF request[c].op = "watch" THEN @ \cup request[c].ids ELSE @ \ request[c].ids]
  /\ Answer(c)
  /\ UNCHANGED <<current, made, cancelled, loops, closing, requests, overlapped, quiet>>

-----------------------------------------------------------------------------
(* Close.  The server waits ten seconds for its requests, no longer. *)
CloseBegins ==
  /\ closing.pc = "up"
  /\ closing' = [closing EXCEPT !.pc = IF current = NoWatcher THEN "closed" ELSE "stop"]
  /\ overlapped' = (overlapped \/ \E c \in Handlers : Starting(c))
  /\ UNCHANGED <<current, made, watched, cancelled, loops, request, requests, quiet>>

CloseStops ==
  /\ closing.pc = "stop"
  /\ cancelled' = cancelled \cup {current}
  /\ closing' = [pc |-> "wait", w |-> current]
  /\ UNCHANGED <<current, made, watched, loops, request, requests, overlapped, quiet>>

(* Then the store is closed. *)
CloseReturns ==
  /\ closing.pc = "wait"
  /\ Alive(closing.w) = {}
  /\ closing' = [closing EXCEPT !.pc = "closed"]
  /\ UNCHANGED <<current, made, watched, cancelled, loops, request, requests, overlapped, quiet>>

-----------------------------------------------------------------------------
(* run and checkAll, in a goroutine of watcher l[1]. *)
LoopVarsOnly == UNCHANGED <<current, made, watched, cancelled, request, closing, requests, overlapped, quiet>>

(* The timer or ticker; checkAll copies what is watched.  With both ready select
   takes either. *)
LoopBegins(l) ==
  /\ loops[l].pc = "wait"
  /\ loops' = [loops EXCEPT ![l] =
       [pc |-> "round", left |-> watched[l[1]] \X ({NoTeam} \cup Teams)]]
  /\ LoopVarsOnly

LoopReturns(l) ==
  /\ loops[l].pc = "wait" /\ l[1] \in cancelled
  /\ loops' = [loops EXCEPT ![l] = Gone]
  /\ LoopVarsOnly

(* The entities first, then each with each team. *)
NextChecks(left) ==
  {job \in left : job[2] = NoTeam \/ \A other \in left : other[2] # NoTeam}

LoopChecks(l) ==
  /\ loops[l].pc = "round" /\ l[1] \notin cancelled
  /\ \E job \in NextChecks(loops[l].left) :
       loops' = [loops EXCEPT ![l] = [pc |-> "check", left |-> @.left \ {job}]]
  /\ LoopVarsOnly

(* A check and its delivery end, early if the context is cancelled. *)
LoopChecked(l) ==
  /\ loops[l].pc = "check"
  /\ loops' = [loops EXCEPT ![l].pc = "round"]
  /\ LoopVarsOnly

LoopEndsRound(l) ==
  /\ loops[l].pc = "round" /\ (loops[l].left = {} \/ l[1] \in cancelled)
  /\ loops' = [loops EXCEPT ![l] = [pc |-> "wait", left |-> {}]]
  /\ LoopVarsOnly

Loop(l) == LoopChecks(l) \/ LoopChecked(l) \/ LoopEndsRound(l)

Handler(c) ==
  \/ StartReads(c) \/ StartStops(c) \/ StopReturns(c) \/ StartMakes(c) \/ StartRuns(c)
  \/ HandlerReads(c) \/ StopCancels(c) \/ Edit(c)

LifeNext ==
  \/ \E c \in Handlers : \/ \E ids \in SUBSET Watchable \ {{}} : Begin(c, "start", ids)
                        \/ Begin(c, "stop", {})
                        \/ \E e \in Watchable, op \in {"watch", "unwatch"} : Begin(c, op, {e})
                        \/ Handler(c)
  \/ \E l \in Loops : LoopBegins(l) \/ LoopReturns(l) \/ Loop(l)
  \/ CloseBegins \/ CloseStops \/ CloseReturns

LifeSpec == LifeInit /\ [][LifeNext]_lifeVars

(* Goroutines are scheduled, checks end, and a select does not for ever take the
   ticker when the context is done. *)
FairLifeSpec ==
  /\ LifeSpec
  /\ \A c \in Handlers : WF_lifeVars(Handler(c))
  /\ \A l \in Loops : WF_lifeVars(Loop(l)) /\ SF_lifeVars(LoopReturns(l))
  /\ WF_lifeVars(CloseStops) /\ WF_lifeVars(CloseReturns)

-----------------------------------------------------------------------------
(* Properties. *)

LifeTypeOK ==
  /\ current \in {NoWatcher} \cup 1 .. made /\ made \in 0 .. MaxWatchers
  /\ watched \in [Watchers -> SUBSET Watchable]
  /\ cancelled \subseteq Watchers /\ quiet \subseteq cancelled
  /\ \A l \in Loops : loops[l].left \subseteq Watchable \X ({NoTeam} \cup Teams)
  /\ closing \in [pc : {"up", "stop", "wait", "closed"}, w : {NoWatcher} \cup Watchers]
  /\ requests \in 0 .. MaxRequests

Running == {l \in Loops : loops[l] # Gone /\ l[1] \notin cancelled}

(* One loop runs at a time, that of k.watcher: unless starts overlap, nobody checks
   an entity twice, and no loop is out of the reach of a later Stop (keyoku.go,
   StartWatcher, which takes no lock). *)
OneLoopUnlessStartsOverlap ==
  ~overlapped => Cardinality(Running) <= 1 /\ \A l \in Running : l[1] = current

(* Nothing checks or delivers for a watcher whose Stop has come back, whatever
   overlaps, nor on a store that is closed, unless a start overlaps another or Close
   (watcher.go, Stop; keyoku.go, Close). *)
QuietAfterStop ==
  \A l \in Loops : loops[l].pc = "check" =>
     l[1] \notin quiet /\ (closing.pc = "closed" => overlapped)

(* A Stop comes back, and so does the one in Close, whatever overlaps: no round goes
   on for good (watcher.go, run and checkAll look at the context). *)
StopsComeBack ==
  /\ \A c \in Handlers : request[c].pc = "wait" ~> request[c].pc # "wait"
  /\ closing.pc = "wait" ~> closing.pc = "closed"
=============================================================================
