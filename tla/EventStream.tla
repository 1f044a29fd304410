------------------------------ MODULE EventStream ------------------------------
(***************************************************************************)
(* The event bus of a process, the hub that bridges it to the clients of   *)
(* the SSE endpoint, and the end of the server.  The bus starts a goroutine *)
(* for each event and handler and waits for none; the hub's handler is the *)
(* only one that the program registers.                                    *)
(***************************************************************************)
EXTENDS Integers, Sequences, FiniteSets, SequencesExt

CONSTANTS
  Clients,     \* connections, each made once at most
  Capacity,    \* of a client's channel (64)
  MaxEmitted   \* bound on the events that are emitted

ASSUME EventStreamAssumption == Capacity \in Nat \ {0} /\ MaxEmitted \in Nat

(* In the order of the calls of Emit: of an act, the umbrella first, then the events
   of its signals (emitHeartbeatEvents). *)
Events == 1 .. MaxEmitted

VARIABLES
  emitted,    \* how many events were emitted; an event is its number
  bridged,    \* the hub's handler is registered
  spawned,    \* the goroutines of events that have not begun to broadcast
  sending,    \* those that broadcast: the clients that each has still to try
  conn,       \* each connection: "new", "open", "done" (its context is), "gone"
  channel,    \* the channel of each
  server,     \* "up", "draining" (Shutdown waits for handlers), "down"
  received,   \* history: what was written to each client
  crashed     \* a send on a closed channel

streamVars == <<emitted, bridged, spawned, sending, conn, channel, server, received, crashed>>

StreamInit ==
  /\ emitted = 0 /\ bridged = FALSE
  /\ spawned = {} /\ sending = [e \in Events |-> {}]
  /\ conn = [c \in Clients |-> "new"] /\ channel = [c \in Clients |-> <<>>]
  /\ server = "up"
  /\ received = [c \in Clients |-> <<>>]
  /\ crashed = FALSE

-----------------------------------------------------------------------------
(* The bus. *)

(* BridgeKeyokuEvents; the watcher and the jobs may run already. *)
Bridge ==
  /\ ~bridged /\ bridged' = TRUE
  /\ UNCHANGED <<emitted, spawned, sending, conn, channel, server, received, crashed>>

(* Emit, by the engine, the jobs and the watcher. *)
Emit ==
  /\ emitted < MaxEmitted /\ emitted' = emitted + 1
  /\ spawned' = IF bridged THEN spawned \cup {emitted'} ELSE spawned
  /\ UNCHANGED <<bridged, sending, conn, channel, server, received, crashed>>

-----------------------------------------------------------------------------
(* The hub.  Clients come and go under its lock, and a broadcast holds it for
   reading from one end to the other. *)
Registered   == {c \in Clients : conn[c] \in {"open", "done"}}
Broadcasting == {e \in Events : sending[e] # {}}

BeginBroadcast(e) ==
  /\ e \in spawned
  /\ spawned' = spawned \ {e}
  /\ sending' = [sending EXCEPT ![e] = Registered]
  /\ UNCHANGED <<emitted, bridged, conn, channel, server, received, crashed>>

(* Slip: a client whose buffer is full waits for the next broadcast. *)
SendTwice(e, c) ==
  /\ c \in sending[e]
  /\ IF Len(channel[c]) < Capacity
     THEN /\ channel' = [channel EXCEPT ![c] = Append(@, e)]
          /\ sending' = [sending EXCEPT ![e] = @ \ {c}]
          /\ UNCHANGED spawned
     ELSE /\ sending' = [sending EXCEPT ![e] = @ \ {c}]
          /\ spawned' = spawned \cup {e}
          /\ UNCHANGED channel
  /\ crashed' = (crashed \/ conn[c] = "gone")
  /\ UNCHANGED <<emitted, bridged, conn, server, received>>

(* A full client is passed over. *)
Send(e, c) ==
  /\ c \in sending[e]
  /\ sending' = [sending EXCEPT ![e] = @ \ {c}]
  /\ channel' = IF Len(channel[c]) < Capacity THEN [channel EXCEPT ![c] = Append(@, e)] ELSE channel
  /\ crashed' = (crashed \/ conn[c] = "gone")
  /\ UNCHANGED <<emitted, bridged, spawned, conn, server, received>>

AddClient(c) ==
  /\ conn[c] = "new" /\ server = "up" /\ Broadcasting = {}
  /\ conn' = [conn EXCEPT ![c] = "open"]
  /\ UNCHANGED <<emitted, bridged, spawned, sending, channel, server, received, crashed>>

(* The client leaves, or a write to it fails. *)
Disconnect(c) ==
  /\ conn[c] = "open"
  /\ conn' = [conn EXCEPT ![c] = "done"]
  /\ UNCHANGED <<emitted, bridged, spawned, sending, channel, server, received, crashed>>

(* HandleSSE's loop; with both ready select may still take from the channel. *)
Forward(c) ==
  /\ conn[c] \in {"open", "done"} /\ channel[c] # <<>>
  /\ received' = [received EXCEPT ![c] = Append(@, Head(channel[c]))]
  /\ channel' = [channel EXCEPT ![c] = Tail(@)]
  /\ UNCHANGED <<emitted, bridged, spawned, sending, conn, server, crashed>>

(* Slip: the channel is closed without the lock. *)
RemoveClientUnlocked(c) ==
  /\ conn[c] = "done"
  /\ conn' = [conn EXCEPT ![c] = "gone"]
  /\ channel' = [channel EXCEPT ![c] = <<>>]
  /\ UNCHANGED <<emitted, bridged, spawned, sending, server, received, crashed>>

RemoveClient(c) ==
  /\ conn[c] = "done" /\ Broadcasting = {}
  /\ conn' = [conn EXCEPT ![c] = "gone"]
  /\ channel' = [channel EXCEPT ![c] = <<>>]
  /\ UNCHANGED <<emitted, bridged, spawned, sending, server, received, crashed>>

-----------------------------------------------------------------------------
(* Shutdown accepts no connections and waits for the handlers; nothing ends those
   of the clients that stay. *)
Shutdown ==
  /\ server = "up" /\ server' = "draining"
  /\ UNCHANGED <<emitted, bridged, spawned, sending, conn, channel, received, crashed>>

Drained ==
  /\ server = "draining" /\ Registered = {}
  /\ server' = "down"
  /\ UNCHANGED <<emitted, bridged, spawned, sending, conn, channel, received, crashed>>

(* After ten seconds it gives up, and the process ends. *)
ShutdownTimesOut ==
  /\ server = "draining"
  /\ server' = "down"
  /\ UNCHANGED <<emitted, bridged, spawned, sending, conn, channel, received, crashed>>

StreamNext ==
  /\ server # "down"
  /\ \/ Bridge \/ Emit
     \/ \E e \in Events : BeginBroadcast(e) \/ \E c \in Clients : Send(e, c)
     \/ \E c \in Clients : AddClient(c) \/ Disconnect(c) \/ Forward(c) \/ RemoveClient(c)
     \/ Shutdown \/ Drained \/ ShutdownTimesOut

StreamSpec == StreamInit /\ [][StreamNext]_streamVars

FairStreamSpec == StreamSpec /\ WF_streamVars(ShutdownTimesOut) /\ WF_streamVars(Drained)

-----------------------------------------------------------------------------
(* Properties. *)

StreamTypeOK ==
  /\ emitted \in 0 .. MaxEmitted /\ bridged \in BOOLEAN
  /\ spawned \subseteq Events /\ sending \in [Events -> SUBSET Clients]
  /\ conn \in [Clients -> {"new", "open", "done", "gone"}]
  /\ \A c \in Clients : channel[c] \in Seq(Events) /\ Len(channel[c]) <= Capacity
  /\ server \in {"up", "draining", "down"}

(* A broadcast never sends on the channel of a client that has gone: closing waits
   for the lock (sse.go, RemoveClient; such a send ends the process). *)
NoSendToTheGone == ~crashed

On(e, c) == e \in spawned \/ c \in sending[e]

Feeds ==
  INSTANCE Feed WITH
    connected <- [c \in Clients |-> conn[c] \in {"open", "done"}],
    full      <- [c \in Clients |-> Len(channel[c]) = Capacity],
    due       <- [c \in Clients |-> IF conn[c] \in {"open", "done"}
                                     THEN {e \in Events : On(e, c)} \cup Range(channel[c]) ELSE {}],
    got       <- received

(* The bus and the hub implement the feed for every client: no event is sent twice,
   made up, or lost before the buffer is full (events.go, Emit; sse.go). *)
ImplementsTheFeed == Feeds!FeedSpec

(* The umbrella event of an act, emitted before the events of its signals, comes
   first.  The code does not keep this: each event has a goroutine of its own. *)
EventsComeInOrder ==
  \A c \in Clients : \A i, j \in DOMAIN received[c] : i < j => received[c][i] < received[c][j]

(* The process ends once it was told to, though clients stay connected (main.go). *)
ShutdownEnds == server = "draining" ~> server = "down"
=============================================================================
