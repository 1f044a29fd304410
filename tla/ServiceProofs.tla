----------------------------- MODULE ServiceProofs -----------------------------
(***************************************************************************)
(* The event stream gives every client the feed it is promised, and never  *)
(* sends to one that has gone; the log of an agent tells the state; the    *)
(* budget, which forgets, is the limit it implements, and calls that       *)
(* overlap overspend it by a round at most.  For any numbers of clients,   *)
(* events, callers and kinds of call.                                      *)
(***************************************************************************)
EXTENDS EventStream, AgentState, Budget, FiniteSetTheorems, SequenceTheorems,
        WellFoundedInduction, TLAPS

-----------------------------------------------------------------------------
(* EventStream. *)

Connected(c) == conn[c] \in {"open", "done"}

StreamTypes ==
  /\ emitted \in 0 .. MaxEmitted /\ spawned \subseteq 1 .. emitted
  /\ sending \in [Events -> SUBSET Clients]
  /\ conn \in [Clients -> {"new", "open", "done", "gone"}]
  /\ channel \in [Clients -> Seq(Events)] /\ received \in [Clients -> Seq(Events)]
  /\ bridged \in BOOLEAN /\ server \in {"up", "draining", "down"}

(* The clients of a broadcast are in the hub, which they leave under its lock. *)
InTheHub ==
  /\ crashed = FALSE
  /\ \A e \in Events : \A c \in sending[e] : Connected(c)

(* An event is with its goroutine, or in a broadcast, or in the channel of a client. *)
InOnePlace ==
  /\ \A e \in Events : sending[e] # {} => e <= emitted /\ e \notin spawned
  /\ \A c \in Clients : \A i \in 1 .. Len(channel[c]) :
       /\ channel[c][i] <= emitted /\ channel[c][i] \notin spawned /\ c \notin sending[channel[c][i]]
       /\ \A j \in 1 .. Len(channel[c]) : i # j => channel[c][i] # channel[c][j]
  /\ \A c \in Clients : \A i \in 1 .. Len(received[c]) : received[c][i] <= emitted

Channels ==
  \A c \in Clients :
    /\ conn[c] \in {"new", "gone"} => channel[c] = <<>>
    /\ conn[c] = "new" => received[c] = <<>>
    /\ Len(channel[c]) <= Capacity

StreamInv == StreamTypes /\ InTheHub /\ InOnePlace /\ Channels

LEMMA StreamInitially == StreamInit => StreamInv
<1> SUFFICES ASSUME StreamInit PROVE StreamInv
  OBVIOUS
<1> USE EventStreamAssumption DEF StreamInit
<1>1. StreamTypes
  <2>1. <<>> \in Seq(Events)
    OBVIOUS
  <2>2. bridged \in BOOLEAN
    OBVIOUS
  <2>3. emitted \in 0 .. MaxEmitted /\ spawned \subseteq 1 .. emitted
    OBVIOUS
  <2> QED  BY <2>1, <2>2, <2>3 DEF StreamTypes
<1>2. InTheHub /\ InOnePlace
  BY DEF InTheHub, InOnePlace
<1>3. Channels
  BY DEF Channels
<1> QED
  BY <1>1, <1>2, <1>3 DEF StreamInv

(* The steps, taken apart. *)
LEMMA StreamCases ==
  ASSUME StreamNext, NEW P,
         Bridge => P, Emit => P,
         \A e \in Events : BeginBroadcast(e) => P,
         \A e \in Events, c \in Clients : Send(e, c) => P,
         \A c \in Clients : AddClient(c) \/ Disconnect(c) => P,
         \A c \in Clients : Forward(c) => P,
         \A c \in Clients : RemoveClient(c) => P,
         Shutdown \/ Drained \/ ShutdownTimesOut => P
  PROVE  P
BY DEF StreamNext

LEMMA StreamStep == StreamInv /\ [StreamNext]_streamVars => StreamInv'
<1> SUFFICES ASSUME StreamInv, [StreamNext]_streamVars PROVE StreamInv'
  OBVIOUS
<1>0. StreamTypes /\ InTheHub /\ InOnePlace /\ Channels
  BY DEF StreamInv
<1> USE <1>0, EventStreamAssumption
<1>1. ASSUME UNCHANGED <<emitted, spawned, sending, conn, channel, received, crashed>>,
             bridged' \in BOOLEAN, server' \in {"up", "draining", "down"}
      PROVE  StreamInv'
  BY <1>1 DEF StreamInv, StreamTypes, InTheHub, InOnePlace, Channels, Connected
<1>2. ASSUME Bridge \/ Shutdown \/ Drained \/ ShutdownTimesOut PROVE StreamInv'
  BY <1>1, <1>2 DEF Bridge, Shutdown, Drained, ShutdownTimesOut, StreamTypes
<1>3. ASSUME Emit PROVE StreamInv'
  <2>1. /\ emitted' = emitted + 1 /\ emitted' \in 1 .. MaxEmitted
        /\ spawned' \subseteq spawned \cup {emitted'}
        /\ UNCHANGED <<bridged, sending, conn, channel, server, received, crashed>>
    BY <1>3 DEF Emit, StreamTypes
  <2>2. StreamTypes'
    BY <2>1 DEF StreamTypes
  <2>3. InTheHub' /\ Channels'
    BY <2>1 DEF InTheHub, Channels, Connected
  <2>4. InOnePlace'
    BY <2>1, <2>2 DEF InOnePlace, StreamTypes, Events
  <2> QED  BY <2>2, <2>3, <2>4 DEF StreamInv
<1>4. ASSUME NEW e \in Events, BeginBroadcast(e) PROVE StreamInv'
  <2>1. /\ e \in spawned /\ spawned' = spawned \ {e}
        /\ sending' = [sending EXCEPT ![e] = Registered]
        /\ UNCHANGED <<emitted, bridged, conn, channel, server, received, crashed>>
    BY <1>4 DEF BeginBroadcast
  <2>2. StreamTypes'
    BY <2>1 DEF StreamTypes, Registered
  <2>3. InTheHub' /\ Channels'
    BY <2>1 DEF InTheHub, Channels, Connected, Registered, StreamTypes
  <2>4. InOnePlace'
    BY <2>1, <2>2 DEF InOnePlace, StreamTypes, Events
  <2> QED  BY <2>2, <2>3, <2>4 DEF StreamInv
<1>5. ASSUME NEW e \in Events, NEW c \in Clients, Send(e, c) PROVE StreamInv'
  <2>1. /\ c \in sending[e]
        /\ sending' = [sending EXCEPT ![e] = @ \ {c}]
        /\ channel' = IF Len(channel[c]) < Capacity THEN [channel EXCEPT ![c] = Append(@, e)] ELSE channel
        /\ crashed' = (crashed \/ conn[c] = "gone")
        /\ UNCHANGED <<emitted, bridged, spawned, conn, server, received>>
    BY <1>5 DEF Send
  <2>2. StreamTypes'
    BY <2>1 DEF StreamTypes
  <2>3. InTheHub'
    BY <2>1 DEF InTheHub, Connected, StreamTypes
  <2>4. Channels'
    <3>1. Connected(c) /\ Capacity \in Nat /\ channel[c] \in Seq(Events)
      BY <2>1 DEF StreamTypes, InTheHub
    <3>2. channel'[c] \in {channel[c], Append(channel[c], e)} /\ Len(channel'[c]) <= Capacity
      BY <2>1, <3>1 DEF StreamTypes, Channels
    <3>3. \A d \in Clients \ {c} : channel'[d] = channel[d]
      BY <2>1 DEF StreamTypes
    <3> QED  BY <2>1, <3>1, <3>2, <3>3 DEF Channels, Connected
  <2>5. InOnePlace'
    <3>1. /\ e <= emitted /\ e \notin spawned /\ channel[c] \in Seq(Events)
          /\ \A i \in 1 .. Len(channel[c]) : channel[c][i] # e
      BY <2>1 DEF InOnePlace, StreamTypes
    <3>2. \A d \in Clients \ {c} : channel'[d] = channel[d]
      BY <2>1 DEF StreamTypes
    <3>3. c \notin sending'[e] /\ \A f \in Events : sending'[f] \subseteq sending[f]
      BY <2>1 DEF StreamTypes
    <3>4. ASSUME NEW d \in Clients, NEW i \in 1 .. Len(channel'[d])
          PROVE  /\ channel'[d][i] <= emitted /\ channel'[d][i] \notin spawned
                 /\ d \notin sending'[channel'[d][i]]
                 /\ \A j \in 1 .. Len(channel'[d]) : i # j => channel'[d][i] # channel'[d][j]
      <4>1. CASE channel'[d] = channel[d]
        <5>1. channel[d][i] \in Events
          BY <3>4, <4>1 DEF StreamTypes
        <5> QED  BY <3>3, <3>4, <4>1, <5>1 DEF InOnePlace
      <4>2. CASE d = c /\ channel'[c] = Append(channel[c], e)
        <5>1. /\ Len(channel'[c]) = Len(channel[c]) + 1 /\ channel'[c][Len(channel[c]) + 1] = e
              /\ \A j \in 1 .. Len(channel[c]) : channel'[c][j] = channel[c][j]
              /\ Len(channel[c]) \in Nat
          BY <3>1, <4>2
        <5>2. CASE i = Len(channel[c]) + 1
          BY <3>1, <3>3, <4>2, <5>1, <5>2
        <5>3. CASE i \in 1 .. Len(channel[c])
          <6>1. channel[c][i] \in Events
            BY <3>1, <5>3
          <6> QED  BY <3>1, <3>3, <4>2, <5>1, <5>3, <6>1 DEF InOnePlace
        <5> QED  BY <3>4, <4>2, <5>1, <5>2, <5>3
      <4> QED  BY <2>1, <3>2, <4>1, <4>2 DEF StreamTypes
    <3> QED  BY <2>1, <3>3, <3>4 DEF InOnePlace
  <2> QED  BY <2>2, <2>3, <2>4, <2>5 DEF StreamInv
<1>6. ASSUME NEW c \in Clients, AddClient(c) \/ Disconnect(c) PROVE StreamInv'
  <2>1. /\ conn[c] \in {"new", "open"}
        /\ conn' = [conn EXCEPT ![c] = IF conn[c] = "new" THEN "open" ELSE "done"]
        /\ UNCHANGED <<emitted, bridged, spawned, sending, channel, server, received, crashed>>
    BY <1>6 DEF AddClient, Disconnect
  <2> QED
    BY <2>1 DEF StreamInv, StreamTypes, InTheHub, InOnePlace, Channels, Connected
<1>7. ASSUME NEW c \in Clients, Forward(c) PROVE StreamInv'
  <2>1. /\ conn[c] \in {"open", "done"} /\ channel[c] # <<>>
        /\ received' = [received EXCEPT ![c] = Append(@, Head(channel[c]))]
        /\ channel' = [channel EXCEPT ![c] = Tail(@)]
        /\ UNCHANGED <<emitted, bridged, spawned, sending, conn, server, crashed>>
    BY <1>7 DEF Forward
  <2>2. StreamTypes'
    BY <2>1 DEF StreamTypes
  <2>3. InTheHub' /\ Channels'
    BY <2>1 DEF InTheHub, Channels, Connected, StreamTypes
  <2>a. /\ Len(channel'[c]) = Len(channel[c]) - 1
        /\ \A i \in 1 .. Len(channel'[c]) : /\ i + 1 \in 1 .. Len(channel[c])
                                            /\ channel'[c][i] = channel[c][i + 1]
        /\ \A d \in Clients \ {c} : channel'[d] = channel[d] /\ received'[d] = received[d]
    BY <2>1 DEF StreamTypes
  <2>b. ASSUME NEW i \in 1 .. Len(received'[c]) PROVE received'[c][i] <= emitted
    <3>1. /\ received[c] \in Seq(Events) /\ Head(channel[c]) = channel[c][1]
          /\ 1 \in 1 .. Len(channel[c]) /\ received'[c] = Append(received[c], channel[c][1])
      BY <2>1 DEF StreamTypes
    <3>2. CASE i \in 1 .. Len(received[c])
      BY <3>1, <3>2 DEF InOnePlace
    <3>3. CASE i = Len(received[c]) + 1
      BY <3>1, <3>3 DEF InOnePlace
    <3> QED  BY <3>1, <3>2, <3>3
  <2>4. InOnePlace'
    <3>1. \A d \in Clients : \A i \in 1 .. Len(received'[d]) : received'[d][i] <= emitted
      BY <2>a, <2>b DEF InOnePlace
    <3>2. \A i \in 1 .. Len(channel'[c]) :
            /\ channel'[c][i] <= emitted /\ channel'[c][i] \notin spawned
            /\ c \notin sending[channel'[c][i]]
            /\ \A j \in 1 .. Len(channel'[c]) : i # j => channel'[c][i] # channel'[c][j]
      BY <2>a DEF InOnePlace
    <3>3. \A d \in Clients : \A i \in 1 .. Len(channel'[d]) :
            /\ channel'[d][i] <= emitted /\ channel'[d][i] \notin spawned
            /\ d \notin sending[channel'[d][i]]
            /\ \A j \in 1 .. Len(channel'[d]) : i # j => channel'[d][i] # channel'[d][j]
      <4>1. \A d \in Clients : d = c \/ channel'[d] = channel[d]
        BY <2>a
      <4> QED  BY <3>2, <4>1 DEF InOnePlace
    <3>4. \A e \in Events : sending[e] # {} => e <= emitted /\ e \notin spawned
      BY DEF InOnePlace
    <3>5. emitted' = emitted /\ spawned' = spawned /\ sending' = sending
      BY <2>1
    <3> QED  BY <3>1, <3>3, <3>4, <3>5 DEF InOnePlace
  <2> QED  BY <2>2, <2>3, <2>4 DEF StreamInv
<1>8. ASSUME NEW c \in Clients, RemoveClient(c) PROVE StreamInv'
  <2>1. /\ conn[c] = "done" /\ \A e \in Events : sending[e] = {}
        /\ conn' = [conn EXCEPT ![c] = "gone"] /\ channel' = [channel EXCEPT ![c] = <<>>]
        /\ UNCHANGED <<emitted, bridged, spawned, sending, server, received, crashed>>
    BY <1>8 DEF RemoveClient, Broadcasting
  <2>2. StreamTypes'
    BY <2>1 DEF StreamTypes
  <2>3. InTheHub' /\ Channels'
    BY <2>1 DEF InTheHub, Channels, Connected, StreamTypes
  <2>4. InOnePlace'
    BY <2>1, <2>2 DEF InOnePlace, StreamTypes, Events
  <2> QED  BY <2>2, <2>3, <2>4 DEF StreamInv
<1>9. CASE UNCHANGED streamVars
  BY <1>1, <1>9 DEF streamVars, StreamTypes
<1> QED
  BY <1>2, <1>3, <1>4, <1>5, <1>6, <1>7, <1>8, <1>9, StreamCases

LEMMA StreamInvariance == StreamSpec => []StreamInv
BY StreamInitially, StreamStep, PTL DEF StreamSpec

(* Whatever the clients do and however broadcasts interleave, none sends on a closed
   channel (sse.go, RemoveClient). *)
THEOREM NobodyGoneIsSentTo == StreamSpec => []NoSendToTheGone
<1>1. StreamInv => NoSendToTheGone
  BY DEF StreamInv, InTheHub, NoSendToTheGone
<1> QED
  BY <1>1, StreamInvariance, PTL

-----------------------------------------------------------------------------
(* The refinement, for each client. *)
Due(c) == IF Connected(c) THEN {e \in Events : On(e, c)} \cup Range(channel[c]) ELSE {}
Full(c) == Len(channel[c]) = Capacity

(* The steps of a client's feed, in these words. *)
LEMMA FeedOf ==
  ASSUME NEW c \in Clients
  PROVE  /\ Connected(c)' = Connected(c) /\ Full(c)' = Full(c) /\ Due(c)' = Due(c)
            /\ received'[c] = received[c]
            => Feeds!Rest(c)
         /\ ~Connected(c) /\ Connected(c)' /\ Due(c)' \subseteq Events \ Range(received[c])
            /\ Full(c)' = Full(c) /\ received'[c] = received[c]
            => Feeds!Connect(c)
         /\ Connected(c) /\ Connected(c)' /\ Full(c)' = Full(c) /\ received'[c] = received[c]
            /\ (\E e \in Events \ (Due(c) \cup Range(received[c])) : Due(c)' = Due(c) \cup {e})
            => Feeds!Offer(c)
         /\ Connected(c) /\ Connected(c)' /\ Due(c)' = Due(c) /\ received'[c] = received[c]
            => Feeds!Fill(c)
         /\ Connected(c) /\ Connected(c)' /\ ~Full(c)'
            /\ (\E e \in Due(c) : Due(c)' = Due(c) \ {e} /\ received'[c] = Append(received[c], e))
            => Feeds!Get(c)
         /\ Connected(c) /\ Connected(c)' /\ Full(c) /\ Full(c)' = Full(c) /\ received'[c] = received[c]
            /\ (\E e \in Due(c) : Due(c)' = Due(c) \ {e})
            => Feeds!Lose(c)
         /\ Connected(c) /\ ~Connected(c)' /\ Due(c)' = {} /\ ~Full(c)' /\ received'[c] = received[c]
            => Feeds!Leave(c)
<1> USE DEF Connected, Full, Due, Feeds!Range, Range
<1>1. Connected(c)' = Connected(c) /\ Full(c)' = Full(c) /\ Due(c)' = Due(c)
      /\ received'[c] = received[c]
      => Feeds!Rest(c)
  BY DEF Feeds!Rest
<1>2. ~Connected(c) /\ Connected(c)' /\ Due(c)' \subseteq Events \ Range(received[c])
      /\ Full(c)' = Full(c) /\ received'[c] = received[c]
      => Feeds!Connect(c)
  BY DEF Feeds!Connect
<1>3. Connected(c) /\ Connected(c)' /\ Full(c)' = Full(c) /\ received'[c] = received[c]
      /\ (\E e \in Events \ (Due(c) \cup Range(received[c])) : Due(c)' = Due(c) \cup {e})
      => Feeds!Offer(c)
  BY DEF Feeds!Offer
<1>4. Connected(c) /\ Connected(c)' /\ Due(c)' = Due(c) /\ received'[c] = received[c]
      => Feeds!Fill(c)
  BY DEF Feeds!Fill
<1>5. Connected(c) /\ Connected(c)' /\ ~Full(c)'
      /\ (\E e \in Due(c) : Due(c)' = Due(c) \ {e} /\ received'[c] = Append(received[c], e))
      => Feeds!Get(c)
  BY DEF Feeds!Get
<1>6. Connected(c) /\ Connected(c)' /\ Full(c) /\ Full(c)' = Full(c) /\ received'[c] = received[c]
      /\ (\E e \in Due(c) : Due(c)' = Due(c) \ {e})
      => Feeds!Lose(c)
  BY DEF Feeds!Lose
<1>7. Connected(c) /\ ~Connected(c)' /\ Due(c)' = {} /\ ~Full(c)' /\ received'[c] = received[c]
      => Feeds!Leave(c)
  BY DEF Feeds!Leave
<1> HIDE DEF Connected, Full, Due, Feeds!Range, Range
<1> QED
  BY <1>1, <1>2, <1>3, <1>4, <1>5, <1>6, <1>7

(* What is in a channel after an event went in, or out. *)
LEMMA InRange ==
  ASSUME NEW s \in Seq(Events), NEW x \in Range(s)
  PROVE  x \in Events /\ \E i \in 1 .. Len(s) : x = s[i]
BY DEF Range

LEMMA RangeHas ==
  ASSUME NEW s \in Seq(Events), NEW i \in 1 .. Len(s)
  PROVE  s[i] \in Range(s)
BY DEF Range

LEMMA RangeOfAppend ==
  ASSUME NEW s \in Seq(Events), NEW e \in Events
  PROVE  Range(Append(s, e)) = Range(s) \cup {e}
<1> DEFINE t == Append(s, e)
<1>1. t \in Seq(Events) /\ Len(t) = Len(s) + 1 /\ Len(s) \in Nat
  OBVIOUS
<1>2. t[Len(s) + 1] = e /\ \A i \in 1 .. Len(s) : t[i] = s[i]
  OBVIOUS
<1> HIDE DEF t
<1>3. ASSUME NEW x \in Range(t) PROVE x \in Range(s) \cup {e}
  <2>1. PICK i \in 1 .. Len(t) : x = t[i]
    BY <1>1, InRange
  <2>2. i = Len(s) + 1 \/ i \in 1 .. Len(s)
    BY <1>1
  <2> QED  BY <1>2, <2>1, <2>2, RangeHas
<1>4. e \in Range(t)
  <2>1. Len(s) + 1 \in 1 .. Len(t)
    BY <1>1
  <2>2. t[Len(s) + 1] \in Range(t)
    BY <1>1, <2>1, RangeHas
  <2> QED  BY <1>2, <2>2
<1>5. ASSUME NEW x \in Range(s) PROVE x \in Range(t)
  <2>1. PICK i \in 1 .. Len(s) : x = s[i]
    BY InRange
  <2>2. i \in 1 .. Len(t)
    BY <1>1
  <2>3. t[i] \in Range(t)
    BY <1>1, <2>2, RangeHas
  <2> QED  BY <1>2, <2>1, <2>3
<1>6. Range(t) = Range(s) \cup {e}
  BY <1>3, <1>4, <1>5
<1> QED
  BY <1>6 DEF t

LEMMA RangeOfTail ==
  ASSUME NEW s \in Seq(Events), s # <<>>
  PROVE  Head(s) \in Range(s) /\ Range(s) = Range(Tail(s)) \cup {Head(s)}
<1> DEFINE t == Tail(s)
<1>1. /\ t \in Seq(Events) /\ Len(t) = Len(s) - 1 /\ Len(s) \in Nat /\ Len(s) > 0
      /\ Head(s) = s[1]
      /\ \A i \in 1 .. Len(t) : t[i] = s[i + 1]
  OBVIOUS
<1> HIDE DEF t
<1>2. Head(s) \in Range(s)
  <2>1. 1 \in 1 .. Len(s)
    BY <1>1
  <2> QED  BY <1>1, <2>1, RangeHas
<1>3. ASSUME NEW x \in Range(t) PROVE x \in Range(s)
  <2>1. PICK i \in 1 .. Len(t) : x = t[i]
    BY <1>1, InRange
  <2>2. i + 1 \in 1 .. Len(s)
    BY <1>1
  <2> QED  BY <1>1, <2>1, <2>2, RangeHas
<1>4. ASSUME NEW x \in Range(s) PROVE x = Head(s) \/ x \in Range(t)
  <2>1. PICK i \in 1 .. Len(s) : x = s[i]
    BY InRange
  <2>2. CASE i = 1
    BY <1>1, <2>1, <2>2
  <2>3. CASE i # 1
    <3>1. i - 1 \in 1 .. Len(t) /\ (i - 1) + 1 = i
      BY <1>1, <2>3
    <3>2. t[i - 1] = x
      BY <1>1, <2>1, <3>1
    <3>3. t[i - 1] \in Range(t)
      BY <1>1, <3>1, RangeHas
    <3> QED  BY <3>2, <3>3
  <2> QED  BY <2>2, <2>3
<1>5. Range(s) = Range(t) \cup {Head(s)}
  BY <1>2, <1>3, <1>4
<1> QED
  BY <1>2, <1>5 DEF t

LEMMA FeedStep == StreamInv /\ [StreamNext]_streamVars => [Feeds!FeedNext]_(Feeds!feedVars)
<1> SUFFICES ASSUME StreamInv, [StreamNext]_streamVars PROVE [Feeds!FeedNext]_(Feeds!feedVars)
  OBVIOUS
<1>0. StreamTypes /\ InTheHub /\ InOnePlace /\ Channels
  BY DEF StreamInv
<1> DEFINE Fed(c) == \/ Feeds!Connect(c) \/ Feeds!Offer(c) \/ Feeds!Fill(c) \/ Feeds!Get(c)
                     \/ Feeds!Lose(c) \/ Feeds!Leave(c) \/ Feeds!Rest(c)
<1>1. SUFFICES ASSUME NEW c \in Clients PROVE Fed(c)
  BY <1>1 DEF Feeds!FeedNext
<1> HIDE DEF Fed
<1>a. ASSUME NEW e \in Range(channel[c])
      PROVE  e \in Events /\ e <= emitted /\ e \notin spawned /\ c \notin sending[e]
  <2>1. channel[c] \in Seq(Events)
    BY <1>0 DEF StreamTypes
  <2>2. e \in Events /\ \E i \in 1 .. Len(channel[c]) : e = channel[c][i]
    BY <2>1, InRange
  <2> QED  BY <1>0, <2>2 DEF InOnePlace
<1>b. ASSUME NEW e \in Range(received[c]) PROVE e <= emitted
  <2>1. received[c] \in Seq(Events)
    BY <1>0 DEF StreamTypes
  <2>2. \E i \in 1 .. Len(received[c]) : e = received[c][i]
    BY <2>1, InRange
  <2> QED  BY <1>0, <2>2 DEF InOnePlace
<1>2. ASSUME Connected(c)' = Connected(c), UNCHANGED <<channel, received>>,
             Connected(c) => \A e \in Events : On(e, c)' = On(e, c)
      PROVE  Fed(c)
  <2>1. Due(c)' = Due(c) /\ Full(c)' = Full(c)
    BY <1>2 DEF Due, Full
  <2> QED  BY <1>2, <2>1, FeedOf DEF Fed
<1>3. ASSUME Bridge \/ Shutdown \/ Drained \/ ShutdownTimesOut \/ UNCHANGED streamVars PROVE Fed(c)
  BY <1>2, <1>3 DEF Bridge, Shutdown, Drained, ShutdownTimesOut, streamVars, Connected, On
<1>4. ASSUME Emit PROVE Fed(c)
  <2>1. CASE ~bridged \/ ~Connected(c)
    BY <1>2, <1>4, <2>1 DEF Emit, Connected, On
  <2>2. CASE bridged /\ Connected(c)
    <3> DEFINE e == emitted + 1
    <3>1. /\ spawned' = spawned \cup {e} /\ UNCHANGED <<sending, conn, channel, received>>
          /\ emitted \in Nat /\ e \in Events
      BY <1>0, <1>4, <2>2, EventStreamAssumption DEF Emit, StreamTypes, Events
    <3>2. e \notin Due(c) \cup Range(received[c])
      <4>1. e > emitted /\ e \notin spawned
        BY <1>0, <3>1 DEF StreamTypes
      <4>2. c \notin sending[e]
        BY <1>0, <3>1, <4>1 DEF InOnePlace
      <4>3. e \notin Range(channel[c]) /\ e \notin Range(received[c])
        BY <1>0, <1>a, <1>b, <3>1, <4>1
      <4> HIDE DEF e
      <4> QED  BY <4>1, <4>2, <4>3 DEF Due, On
    <3>3. Due(c)' = Due(c) \cup {e}
      BY <2>2, <3>1 DEF Due, On, Connected
    <3>4. Connected(c)' /\ Full(c)' = Full(c) /\ received'[c] = received[c]
      BY <2>2, <3>1 DEF Connected, Full
    <3> HIDE DEF e
    <3> QED  BY <2>2, <3>1, <3>2, <3>3, <3>4, FeedOf DEF Fed
  <2> QED  BY <2>1, <2>2
<1>5. ASSUME NEW e \in Events, BeginBroadcast(e) PROVE Fed(c)
  <2>1. /\ e \in spawned /\ spawned' = spawned \ {e} /\ UNCHANGED <<conn, channel, received>>
        /\ \A f \in Events : sending'[f] = IF f = e THEN Registered ELSE sending[f]
    BY <1>0, <1>5 DEF BeginBroadcast, StreamTypes
  <2>2. Connected(c) => \A f \in Events : On(f, c)' = On(f, c)
    BY <2>1 DEF On, Registered, Connected
  <2> QED  BY <1>2, <2>1, <2>2 DEF Connected
<1>6. ASSUME NEW e \in Events, NEW d \in Clients, Send(e, d) PROVE Fed(c)
  <2>1. /\ d \in sending[e] /\ UNCHANGED <<conn, spawned, received>>
        /\ \A f \in Events : sending'[f] = IF f = e THEN sending[e] \ {d} ELSE sending[f]
        /\ channel'[c] = IF c = d /\ Len(channel[c]) < Capacity THEN Append(channel[c], e) ELSE channel[c]
    BY <1>0, <1>6 DEF Send, StreamTypes
  <2>2. Connected(c)' = Connected(c)
    BY <2>1 DEF Connected
  <2>3. CASE c # d
    <3>1. Due(c)' = Due(c) /\ Full(c)' = Full(c) /\ received'[c] = received[c]
      BY <2>1, <2>2, <2>3 DEF Due, Full, On
    <3> QED  BY <2>2, <3>1, FeedOf DEF Fed
  <2>4. CASE c = d
    <3>1. Connected(c) /\ e \notin spawned
      BY <1>0, <2>1, <2>4 DEF InTheHub, InOnePlace
    <3>2. \A f \in Events : On(f, c)' <=> On(f, c) /\ f # e
      BY <2>1, <2>4, <3>1 DEF On
    <3>3. On(e, c)
      BY <2>1, <2>4 DEF On
    <3>4. CASE Len(channel[c]) < Capacity
      <4>1. Range(channel'[c]) = Range(channel[c]) \cup {e}
        BY <1>0, <2>1, <2>4, <3>4, RangeOfAppend DEF StreamTypes
      <4>2. Due(c)' = Due(c) /\ received'[c] = received[c]
        BY <2>1, <2>2, <3>1, <3>2, <3>3, <4>1 DEF Due
      <4> QED  BY <2>2, <3>1, <4>2, FeedOf DEF Fed
    <3>5. CASE ~(Len(channel[c]) < Capacity)
      <4>1. channel'[c] = channel[c] /\ Full(c)
        BY <1>0, <2>1, <3>5, EventStreamAssumption DEF Full, Channels, StreamTypes
      <4>2. e \notin Range(channel[c])
        BY <1>a, <2>1, <2>4
      <4>3. Due(c)' = Due(c) \ {e} /\ e \in Due(c)
        BY <2>2, <3>1, <3>2, <3>3, <4>1, <4>2 DEF Due
      <4>4. Full(c)' = Full(c) /\ received'[c] = received[c]
        BY <2>1, <4>1 DEF Full
      <4> QED  BY <2>2, <3>1, <4>1, <4>3, <4>4, FeedOf DEF Fed
    <3> QED  BY <3>4, <3>5
  <2> QED  BY <2>3, <2>4
<1>7. ASSUME NEW d \in Clients, AddClient(d) \/ Disconnect(d) PROVE Fed(c)
  <2>1. UNCHANGED <<spawned, sending, channel, received>>
    BY <1>7 DEF AddClient, Disconnect
  <2>2. CASE c # d \/ Disconnect(d)
    <3>1. Connected(c)' = Connected(c)
      BY <1>0, <1>7, <2>2 DEF AddClient, Disconnect, Connected, StreamTypes
    <3> QED  BY <1>2, <2>1, <3>1 DEF On
  <2>3. CASE c = d /\ AddClient(d)
    <3>1. conn[c] = "new" /\ Connected(c)'
      BY <1>0, <2>3 DEF AddClient, Connected, StreamTypes
    <3>2. ~Connected(c) /\ channel[c] = <<>> /\ received[c] = <<>>
      BY <1>0, <3>1 DEF Channels, Connected
    <3>3. Range(channel'[c]) = {} /\ Range(received[c]) = {}
      BY <2>1, <3>2 DEF Range
    <3>4. Due(c)' \subseteq Events \ Range(received[c])
      BY <3>3 DEF Due
    <3>5. Full(c)' = Full(c) /\ received'[c] = received[c]
      BY <2>1 DEF Full
    <3> QED  BY <3>1, <3>2, <3>4, <3>5, FeedOf DEF Fed
  <2> QED  BY <1>7, <2>2, <2>3
<1>8. ASSUME NEW d \in Clients, Forward(d) PROVE Fed(c)
  <2>1. /\ Connected(d) /\ channel[d] # <<>> /\ UNCHANGED <<spawned, sending, conn>>
        /\ channel'[c] = IF c = d THEN Tail(channel[c]) ELSE channel[c]
        /\ received'[c] = IF c = d THEN Append(received[c], Head(channel[c])) ELSE received[c]
    BY <1>0, <1>8 DEF Forward, Connected, StreamTypes
  <2>2. Connected(c)' = Connected(c) /\ \A e \in Events : On(e, c)' = On(e, c)
    BY <2>1 DEF Connected, On
  <2>3. CASE c # d
    <3>1. Due(c)' = Due(c) /\ Full(c)' = Full(c) /\ received'[c] = received[c]
      BY <2>1, <2>2, <2>3 DEF Due, Full
    <3> QED  BY <2>2, <3>1, FeedOf DEF Fed
  <2>4. CASE c = d
    <3> DEFINE e == Head(channel[c])
    <3>1. channel[c] \in Seq(Events) /\ channel[c] # <<>>
      BY <1>0, <2>1, <2>4 DEF StreamTypes
    <3>2. e \in Range(channel[c]) /\ Range(channel[c]) = Range(channel'[c]) \cup {e}
      BY <2>1, <2>4, <3>1, RangeOfTail
    <3>3. e \notin Range(channel'[c])
      <4>1. /\ Tail(channel[c]) \in Seq(Events) /\ e = channel[c][1]
            /\ \A i \in 1 .. Len(Tail(channel[c])) :
                 /\ i + 1 \in 1 .. Len(channel[c]) /\ i + 1 # 1
                 /\ Tail(channel[c])[i] = channel[c][i + 1]
            /\ 1 \in 1 .. Len(channel[c])
        BY <3>1
      <4>2. \A i \in 1 .. Len(Tail(channel[c])) : Tail(channel[c])[i] # e
        BY <1>0, <4>1 DEF InOnePlace
      <4>3. \A x \in Range(Tail(channel[c])) :
              \E i \in 1 .. Len(Tail(channel[c])) : x = Tail(channel[c])[i]
        BY <4>1, InRange
      <4> QED  BY <2>1, <2>4, <3>1, <4>2, <4>3
    <3>4. e \in Events /\ ~On(e, c)
      BY <1>a, <3>2 DEF On
    <3>5. Due(c)' = Due(c) \ {e} /\ e \in Due(c)
      BY <2>1, <2>2, <2>4, <3>2, <3>3, <3>4 DEF Due
    <3>6. ~Full(c)'
      BY <1>0, <2>1, <2>4, <3>1, EventStreamAssumption DEF Full, Channels
    <3>7. received'[c] = Append(received[c], e)
      BY <2>1, <2>4
    <3> HIDE DEF e
    <3> QED  BY <2>1, <2>2, <2>4, <3>5, <3>6, <3>7, FeedOf DEF Fed
  <2> QED  BY <2>3, <2>4
<1>9. ASSUME NEW d \in Clients, RemoveClient(d) PROVE Fed(c)
  <2>1. /\ UNCHANGED <<spawned, sending, received>> /\ conn[d] = "done"
        /\ conn'[c] = IF c = d THEN "gone" ELSE conn[c]
        /\ channel'[c] = IF c = d THEN <<>> ELSE channel[c]
    BY <1>0, <1>9 DEF RemoveClient, StreamTypes
  <2>2. CASE c # d
    <3>1. Connected(c)' = Connected(c) /\ Due(c)' = Due(c) /\ Full(c)' = Full(c) /\ received'[c] = received[c]
      BY <2>1, <2>2 DEF Due, Full, Connected, On
    <3> QED  BY <3>1, FeedOf DEF Fed
  <2>3. CASE c = d
    <3>1. Connected(c) /\ ~Connected(c)' /\ Due(c)' = {} /\ received'[c] = received[c]
      BY <2>1, <2>3 DEF Due, Connected
    <3>2. ~Full(c)'
      BY <2>1, <2>3, EventStreamAssumption DEF Full
    <3> QED  BY <3>1, <3>2, FeedOf DEF Fed
  <2> QED  BY <2>2, <2>3
<1> QED
  BY <1>3, <1>4, <1>5, <1>6, <1>7, <1>8, <1>9, StreamCases

(* The refinement: for any clients, any buffer and any number of events, the bus and the
   hub give each client a feed, which nothing is sent to twice and which loses events to
   a full buffer only. *)
THEOREM StreamImplementsTheFeed == StreamSpec => ImplementsTheFeed
<1>1. StreamInit => Feeds!FeedInit
  <2> SUFFICES ASSUME StreamInit PROVE Feeds!FeedInit
    OBVIOUS
  <2>1. ASSUME NEW c \in Clients
        PROVE  ~Connected(c) /\ ~Full(c) /\ Due(c) = {} /\ received[c] = <<>>
    BY EventStreamAssumption DEF StreamInit, Connected, Full, Due
  <2> QED  BY <2>1 DEF Feeds!FeedInit, Connected, Full, Due
<1> QED
  BY <1>1, FeedStep, StreamInvariance, PTL DEF StreamSpec, ImplementsTheFeed, Feeds!FeedSpec

-----------------------------------------------------------------------------
(* AgentState. *)

AgentTypes ==
  /\ row \in Values \cup {Unregistered}
  /\ log \in Seq([previous : Values, next : Values])
  /\ job \in [Updaters -> [at : {"none", "registering", "asking", "logging", "writing"},
                           previous : Values \cup {Unregistered},
                           next : Values \cup {Unregistered}]]
  /\ \A u \in Updaters : /\ job[u].at \in {"asking", "logging", "writing"} => job[u].previous \in Values
                         /\ job[u].at \in {"logging", "writing"} => job[u].next \in Values

Chained ==
  /\ \A i \in 2 .. Len(log) : log[i].previous = log[i - 1].next
  /\ log # <<>> => log[1].previous = Empty

(* One call at a time is between its read and its write, of the state it has read; what
   it has logged is the end of the log, and without it the row is. *)
OneAtWork ==
  /\ \A u, v \in Updaters : Updating(u) /\ Updating(v) => u = v
  /\ \A u \in Updaters : Updating(u) =>
       /\ row # Unregistered
       /\ job[u].at # "writing" => job[u].previous = row
       /\ job[u].at = "writing" => log # <<>> /\ job[u].next = Last(log).next

RowIsTold ==
  /\ log = <<>> => row \in {Unregistered, Empty}
  /\ log # <<>> => /\ row # Unregistered
                   /\ row # Last(log).next => \E u \in Updaters : job[u].at = "writing"

LogInv == AgentTypes /\ (raced \/ lost \/ (Chained /\ OneAtWork /\ RowIsTold))

LEMMA LogInitially == AgentInit => LogInv
<1> SUFFICES ASSUME AgentInit PROVE LogInv
  OBVIOUS
<1> USE AgentStateAssumption DEF AgentInit
<1>1. AgentTypes
  BY DEF AgentTypes, NoJob
<1>2. Chained /\ OneAtWork /\ RowIsTold
  BY DEF Chained, OneAtWork, RowIsTold, Updating, NoJob
<1> QED
  BY <1>1, <1>2 DEF LogInv

LEMMA AgentTypesStep == AgentTypes /\ [AgentNext]_agentVars => AgentTypes'
<1> SUFFICES ASSUME AgentTypes, [AgentNext]_agentVars PROVE AgentTypes'
  OBVIOUS
<1> USE AgentStateAssumption DEF AgentTypes, NoJob, Goes
<1>1. ASSUME NEW u \in Updaters, RegisterChecks(u) \/ RegisterInserts(u) PROVE AgentTypes'
  BY <1>1 DEF RegisterChecks, RegisterInserts
<1>2. ASSUME NEW u \in Updaters, UpdateReads(u) \/ NothingChanges(u) PROVE AgentTypes'
  BY <1>2 DEF UpdateReads, NothingChanges
<1>3. ASSUME NEW u \in Updaters, ModelAnswers(u) PROVE AgentTypes'
  BY <1>3 DEF ModelAnswers
<1>4. ASSUME NEW u \in Updaters, LogsChange(u) PROVE AgentTypes'
  <2>1. /\ job[u].at = "logging" /\ row' = row
        /\ job' = [job EXCEPT ![u] = [at |-> "writing", previous |-> job[u].previous, next |-> job[u].next]]
    BY <1>4 DEF LogsChange
  <2>2. [previous |-> job[u].previous, next |-> job[u].next] \in [previous : Values, next : Values]
    BY <2>1
  <2>3. log' = log \/ log' = Append(log, [previous |-> job[u].previous, next |-> job[u].next])
    BY <1>4 DEF LogsChange
  <2> DEFINE Entry == [previous : Values, next : Values]
  <2>4. \A e \in Entry, s \in Seq(Entry) : Append(s, e) \in Seq(Entry)
    <3> HIDE DEF Entry
    <3> QED  OBVIOUS
  <2>5. log \in Seq(Entry)
    OBVIOUS
  <2>6. log' \in Seq(Entry)
    <3>1. [previous |-> job[u].previous, next |-> job[u].next] \in Entry
      BY <2>2
    <3> HIDE DEF Entry
    <3> QED  BY <2>3, <2>4, <2>5, <3>1
  <2> QED  BY <2>1, <2>6
<1>5. ASSUME NEW u \in Updaters, WritesState(u) PROVE AgentTypes'
  BY <1>5 DEF WritesState
<1>6. CASE UNCHANGED agentVars
  BY <1>6 DEF agentVars
<1> QED
  BY <1>1, <1>2, <1>3, <1>4, <1>5, <1>6 DEF AgentNext

LEMMA LogStep ==
  ASSUME AgentTypes, AgentTypes', ~raced, ~lost, Chained, OneAtWork, RowIsTold, [AgentNext]_agentVars
  PROVE  raced' \/ lost' \/ (Chained /\ OneAtWork /\ RowIsTold)'
<1> SUFFICES ASSUME ~raced', ~lost' PROVE (Chained /\ OneAtWork /\ RowIsTold)'
  OBVIOUS
<1>1. ASSUME NEW u \in Updaters, NEW where, NEW previous, NEW next, Goes(u, where, previous, next)
      PROVE  /\ job'[u].at = where /\ job'[u].previous = previous /\ job'[u].next = next
             /\ \A v \in Updaters \ {u} : job'[v] = job[v]
  BY <1>1 DEF Goes, AgentTypes
<1>2. ASSUME NEW u \in Updaters, RegisterChecks(u) PROVE (Chained /\ OneAtWork /\ RowIsTold)'
  <2>1. ~Updating(u) /\ UNCHANGED <<row, log>>
    BY <1>2 DEF RegisterChecks, Updating, NoJob
  <2>2. \A v \in Updaters : job'[v] = job[v] \/ (v = u /\ job'[v].at = "registering")
    BY <1>1, <1>2 DEF RegisterChecks
  <2> QED  BY <2>1, <2>2 DEF Chained, OneAtWork, RowIsTold, Updating
<1>3. ASSUME NEW u \in Updaters, RegisterInserts(u) \/ NothingChanges(u)
      PROVE  (Chained /\ OneAtWork /\ RowIsTold)'
  <2>1. /\ job[u].at # "writing" /\ job'[u].at = "none" /\ log' = log
        /\ \A v \in Updaters \ {u} : job'[v] = job[v]
        /\ row' = IF row = Unregistered /\ job[u].at = "registering" THEN Empty ELSE row
    BY <1>3 DEF RegisterInserts, NothingChanges, AgentTypes, NoJob
  <2> QED  BY <2>1, AgentStateAssumption DEF Chained, OneAtWork, RowIsTold, Updating
<1>4. ASSUME NEW u \in Updaters, UpdateReads(u) PROVE (Chained /\ OneAtWork /\ RowIsTold)'
  <2>1. ~Updating(u) /\ UNCHANGED <<row, log>>
    BY <1>4 DEF UpdateReads, Updating, NoJob
  <2>2. CASE UNCHANGED job
    BY <2>1, <2>2 DEF Chained, OneAtWork, RowIsTold, Updating
  <2>3. CASE row # Unregistered /\ Goes(u, "asking", row, Unregistered)
    <3>1. \A v \in Updaters \ {u} : ~Updating(v)
      BY <1>4, <2>3 DEF UpdateReads
    <3>2. job'[u].at = "asking" /\ job'[u].previous = row /\ \A v \in Updaters \ {u} : job'[v] = job[v]
      BY <1>1, <2>3
    <3> QED  BY <2>1, <2>3, <3>1, <3>2 DEF Chained, OneAtWork, RowIsTold, Updating
  <2> QED  BY <1>4, <2>2, <2>3 DEF UpdateReads
<1>5. ASSUME NEW u \in Updaters, ModelAnswers(u) PROVE (Chained /\ OneAtWork /\ RowIsTold)'
  <2>1. /\ job[u].at = "asking" /\ UNCHANGED <<row, log>>
        /\ job'[u].at = "logging" /\ job'[u].previous = job[u].previous
        /\ \A v \in Updaters \ {u} : job'[v] = job[v]
    BY <1>1, <1>5 DEF ModelAnswers
  <2> QED  BY <2>1 DEF Chained, OneAtWork, RowIsTold, Updating
<1>6. ASSUME NEW u \in Updaters, LogsChange(u) PROVE (Chained /\ OneAtWork /\ RowIsTold)'
  <2> DEFINE entry == [previous |-> job[u].previous, next |-> job[u].next]
  <2>1. /\ job[u].at = "logging" /\ row' = row /\ log' = Append(log, entry)
        /\ job'[u].at = "writing" /\ job'[u].next = job[u].next
        /\ \A v \in Updaters \ {u} : job'[v] = job[v]
    BY <1>1, <1>6 DEF LogsChange
  <2>2. job[u].previous = row /\ row # Unregistered /\ \A v \in Updaters \ {u} : ~Updating(v)
    BY <2>1 DEF OneAtWork, Updating
  <2>3. log # <<>> => row = Last(log).next
    BY <2>1, <2>2 DEF RowIsTold, Updating
  <2>4. entry \in [previous : Values, next : Values] /\ log \in Seq([previous : Values, next : Values])
    BY <2>1 DEF AgentTypes
  <2>5. entry.previous = row /\ entry.next = job[u].next
    BY <2>2
  <2> HIDE DEF entry
  <2>6. /\ Len(log') = Len(log) + 1 /\ Len(log) \in Nat /\ log'[Len(log) + 1] = entry /\ log' # <<>>
        /\ \A i \in 1 .. Len(log) : log'[i] = log[i]
    BY <2>1, <2>4
  <2>7. Last(log').next = job[u].next
    BY <2>5, <2>6 DEF Last
  <2>8. Chained'
    <3>1. CASE log = <<>>
      <4>1. row = Empty /\ Len(log') = 1 /\ log'[1] = entry
        BY <2>2, <2>6, <3>1 DEF RowIsTold
      <4> QED  BY <2>5, <4>1 DEF Chained
    <3>2. CASE log # <<>>
      <4>1. Len(log) >= 1
        BY <2>4, <3>2
      <4>2. log'[1].previous = Empty
        BY <2>6, <3>2, <4>1 DEF Chained
      <4>3. ASSUME NEW i \in 2 .. Len(log') PROVE log'[i].previous = log'[i - 1].next
        <5>1. CASE i = Len(log) + 1
          <6>1. i - 1 = Len(log) /\ log'[i - 1] = log[Len(log)] /\ log'[i] = entry
            BY <2>6, <4>1, <5>1
          <6> QED  BY <2>3, <2>5, <3>2, <6>1 DEF Last
        <5>2. CASE i # Len(log) + 1
          <6>1. i \in 2 .. Len(log) /\ i - 1 \in 1 .. Len(log) /\ i \in 1 .. Len(log)
            BY <2>6, <5>2
          <6> QED  BY <2>6, <6>1 DEF Chained
        <5> QED  BY <5>1, <5>2
      <4> QED  BY <4>2, <4>3 DEF Chained
    <3> QED  BY <3>1, <3>2
  <2>9. (OneAtWork /\ RowIsTold)'
    BY <2>1, <2>2, <2>6, <2>7 DEF OneAtWork, RowIsTold, Updating
  <2> QED  BY <2>8, <2>9
<1>7. ASSUME NEW u \in Updaters, WritesState(u) PROVE (Chained /\ OneAtWork /\ RowIsTold)'
  <2>1. /\ job[u].at = "writing" /\ job'[u].at = "none" /\ log' = log /\ row' = job[u].next
        /\ \A v \in Updaters \ {u} : job'[v] = job[v]
    BY <1>7 DEF WritesState, AgentTypes, NoJob
  <2>2. /\ log # <<>> /\ row' = Last(log).next /\ row' # Unregistered
        /\ \A v \in Updaters \ {u} : ~Updating(v)
    BY <2>1, AgentStateAssumption DEF OneAtWork, Updating, AgentTypes
  <2> QED  BY <2>1, <2>2 DEF Chained, OneAtWork, RowIsTold, Updating
<1>8. CASE UNCHANGED agentVars
  BY <1>8 DEF agentVars, Chained, OneAtWork, RowIsTold, Updating
<1> QED
  BY <1>2, <1>3, <1>4, <1>5, <1>6, <1>7, <1>8 DEF AgentNext

(* However many calls there are and whatever the model answers, the log tells the whole
   life of the state until calls overlap or a statement fails (state.go, Update). *)
THEOREM LogTellsTheWholeState == AgentSpec => []LogTellsTheState
<1>1. LogInv /\ [AgentNext]_agentVars => LogInv'
  <2>1. ASSUME LogInv, [AgentNext]_agentVars, raced \/ lost PROVE raced' \/ lost'
    <3>1. CASE UNCHANGED agentVars
      BY <2>1, <3>1 DEF agentVars
    <3>2. ASSUME NEW u \in Updaters,
                 RegisterChecks(u) \/ RegisterInserts(u) \/ NothingChanges(u) \/ ModelAnswers(u)
          PROVE  raced' \/ lost'
      BY <2>1, <3>2 DEF RegisterChecks, RegisterInserts, NothingChanges, ModelAnswers
    <3>3. ASSUME NEW u \in Updaters, UpdateReads(u) PROVE raced' \/ lost'
      BY <2>1, <3>3 DEF UpdateReads
    <3>4. ASSUME NEW u \in Updaters, LogsChange(u) \/ WritesState(u) PROVE raced' \/ lost'
      BY <2>1, <3>4 DEF LogsChange, WritesState
    <3> QED  BY <2>1, <3>1, <3>2, <3>3, <3>4 DEF AgentNext
  <2> QED  BY <2>1, AgentTypesStep, LogStep DEF LogInv
<1>2. LogInv => LogTellsTheState
  BY DEF LogInv, Chained, OneAtWork, RowIsTold, Updating, LogTellsTheState
<1> QED
  BY LogInitially, <1>1, <1>2, PTL DEF AgentSpec

-----------------------------------------------------------------------------
(* Budget: the two loops over entries. *)

LEMMA FirstOf ==
  ASSUME NEW S \in SUBSET Nat, S # {}
  PROVE  \E i \in S : \A j \in S : i <= j
<1>1. PICK i \in S : \A j \in S : ~ (<<j, i>> \in OpToRel(<, Nat))
  BY NatLessThanWellFounded, WFMin
<1>2. ASSUME NEW j \in S, j < i PROVE FALSE
  <2>1. <<j, i>> \in Nat \X Nat /\ <<j, i>>[1] < <<j, i>>[2]
    BY <1>2
  <2>2. <<j, i>> \in OpToRel(<, Nat)
    BY <2>1 DEF OpToRel
  <2> QED
    BY <1>1, <2>2
<1> QED
  BY <1>2

(* A loop has a result for every number of rounds. *)
LEMMA LoopExists ==
  ASSUME NEW D, NEW b \in D, NEW N \in Nat, NEW g \in [1 .. N -> [D -> D]]
  PROVE  \E f \in [0 .. N -> D] : f[0] = b /\ \A i \in 1 .. N : f[i] = g[i][f[i - 1]]
<1> DEFINE Runs(f, n) == f \in [0 .. n -> D] /\ f[0] = b /\ \A i \in 1 .. n : f[i] = g[i][f[i - 1]]
           Bad == {n \in Nat : n <= N /\ ~ \E f : Runs(f, n)}
<1>1. ASSUME Bad # {} PROVE FALSE
  <2>1. PICK n \in Bad : \A k \in Bad : n <= k
    BY <1>1, FirstOf
  <2>2. CASE n = 0
    <3>1. Runs([i \in 0 .. 0 |-> b], 0)
      OBVIOUS
    <3> QED
      BY <2>1, <2>2, <3>1
  <2>3. CASE n # 0
    <3>1. n \in Nat /\ n <= N /\ n - 1 \in Nat /\ n - 1 <= N /\ ~(n <= n - 1)
      BY <2>1, <2>3
    <3>2. \E f : Runs(f, n - 1)
      <4> HIDE DEF Runs
      <4> QED
        BY <2>1, <3>1
    <3>3. PICK f : Runs(f, n - 1)
      BY <3>2
    <3> DEFINE h == [i \in 0 .. n |-> IF i = n THEN g[n][f[n - 1]] ELSE f[i]]
    <3>4. f[n - 1] \in D /\ g[n][f[n - 1]] \in D
      BY <3>1, <3>3, <2>3
    <3>5. h \in [0 .. n -> D]
      <4>1. \A i \in 0 .. n : i # n => i \in 0 .. n - 1
        BY <3>1
      <4> QED
        BY <3>3, <3>4, <4>1
    <3>6. h[0] = b
      BY <2>3, <3>1, <3>3
    <3>7. ASSUME NEW i \in 1 .. n PROVE h[i] = g[i][h[i - 1]]
      <4>1. i \in 0 .. n /\ i - 1 \in 0 .. n /\ i - 1 # n /\ h[i - 1] = f[i - 1]
        BY <3>1
      <4>2. CASE i = n
        BY <4>1, <4>2
      <4>3. CASE i # n
        <5>1. i \in 1 .. n - 1
          BY <4>3, <3>1
        <5> QED
          BY <3>3, <4>1, <4>3, <5>1
      <4> QED
        BY <4>2, <4>3
    <3> HIDE DEF h
    <3>8. Runs(h, n)
      BY <3>5, <3>6, <3>7
    <3> HIDE DEF Runs
    <3> QED
      BY <2>1, <3>8
  <2> QED
    BY <2>2, <2>3
<1>2. N \in Nat /\ N <= N
  OBVIOUS
<1>3. \E f : Runs(f, N)
  <2> HIDE DEF Runs
  <2> QED
    BY <1>1, <1>2
<1> QED
  BY <1>3

(* A sequence is empty or one with an element more. *)
LEMMA LastComesLast ==
  ASSUME NEW S, NEW s \in Seq(S), s # << >>
  PROVE  LET l == Len(s) IN
         /\ l \in Nat \ {0} /\ SubSeq(s, 1, l - 1) \in Seq(S) /\ Len(SubSeq(s, 1, l - 1)) = l - 1
         /\ s[l] \in S /\ s = Append(SubSeq(s, 1, l - 1), s[l])
<1>1. Len(s) \in Nat \ {0} /\ s[Len(s)] \in S
  OBVIOUS
<1>2. SubSeq(s, 1, Len(s) - 1) \in Seq(S) /\ Len(SubSeq(s, 1, Len(s) - 1)) = Len(s) - 1
  <2>1. 1 \in Int /\ Len(s) - 1 \in Int /\ \A i \in 1 .. Len(s) - 1 : s[i] \in S
    BY <1>1
  <2>2. /\ SubSeq(s, 1, Len(s) - 1) \in Seq(S)
        /\ Len(SubSeq(s, 1, Len(s) - 1)) = IF 1 <= Len(s) - 1 THEN (Len(s) - 1) - 1 + 1 ELSE 0
    BY <2>1, SubSeqProperties
  <2> DEFINE k == Len(s) - 1
             b == SubSeq(s, 1, k)
  <2>3. k \in Nat /\ b \in Seq(S) /\ Len(b) = IF 1 <= k THEN k - 1 + 1 ELSE 0
    BY <1>1, <2>2
  <2> HIDE DEF k, b
  <2>4. Len(b) = k
    BY <2>3
  <2> QED
    BY <2>3, <2>4 DEF b, k
<1>3. s = Append(SubSeq(s, 1, Len(s) - 1), s[Len(s)])
  <2>1. \A i \in 1 .. Len(s) - 1 : SubSeq(s, 1, Len(s) - 1)[i] = s[i]
    BY <1>1
  <2> DEFINE b == SubSeq(s, 1, Len(s) - 1)
             c == Append(b, s[Len(s)])
  <2>2. b \in Seq(S) /\ Len(b) = Len(s) - 1 /\ \A i \in 1 .. Len(b) : b[i] = s[i]
    BY <1>2, <2>1
  <2> HIDE DEF b
  <2>3. c \in Seq(S) /\ Len(c) = Len(s) /\ \A i \in 1 .. Len(s) : c[i] = s[i]
    BY <1>1, <2>2
  <2> HIDE DEF c
  <2>4. s = c
    BY <2>3, SeqEqual
  <2> QED
    BY <2>4 DEF b, c
<1> QED
  BY <1>1, <1>2, <1>3

(* One round of the loop that keeps what is later than t. *)
Keep(s, t, i, x) == IF s[i].at > t THEN Append(x, s[i]) ELSE x

Kept(s, t) == CHOOSE f : f = [i \in 0 .. Len(s) |-> IF i = 0 THEN << >> ELSE Keep(s, t, i, f[i - 1])]

LEMMA KeptIs ==
  ASSUME NEW s \in Seq(Entries), NEW t \in Int
  PROVE  /\ Since(s, t) = Kept(s, t)[Len(s)]
         /\ \A i \in 0 .. Len(s) : Kept(s, t)[i] \in Seq(Entries)
         /\ Kept(s, t)[0] = << >>
         /\ \A i \in 1 .. Len(s) : Kept(s, t)[i] = Keep(s, t, i, Kept(s, t)[i - 1])
<1>1. Since(s, t) = Kept(s, t)[Len(s)]
  BY DEF Since, Kept, Keep
<1> DEFINE F(f) == [i \in 0 .. Len(s) |-> IF i = 0 THEN << >> ELSE Keep(s, t, i, f[i - 1])]
           g == [i \in 1 .. Len(s) |-> [x \in Seq(Entries) |-> Keep(s, t, i, x)]]
<1>2. \A i \in 1 .. Len(s), x \in Seq(Entries) : Keep(s, t, i, x) \in Seq(Entries)
  <2>1. \A i \in 1 .. Len(s) : s[i] \in Entries
    OBVIOUS
  <2> QED
    BY <2>1 DEF Keep
<1>3. Len(s) \in Nat /\ << >> \in Seq(Entries)
  OBVIOUS
<1>4. g \in [1 .. Len(s) -> [Seq(Entries) -> Seq(Entries)]]
  BY <1>2
<1> HIDE DEF g
<1>5. PICK f \in [0 .. Len(s) -> Seq(Entries)] :
        f[0] = << >> /\ \A i \in 1 .. Len(s) : f[i] = g[i][f[i - 1]]
  <2> DEFINE D == Seq(Entries)
             N == Len(s)
  <2>0. PICK b : b = << >>
    OBVIOUS
  <2>1. N \in Nat /\ b \in D /\ g \in [1 .. N -> [D -> D]]
    BY <1>3, <1>4, <2>0
  <2> HIDE DEF D, N
  <2>2. \E f \in [0 .. N -> D] : f[0] = b /\ \A i \in 1 .. N : f[i] = g[i][f[i - 1]]
    BY <2>1, LoopExists
  <2> QED
    BY <2>0, <2>2 DEF D, N
<1>6. ASSUME NEW i \in 1 .. Len(s) PROVE f[i] = Keep(s, t, i, f[i - 1])
  <2>1. i - 1 \in 0 .. Len(s) /\ f[i - 1] \in Seq(Entries)
    BY <1>3
  <2>2. g[i][f[i - 1]] = Keep(s, t, i, f[i - 1])
    BY <2>1 DEF g
  <2> QED
    BY <1>5, <2>2
<1>7. f = F(f)
  <2>1. \A i \in 0 .. Len(s) : f[i] = IF i = 0 THEN << >> ELSE Keep(s, t, i, f[i - 1])
    BY <1>3, <1>5, <1>6
  <2> QED
    BY <1>5, <2>1
<1>8. Kept(s, t) = F(Kept(s, t))
  BY <1>7 DEF Kept
<1>9. \A i \in 0 .. Len(s) : Kept(s, t)[i] = IF i = 0 THEN << >> ELSE Keep(s, t, i, Kept(s, t)[i - 1])
  BY <1>8
<1> HIDE DEF F
<1> DEFINE Bad == {i \in Nat : i \in 0 .. Len(s) /\ Kept(s, t)[i] \notin Seq(Entries)}
<1>10. ASSUME Bad # {} PROVE FALSE
  <2>1. PICK n \in Bad : \A k \in Bad : n <= k
    BY <1>10, FirstOf
  <2>2. CASE n = 0
    BY <1>3, <1>9, <2>1, <2>2
  <2>3. CASE n # 0
    <3>1. n - 1 \in Nat /\ n - 1 \in 0 .. Len(s) /\ ~(n <= n - 1) /\ n \in 1 .. Len(s)
      BY <1>3, <2>1, <2>3
    <3>2. Kept(s, t)[n - 1] \in Seq(Entries)
      BY <2>1, <3>1
    <3>3. Kept(s, t)[n] = Keep(s, t, n, Kept(s, t)[n - 1])
      BY <1>9, <2>1, <2>3
    <3>4. Kept(s, t)[n] \in Seq(Entries)
      BY <1>2, <3>1, <3>2, <3>3
    <3> QED
      BY <2>1, <3>4
  <2> QED
    BY <2>2, <2>3
<1>11. \A i \in 0 .. Len(s) : i \in Nat /\ Kept(s, t)[i] \in Seq(Entries)
  BY <1>3, <1>10
<1>12. 0 \in 0 .. Len(s) /\ \A i \in 1 .. Len(s) : i \in 0 .. Len(s) /\ i # 0
  BY <1>3
<1> QED
  BY <1>1, <1>9, <1>11, <1>12

(* The same loop over more entries begins with the same rounds. *)
LEMMA KeptOfMore ==
  ASSUME NEW s \in Seq(Entries), NEW e \in Entries, NEW t \in Int, NEW i \in 0 .. Len(s)
  PROVE  Kept(Append(s, e), t)[i] = Kept(s, t)[i]
<1> DEFINE a == Append(s, e)
           Bad == {k \in Nat : k \in 0 .. Len(s) /\ Kept(a, t)[k] # Kept(s, t)[k]}
<1>1. a \in Seq(Entries) /\ Len(a) = Len(s) + 1 /\ Len(s) \in Nat /\ \A k \in 1 .. Len(s) : a[k] = s[k]
  OBVIOUS
<1> HIDE DEF a
<1>2. /\ Kept(s, t)[0] = << >>
      /\ \A k \in 1 .. Len(s) : Kept(s, t)[k] = Keep(s, t, k, Kept(s, t)[k - 1])
  BY KeptIs
<1>3. /\ Kept(a, t)[0] = << >>
      /\ \A k \in 1 .. Len(s) + 1 : Kept(a, t)[k] = Keep(a, t, k, Kept(a, t)[k - 1])
  BY <1>1, KeptIs
<1>4. ASSUME Bad # {} PROVE FALSE
  <2>1. PICK n \in Bad : \A k \in Bad : n <= k
    BY <1>4, FirstOf
  <2>2. n # 0
    BY <1>2, <1>3, <2>1
  <2>3. n - 1 \in Nat /\ n - 1 \in 0 .. Len(s) /\ ~(n <= n - 1) /\ n \in 1 .. Len(s) /\ n \in 1 .. Len(s) + 1
    BY <1>1, <2>1, <2>2
  <2>4. Kept(a, t)[n - 1] = Kept(s, t)[n - 1]
    BY <2>1, <2>3
  <2>5. Keep(a, t, n, Kept(s, t)[n - 1]) = Keep(s, t, n, Kept(s, t)[n - 1])
    BY <1>1, <2>3 DEF Keep
  <2> QED
    BY <1>2, <1>3, <2>1, <2>3, <2>4, <2>5
<1> QED
  BY <1>1, <1>4 DEF a

LEMMA SinceIs ==
  /\ \A t \in Int : Since(<< >>, t) = << >>
  /\ \A s \in Seq(Entries), t \in Int : Since(s, t) \in Seq(Entries)
  /\ \A s \in Seq(Entries), t \in Int, e \in Entries :
       Since(Append(s, e), t) = IF e.at > t THEN Append(Since(s, t), e) ELSE Since(s, t)
<1>1. ASSUME NEW t \in Int PROVE Since(<< >>, t) = << >>
  <2>1. << >> \in Seq(Entries) /\ Len(<< >>) = 0
    OBVIOUS
  <2> QED
    BY <2>1, KeptIs
<1>2. ASSUME NEW s \in Seq(Entries), NEW t \in Int PROVE Since(s, t) \in Seq(Entries)
  <2>1. Len(s) \in 0 .. Len(s)
    OBVIOUS
  <2> QED
    BY <2>1, KeptIs
<1>3. ASSUME NEW s \in Seq(Entries), NEW t \in Int, NEW e \in Entries
      PROVE  Since(Append(s, e), t) = IF e.at > t THEN Append(Since(s, t), e) ELSE Since(s, t)
  <2> DEFINE a == Append(s, e)
             n == Len(s) + 1
  <2>1. a \in Seq(Entries) /\ Len(a) = n /\ n \in 1 .. n /\ n - 1 = Len(s) /\ a[n] = e /\ Len(s) \in 0 .. Len(s)
    OBVIOUS
  <2> HIDE DEF n
  <2>2. Kept(a, t)[Len(s)] = Kept(s, t)[Len(s)]
    BY <2>1, KeptOfMore
  <2> HIDE DEF a
  <2>3. Since(a, t) = Kept(a, t)[n] /\ Kept(a, t)[n] = Keep(a, t, n, Kept(a, t)[n - 1])
    BY <2>1, KeptIs
  <2>4. Since(s, t) = Kept(s, t)[Len(s)]
    BY KeptIs
  <2>5. Since(a, t) = Keep(a, t, n, Since(s, t))
    BY <2>1, <2>2, <2>3, <2>4
  <2>6. Keep(a, t, n, Since(s, t)) = IF e.at > t THEN Append(Since(s, t), e) ELSE Since(s, t)
    BY <2>1, Zenon DEF Keep
  <2> QED
    BY <2>5, <2>6 DEF a
<1> QED
  BY <1>1, <1>2, <1>3

(* Twice pruned is pruned by the later bound. *)
LEMMA SinceTwice ==
  ASSUME NEW t \in Int, NEW u \in Int, u <= t
  PROVE  \A s \in Seq(Entries) : Since(Since(s, u), t) = Since(s, t)
<1> DEFINE Bad == {n \in Nat : \E s \in Seq(Entries) : Len(s) = n /\ Since(Since(s, u), t) # Since(s, t)}
<1>1. ASSUME Bad # {} PROVE FALSE
  <2>1. PICK n \in Bad : \A k \in Bad : n <= k
    BY <1>1, FirstOf
  <2>2. PICK s \in Seq(Entries) : Len(s) = n /\ Since(Since(s, u), t) # Since(s, t)
    BY <2>1
  <2>3. CASE s = << >>
    BY <2>2, <2>3, SinceIs
  <2>4. CASE s # << >>
    <3>1. PICK b \in Seq(Entries), e \in Entries : s = Append(b, e) /\ Len(b) = Len(s) - 1
      BY <2>2, <2>4, LastComesLast
    <3>2. Len(b) \in Nat /\ ~(n <= Len(b))
      BY <2>2, <3>1
    <3>3. Since(Since(b, u), t) = Since(b, t)
      BY <2>1, <3>2
    <3>4. Since(b, u) \in Seq(Entries) /\ e.at \in Int
      <4>1. e.at \in Int
        BY BudgetAssumption DEF Entries
      <4> QED
        BY <4>1, SinceIs
    <3>5. /\ e.at > u => Since(s, u) = Append(Since(b, u), e)
          /\ ~(e.at > u) => Since(s, u) = Since(b, u)
          /\ e.at > t => Since(s, t) = Append(Since(b, t), e)
          /\ ~(e.at > t) => Since(s, t) = Since(b, t)
          /\ e.at > t => Since(Append(Since(b, u), e), t) = Append(Since(Since(b, u), t), e)
          /\ ~(e.at > t) => Since(Append(Since(b, u), e), t) = Since(Since(b, u), t)
      <4>1. \A x \in Seq(Entries), v \in Int :
              Since(Append(x, e), v) = IF e.at > v THEN Append(Since(x, v), e) ELSE Since(x, v)
        BY SinceIs
      <4>2. /\ Since(s, u) = IF e.at > u THEN Append(Since(b, u), e) ELSE Since(b, u)
            /\ Since(s, t) = IF e.at > t THEN Append(Since(b, t), e) ELSE Since(b, t)
            /\ Since(Append(Since(b, u), e), t) = IF e.at > t THEN Append(Since(Since(b, u), t), e)
                                                  ELSE Since(Since(b, u), t)
        BY <3>1, <3>4, <4>1, Zenon
      <4> QED
        BY <4>2, Zenon
    <3>6. e.at > t => e.at > u
      BY <3>4
    <3> HIDE DEF Bad
    <3> QED
      BY <2>2, <3>3, <3>5, <3>6
  <2> QED
    BY <2>3, <2>4
<1> QED
  <2>1. \A s \in Seq(Entries) : Len(s) \in Nat
    OBVIOUS
  <2> QED
    BY <1>1, <2>1

Sums(s) == CHOOSE f : f = [i \in 0 .. Len(s) |-> IF i = 0 THEN 0 ELSE f[i - 1] + s[i].tokens]

LEMMA SumsAre ==
  ASSUME NEW s \in Seq(Entries)
  PROVE  /\ SumTokens(s) = Sums(s)[Len(s)]
         /\ \A i \in 0 .. Len(s) : Sums(s)[i] \in Nat
         /\ Sums(s)[0] = 0
         /\ \A i \in 1 .. Len(s) : Sums(s)[i] = Sums(s)[i - 1] + s[i].tokens
<1>1. SumTokens(s) = Sums(s)[Len(s)]
  BY DEF SumTokens, Sums
<1> DEFINE F(f) == [i \in 0 .. Len(s) |-> IF i = 0 THEN 0 ELSE f[i - 1] + s[i].tokens]
           g == [i \in 1 .. Len(s) |-> [x \in Nat |-> x + s[i].tokens]]
<1>2. Len(s) \in Nat /\ \A i \in 1 .. Len(s) : s[i].tokens \in Nat
  <2>1. Len(s) \in Nat /\ \A i \in 1 .. Len(s) : s[i] \in Entries
    OBVIOUS
  <2>2. \A e \in Entries : e.tokens \in Nat
    BY DEF Entries
  <2> QED
    BY <2>1, <2>2
<1>3. g \in [1 .. Len(s) -> [Nat -> Nat]]
  BY <1>2
<1> HIDE DEF g
<1>4. PICK f \in [0 .. Len(s) -> Nat] : f[0] = 0 /\ \A i \in 1 .. Len(s) : f[i] = g[i][f[i - 1]]
  <2> DEFINE D == Nat
             N == Len(s)
  <2>0. PICK b : b = 0
    OBVIOUS
  <2>1. N \in Nat /\ b \in D /\ g \in [1 .. N -> [D -> D]]
    BY <1>2, <1>3, <2>0
  <2> HIDE DEF D, N
  <2>2. \E f \in [0 .. N -> D] : f[0] = b /\ \A i \in 1 .. N : f[i] = g[i][f[i - 1]]
    BY <2>1, LoopExists
  <2> QED
    BY <2>0, <2>2 DEF D, N
<1>5. ASSUME NEW i \in 1 .. Len(s) PROVE f[i] = f[i - 1] + s[i].tokens
  <2>1. i - 1 \in 0 .. Len(s) /\ f[i - 1] \in Nat
    BY <1>2
  <2>2. g[i][f[i - 1]] = f[i - 1] + s[i].tokens
    BY <2>1 DEF g
  <2> QED
    BY <1>4, <2>2
<1>6. f = F(f)
  <2>1. \A i \in 0 .. Len(s) : f[i] = IF i = 0 THEN 0 ELSE f[i - 1] + s[i].tokens
    BY <1>2, <1>4, <1>5
  <2> QED
    BY <1>4, <2>1
<1>7. Sums(s) = F(Sums(s))
  BY <1>6 DEF Sums
<1>8. \A i \in 0 .. Len(s) : Sums(s)[i] = IF i = 0 THEN 0 ELSE Sums(s)[i - 1] + s[i].tokens
  BY <1>7
<1> HIDE DEF F
<1> DEFINE Bad == {i \in Nat : i \in 0 .. Len(s) /\ Sums(s)[i] \notin Nat}
<1>9. ASSUME Bad # {} PROVE FALSE
  <2>1. PICK n \in Bad : \A k \in Bad : n <= k
    BY <1>9, FirstOf
  <2>2. n # 0
    BY <1>8, <2>1
  <2>3. n - 1 \in Nat /\ n - 1 \in 0 .. Len(s) /\ ~(n <= n - 1) /\ n \in 1 .. Len(s)
    BY <1>2, <2>1, <2>2
  <2>4. Sums(s)[n - 1] \in Nat
    BY <2>1, <2>3
  <2>5. Sums(s)[n] = Sums(s)[n - 1] + s[n].tokens
    BY <1>8, <2>1, <2>2
  <2>6. Sums(s)[n] \in Nat
    BY <1>2, <2>3, <2>4, <2>5
  <2> QED
    BY <2>1, <2>6
<1>10. \A i \in 0 .. Len(s) : i \in Nat /\ Sums(s)[i] \in Nat
  BY <1>2, <1>9
<1>11. 0 \in 0 .. Len(s) /\ \A i \in 1 .. Len(s) : i \in 0 .. Len(s) /\ i # 0
  BY <1>2
<1> QED
  BY <1>1, <1>8, <1>10, <1>11

LEMMA SumsOfMore ==
  ASSUME NEW s \in Seq(Entries), NEW e \in Entries, NEW i \in 0 .. Len(s)
  PROVE  Sums(Append(s, e))[i] = Sums(s)[i]
<1> DEFINE a == Append(s, e)
           Bad == {k \in Nat : k \in 0 .. Len(s) /\ Sums(a)[k] # Sums(s)[k]}
<1>1. a \in Seq(Entries) /\ Len(a) = Len(s) + 1 /\ Len(s) \in Nat /\ \A k \in 1 .. Len(s) : a[k] = s[k]
  OBVIOUS
<1> HIDE DEF a
<1>2. Sums(s)[0] = 0 /\ \A k \in 1 .. Len(s) : Sums(s)[k] = Sums(s)[k - 1] + s[k].tokens
  BY SumsAre
<1>3. Sums(a)[0] = 0 /\ \A k \in 1 .. Len(s) + 1 : Sums(a)[k] = Sums(a)[k - 1] + a[k].tokens
  BY <1>1, SumsAre
<1>4. ASSUME Bad # {} PROVE FALSE
  <2>1. PICK n \in Bad : \A k \in Bad : n <= k
    BY <1>4, FirstOf
  <2>2. n # 0
    BY <1>2, <1>3, <2>1
  <2>3. n - 1 \in Nat /\ n - 1 \in 0 .. Len(s) /\ ~(n <= n - 1) /\ n \in 1 .. Len(s) /\ n \in 1 .. Len(s) + 1
    BY <1>1, <2>1, <2>2
  <2>4. Sums(a)[n - 1] = Sums(s)[n - 1]
    BY <2>1, <2>3
  <2> QED
    BY <1>1, <1>2, <1>3, <2>1, <2>3, <2>4
<1> QED
  BY <1>1, <1>4 DEF a

LEMMA SumIs ==
  /\ SumTokens(<< >>) = 0
  /\ \A s \in Seq(Entries) : SumTokens(s) \in Nat
  /\ \A s \in Seq(Entries), e \in Entries : SumTokens(Append(s, e)) = SumTokens(s) + e.tokens
<1>1. SumTokens(<< >>) = 0
  <2>1. << >> \in Seq(Entries) /\ Len(<< >>) = 0
    OBVIOUS
  <2> QED
    BY <2>1, SumsAre
<1>2. ASSUME NEW s \in Seq(Entries) PROVE SumTokens(s) \in Nat
  <2>1. Len(s) \in 0 .. Len(s)
    OBVIOUS
  <2> QED
    BY <2>1, SumsAre
<1>3. ASSUME NEW s \in Seq(Entries), NEW e \in Entries
      PROVE  SumTokens(Append(s, e)) = SumTokens(s) + e.tokens
  <2> DEFINE a == Append(s, e)
             n == Len(s) + 1
  <2>1. a \in Seq(Entries) /\ Len(a) = n /\ n \in 1 .. n /\ n - 1 = Len(s) /\ a[n] = e /\ Len(s) \in 0 .. Len(s)
    OBVIOUS
  <2> HIDE DEF n
  <2>2. Sums(a)[Len(s)] = Sums(s)[Len(s)]
    BY <2>1, SumsOfMore
  <2> HIDE DEF a
  <2>3. SumTokens(a) = Sums(a)[n] /\ Sums(a)[n] = Sums(a)[n - 1] + a[n].tokens
    BY <2>1, SumsAre
  <2>4. SumTokens(s) = Sums(s)[Len(s)]
    BY SumsAre
  <2>5. SumTokens(a) = SumTokens(s) + e.tokens
    BY <2>1, <2>2, <2>3, <2>4
  <2> QED
    BY <2>5 DEF a
<1> QED
  BY <1>1, <1>2, <1>3

(* What the limit counts is the sum of what the window holds. *)
Counts(s, t) ==
  CHOOSE f : f = [i \in 0 .. Len(s) |->
                    IF i = 0 THEN 0 ELSE f[i - 1] + (IF s[i].at > t THEN s[i].tokens ELSE 0)]

LEMMA CountsAreSums ==
  ASSUME NEW s \in Seq(Entries), NEW t \in Int
  PROVE  Counts(s, t)[Len(s)] = SumTokens(Since(s, t))
<1> DEFINE F(f) == [i \in 0 .. Len(s) |->
                      IF i = 0 THEN 0 ELSE f[i - 1] + (IF s[i].at > t THEN s[i].tokens ELSE 0)]
           c == [i \in 0 .. Len(s) |-> SumTokens(Kept(s, t)[i])]
<1>0. Len(s) \in Nat /\ \A i \in 1 .. Len(s) : s[i] \in Entries /\ s[i].tokens \in Nat
  <2>1. Len(s) \in Nat /\ \A i \in 1 .. Len(s) : s[i] \in Entries
    OBVIOUS
  <2>2. \A e \in Entries : e.tokens \in Nat
    BY DEF Entries
  <2> QED
    BY <2>1, <2>2
<1>1. /\ Kept(s, t)[0] = << >> /\ \A i \in 0 .. Len(s) : Kept(s, t)[i] \in Seq(Entries)
      /\ \A i \in 1 .. Len(s) : Kept(s, t)[i] = Keep(s, t, i, Kept(s, t)[i - 1])
      /\ Since(s, t) = Kept(s, t)[Len(s)]
  BY KeptIs
<1>2. ASSUME NEW i \in 0 .. Len(s)
      PROVE  c[i] = IF i = 0 THEN 0 ELSE c[i - 1] + (IF s[i].at > t THEN s[i].tokens ELSE 0)
  <2>1. CASE i = 0
    BY <2>1, <1>0, <1>1, SumIs
  <2>2. CASE i # 0
    <3>1. i \in 1 .. Len(s) /\ i - 1 \in 0 .. Len(s)
      BY <1>0, <2>2
    <3>2. c[i] = SumTokens(Keep(s, t, i, Kept(s, t)[i - 1])) /\ c[i - 1] = SumTokens(Kept(s, t)[i - 1])
      BY <1>1, <3>1
    <3> DEFINE k == Kept(s, t)[i - 1]
    <3>3. k \in Seq(Entries) /\ s[i] \in Entries
      BY <1>0, <1>1, <3>1
    <3>4. SumTokens(Append(k, s[i])) = SumTokens(k) + s[i].tokens /\ SumTokens(k) \in Nat
      BY <3>3, SumIs
    <3>5. CASE s[i].at > t
      <4>1. Keep(s, t, i, k) = Append(k, s[i])
        BY <3>5 DEF Keep
      <4> QED
        BY <2>2, <3>2, <3>4, <3>5, <4>1
    <3>6. CASE ~(s[i].at > t)
      <4>1. Keep(s, t, i, k) = k
        BY <3>6 DEF Keep
      <4> QED
        BY <2>2, <3>2, <3>4, <3>6, <4>1
    <3> QED
      BY <3>5, <3>6
  <2> QED
    BY <2>1, <2>2
<1>3. c = F(c)
  BY <1>2
<1>4. Counts(s, t) = F(Counts(s, t))
  BY <1>3 DEF Counts
<1>5. \A i \in 0 .. Len(s) : c[i] \in Nat
  BY <1>1, SumIs
<1> DEFINE d == Counts(s, t)
           Bad == {i \in Nat : i \in 0 .. Len(s) /\ d[i] # c[i]}
<1>6. \A i \in 0 .. Len(s) :
        d[i] = IF i = 0 THEN 0 ELSE d[i - 1] + (IF s[i].at > t THEN s[i].tokens ELSE 0)
  BY <1>4
<1>7. c[Len(s)] = SumTokens(Since(s, t))
  BY <1>0, <1>1
<1> HIDE DEF F, c, d
<1>8. ASSUME Bad # {} PROVE FALSE
  <2>1. PICK n \in Bad : \A k \in Bad : n <= k
    BY <1>8, FirstOf
  <2>2. n # 0
    BY <1>2, <1>6, <2>1
  <2>3. n - 1 \in Nat /\ n - 1 \in 0 .. Len(s) /\ ~(n <= n - 1) /\ n \in 0 .. Len(s)
    BY <1>0, <2>1, <2>2
  <2>4. d[n - 1] = c[n - 1]
    BY <2>1, <2>3
  <2>5. /\ d[n] = d[n - 1] + (IF s[n].at > t THEN s[n].tokens ELSE 0)
        /\ c[n] = c[n - 1] + (IF s[n].at > t THEN s[n].tokens ELSE 0)
    BY <1>2, <1>6, <2>2, <2>3
  <2> QED
    BY <2>1, <2>4, <2>5
<1>9. Len(s) \in 0 .. Len(s) /\ Len(s) \in Nat
  BY <1>0
<1> QED
  BY <1>7, <1>8, <1>9 DEF d

-----------------------------------------------------------------------------
(* Budget: the limit on the tokens of a window. *)

(* What was pruned no later look at the window would find, and a caller that waits for
   the model was let through. *)
BudgetInv ==
  /\ BudgetTypeOK
  /\ \A t \in Int : t >= clock - WindowSize => Since(entries, t) = Since(ledger, t)
  /\ \A c \in Callers : call[c] # NoCall => c \notin turned

LEMMA KindsAreCalls ==
  /\ NoCall \notin Kinds
  /\ \A k \in Kinds : k.estimate \in Nat /\ k.least \in Nat /\ k.most \in Nat
<1>1. \A k \in Kinds : k.estimate \in Nat \ {0} /\ k.least \in Nat \ {0} /\ k.most \in Nat \ {0}
  BY BudgetAssumption
<1>2. NoCall.estimate = 0
  BY DEF NoCall
<1> QED
  BY <1>1, <1>2

LEMMA BudgetStarts == BudgetInit => BudgetInv
<1> SUFFICES ASSUME BudgetInit PROVE BudgetInv
  OBVIOUS
<1>1. clock \in 0 .. MaxNow /\ calls \in 0 .. MaxCalls
  BY BudgetAssumption DEF BudgetInit
<1>2. entries \in Seq(Entries) /\ ledger \in Seq(Entries) /\ entries = ledger
  BY DEF BudgetInit
<1>3. call \in [Callers -> Kinds \cup {NoCall}] /\ turned = {}
  BY DEF BudgetInit
<1> QED
  BY <1>1, <1>2, <1>3 DEF BudgetInv, BudgetTypeOK

LEMMA PruningKeeps ==
  ASSUME BudgetInv
  PROVE  /\ PruneOldEntries(entries) \in Seq(Entries)
         /\ \A t \in Int : t >= clock - WindowSize => Since(PruneOldEntries(entries), t) = Since(ledger, t)
<1> DEFINE u == clock - WindowSize
<1>1. u \in Int /\ entries \in Seq(Entries) /\ \A t \in Int : t >= u => Since(entries, t) = Since(ledger, t)
  BY BudgetAssumption DEF BudgetInv, BudgetTypeOK
<1>2. PruneOldEntries(entries) = Since(entries, u)
  BY DEF PruneOldEntries
<1> HIDE DEF u
<1>3. ASSUME NEW t \in Int, t >= u PROVE Since(Since(entries, u), t) = Since(ledger, t)
  <2>1. u <= t
    BY <1>1, <1>3
  <2> QED
    BY <1>1, <1>3, <2>1, SinceTwice
<1>4. Since(entries, u) \in Seq(Entries)
  BY <1>1, SinceIs
<1> QED
  BY <1>2, <1>3, <1>4 DEF u

LEMMA CanSpendKeeps ==
  ASSUME BudgetInv, NEW c \in Callers, NEW k \in Kinds, CanSpend(c, k)
  PROVE  BudgetInv'
<1>1. entries' \in Seq(Entries) /\ \A t \in Int : t >= clock - WindowSize => Since(entries', t) = Since(ledger, t)
  <2>1. CASE MaxTokensPerMinute = 0
    BY <2>1 DEF BudgetInv, BudgetTypeOK, CanSpend
  <2>2. CASE MaxTokensPerMinute # 0
    BY <2>2, PruningKeeps DEF CanSpend
  <2> QED
    BY <2>1, <2>2
<1>2. clock' \in 0 .. MaxNow /\ ledger' \in Seq(Entries) /\ clock' = clock /\ ledger' = ledger
  BY DEF BudgetInv, BudgetTypeOK, CanSpend
<1>3. calls' \in 0 .. MaxCalls
  BY BudgetAssumption DEF BudgetInv, BudgetTypeOK, CanSpend
<1>4. \/ call' = [call EXCEPT ![c] = k] /\ turned' = turned \ {c}
      \/ call' = call /\ turned' = turned \cup {c} /\ call[c] = NoCall
  BY DEF CanSpend
<1>5. call' \in [Callers -> Kinds \cup {NoCall}] /\ turned' \subseteq Callers
  BY <1>4 DEF BudgetInv, BudgetTypeOK
<1>6. \A d \in Callers : call'[d] # NoCall => d \notin turned'
  BY <1>4 DEF BudgetInv, BudgetTypeOK
<1>7. \A t \in Int : t >= clock' - WindowSize => Since(entries', t) = Since(ledger', t)
  BY <1>1, <1>2
<1> QED
  BY <1>1, <1>2, <1>3, <1>5, <1>6, <1>7 DEF BudgetInv, BudgetTypeOK

LEMMA RecordKeeps ==
  ASSUME BudgetInv, NEW c \in Callers, NEW tokens \in call[c].least .. call[c].most, Record(c, tokens)
  PROVE  BudgetInv' /\ [at |-> clock, tokens |-> tokens] \in Entries
<1> DEFINE e == [at |-> clock, tokens |-> tokens]
<1>1. tokens \in Nat
  <2>1. call[c] \in Kinds
    BY DEF BudgetInv, BudgetTypeOK, Record
  <2>2. call[c].least \in Nat /\ call[c].most \in Nat
    BY <2>1, KindsAreCalls
  <2> QED
    BY <2>2
<1>2. e \in Entries
  BY <1>1 DEF BudgetInv, BudgetTypeOK, Entries
<1>3. entries' = Append(entries, e) /\ ledger' = Append(ledger, e)
  BY DEF Record
<1> HIDE DEF e
<1>4. entries' \in Seq(Entries) /\ ledger' \in Seq(Entries)
  BY <1>2, <1>3 DEF BudgetInv, BudgetTypeOK
<1>5. /\ clock' = clock /\ turned' = turned /\ calls' = calls
      /\ call' = [call EXCEPT ![c] = NoCall]
  BY DEF Record
<1>6. ASSUME NEW t \in Int, t >= clock - WindowSize PROVE Since(entries', t) = Since(ledger', t)
  <2>1. Since(entries, t) = Since(ledger, t) /\ entries \in Seq(Entries) /\ ledger \in Seq(Entries)
    BY <1>6 DEF BudgetInv, BudgetTypeOK
  <2>2. /\ Since(Append(entries, e), t) = IF e.at > t THEN Append(Since(entries, t), e) ELSE Since(entries, t)
        /\ Since(Append(ledger, e), t) = IF e.at > t THEN Append(Since(ledger, t), e) ELSE Since(ledger, t)
    BY <1>2, <2>1, SinceIs
  <2> QED
    BY <1>3, <2>1, <2>2
<1>7. call' \in [Callers -> Kinds \cup {NoCall}] /\ \A d \in Callers : call'[d] # NoCall => d \notin turned
  BY <1>5 DEF BudgetInv, BudgetTypeOK
<1>8. clock \in 0 .. MaxNow /\ turned \subseteq Callers /\ calls \in 0 .. MaxCalls
  BY DEF BudgetInv, BudgetTypeOK
<1>9. \A t \in Int : t >= clock' - WindowSize => Since(entries', t) = Since(ledger', t)
  BY <1>5, <1>6
<1>10. BudgetTypeOK'
  BY <1>4, <1>5, <1>7, <1>8 DEF BudgetTypeOK
<1>11. \A d \in Callers : call'[d] # NoCall => d \notin turned'
  BY <1>5, <1>7
<1>12. BudgetInv'
  BY <1>9, <1>10, <1>11 DEF BudgetInv
<1> QED
  BY <1>2, <1>12 DEF e

LEMMA OtherStepsKeep ==
  ASSUME BudgetInv,
         \/ \E c \in Callers : CallFails(c)
         \/ CurrentWindowUsage \/ BudgetTick \/ UNCHANGED budgetVars
  PROVE  BudgetInv'
<1>1. CASE \E c \in Callers : CallFails(c)
  <2>1. PICK c \in Callers : CallFails(c)
    BY <1>1
  <2>2. /\ UNCHANGED <<clock, entries, turned, calls, ledger>>
        /\ call' = [call EXCEPT ![c] = NoCall]
    BY <2>1 DEF CallFails
  <2>3. call' \in [Callers -> Kinds \cup {NoCall}] /\ \A d \in Callers : call'[d] # NoCall => d \notin turned
    BY <2>2 DEF BudgetInv, BudgetTypeOK
  <2> QED
    BY <2>2, <2>3 DEF BudgetInv, BudgetTypeOK
<1>2. CASE CurrentWindowUsage
  <2>1. entries' = PruneOldEntries(entries) /\ UNCHANGED <<clock, call, turned, calls, ledger>>
    BY <1>2 DEF CurrentWindowUsage
  <2>2. entries' \in Seq(Entries) /\ \A t \in Int : t >= clock - WindowSize => Since(entries', t) = Since(ledger, t)
    BY <2>1, PruningKeeps
  <2> QED
    BY <2>1, <2>2 DEF BudgetInv, BudgetTypeOK
<1>3. CASE BudgetTick
  <2>1. clock' = clock + 1 /\ clock' \in 0 .. MaxNow /\ UNCHANGED <<entries, call, turned, calls, ledger>>
    BY <1>3, BudgetAssumption DEF BudgetTick, BudgetInv, BudgetTypeOK
  <2>2. \A t \in Int : t >= clock' - WindowSize => t >= clock - WindowSize
    BY <2>1, BudgetAssumption DEF BudgetInv, BudgetTypeOK
  <2> QED
    BY <2>1, <2>2 DEF BudgetInv, BudgetTypeOK
<1>4. CASE UNCHANGED budgetVars
  BY <1>4 DEF budgetVars, BudgetInv, BudgetTypeOK
<1> QED
  BY <1>1, <1>2, <1>3, <1>4

LEMMA BudgetStepsKeep == BudgetInv /\ [BudgetNext]_budgetVars => BudgetInv'
<1> SUFFICES ASSUME BudgetInv, [BudgetNext]_budgetVars PROVE BudgetInv'
  OBVIOUS
<1>1. CASE \E c \in Callers, k \in Kinds : CanSpend(c, k)
  BY <1>1, CanSpendKeeps
<1>2. CASE \E c \in Callers : \E tokens \in call[c].least .. call[c].most : Record(c, tokens)
  BY <1>2, RecordKeeps
<1>3. CASE \/ \E c \in Callers : CallFails(c)
           \/ CurrentWindowUsage \/ BudgetTick \/ UNCHANGED budgetVars
  BY <1>3, OtherStepsKeep
<1> QED
  BY <1>1, <1>2, <1>3 DEF BudgetNext

(* The window, its ledger and the calls under way keep their shape, for any number
   of callers (budget.go, TokenBudget). *)
THEOREM BudgetTypeOKAlways == BudgetSpec => []BudgetTypeOK
<1>1. BudgetInv => BudgetTypeOK
  BY DEF BudgetInv
<1> QED
  BY <1>1, BudgetStarts, BudgetStepsKeep, PTL DEF BudgetSpec

LEMMA UsedIsInWindow ==
  ASSUME BudgetInv
  PROVE  Limit!Used = SumTokens(Since(entries, clock - WindowSize)) /\ Limit!Used = InWindow
<1>1. clock - WindowSize \in Int /\ ledger \in Seq(Entries)
  BY BudgetAssumption DEF BudgetInv, BudgetTypeOK
<1>2. Limit!Used = Counts(ledger, clock - WindowSize)[Len(ledger)]
  BY DEF Limit!Used, Counts
<1>3. Counts(ledger, clock - WindowSize)[Len(ledger)] = SumTokens(Since(ledger, clock - WindowSize))
  BY <1>1, CountsAreSums
<1>4. Since(entries, clock - WindowSize) = Since(ledger, clock - WindowSize)
  BY <1>1 DEF BudgetInv
<1> QED
  BY <1>2, <1>3, <1>4 DEF InWindow

LEMMA BudgetStepsAreLimitSteps ==
  ASSUME BudgetInv, [BudgetNext]_budgetVars
  PROVE  [Limit!WindowNext]_(Limit!windowVars)
<1> DEFINE flying == {c \in Callers : call[c] # NoCall}
<1>1. ASSUME NEW c \in Callers, NEW k \in Kinds, CanSpend(c, k) PROVE Limit!LetThrough(c) \/ Limit!Refuse(c)
  <2>1. UNCHANGED <<clock, ledger>>
    BY <1>1 DEF CanSpend
  <2>2. MaxTokensPerMinute # 0 => SumTokens(entries') = Limit!Used
    BY <1>1, UsedIsInWindow DEF CanSpend, PruneOldEntries
  <2>3. k.estimate \in {j.estimate : j \in Kinds} /\ k # NoCall
    BY KindsAreCalls
  <2>4. CASE call' = [call EXCEPT ![c] = k] /\ turned' = turned \ {c}
             /\ (MaxTokensPerMinute = 0 \/ HasRoom(entries', k.estimate))
    <3>1. flying' = flying \cup {c}
      BY <2>3, <2>4 DEF BudgetInv, BudgetTypeOK
    <3>2. MaxTokensPerMinute = 0 \/ Limit!Used + k.estimate <= MaxTokensPerMinute
      BY <2>2, <2>4 DEF HasRoom
    <3> QED
      BY <2>1, <2>3, <2>4, <3>1, <3>2 DEF Limit!LetThrough
  <2>5. CASE call' = call /\ turned' = turned \cup {c}
             /\ MaxTokensPerMinute # 0 /\ ~HasRoom(entries', k.estimate)
    <3>1. flying' = flying
      BY <2>5
    <3>2. Limit!Used + k.estimate > MaxTokensPerMinute
      <4>1. Limit!Used \in Nat
        <5>1. clock - WindowSize \in Int /\ entries \in Seq(Entries)
          BY BudgetAssumption DEF BudgetInv, BudgetTypeOK
        <5> QED
          BY <5>1, UsedIsInWindow, SinceIs, SumIs
      <4>2. ~(Limit!Used + k.estimate <= MaxTokensPerMinute)
        BY <2>2, <2>5 DEF HasRoom
      <4>3. k.estimate \in Nat /\ MaxTokensPerMinute \in Nat
        BY KindsAreCalls, BudgetAssumption
      <4> DEFINE u == Limit!Used
                 s == k.estimate
      <4>4. u \in Nat /\ s \in Nat /\ ~(u + s <= MaxTokensPerMinute)
        BY <4>1, <4>2, <4>3
      <4> HIDE DEF u, s
      <4>5. u + s > MaxTokensPerMinute
        BY <4>3, <4>4
      <4> QED
        BY <4>5 DEF u, s
    <3> QED
      BY <2>1, <2>3, <2>5, <3>1, <3>2 DEF Limit!Refuse
  <2> QED
    BY <1>1, <2>4, <2>5 DEF CanSpend
<1>2. ASSUME NEW c \in Callers, NEW tokens \in call[c].least .. call[c].most, Record(c, tokens)
      PROVE  Limit!Spend(c)
  <2> DEFINE e == [at |-> clock, tokens |-> tokens]
  <2>1. e \in Entries /\ ledger \in Seq(Entries)
    BY <1>2, RecordKeeps DEF BudgetInv, BudgetTypeOK
  <2>2. ledger' = Append(ledger, e) /\ UNCHANGED <<clock, turned>> /\ e.at = clock
    BY <1>2 DEF Record
  <2> HIDE DEF e
  <2>3. c \in flying /\ flying' = flying \ {c}
    BY <1>2 DEF Record, BudgetInv, BudgetTypeOK
  <2>4. /\ ledger' # << >> /\ Len(ledger') = Len(ledger) + 1 /\ ledger'[Len(ledger')] = e
        /\ Len(ledger) \in Nat
    BY <2>1, <2>2
  <2>5. SubSeq(ledger', 1, Len(ledger') - 1) = ledger
    <3>1. SubSeq(Append(ledger, e), 1, Len(Append(ledger, e)) - 1) = ledger
      BY <2>1, AppendProperties
    <3> QED
      BY <2>2, <3>1
  <2> QED
    BY <2>2, <2>3, <2>4, <2>5 DEF Limit!Spend, Limit!Front, Limit!Last
<1>3. ASSUME NEW c \in Callers, CallFails(c) PROVE Limit!GiveUp(c)
  <2>1. flying' = flying \ {c}
    BY <1>3 DEF CallFails, BudgetInv, BudgetTypeOK
  <2>2. UNCHANGED <<clock, turned, ledger>> /\ turned = turned \ {c}
    BY <1>3 DEF CallFails, BudgetInv
  <2> QED
    BY <2>1, <2>2 DEF Limit!GiveUp
<1>4. CASE CurrentWindowUsage \/ UNCHANGED budgetVars
  BY <1>4 DEF CurrentWindowUsage, budgetVars, Limit!windowVars
<1>5. CASE BudgetTick
  BY <1>5 DEF BudgetTick, Limit!TimePasses, Limit!WindowNext
<1> QED
  BY <1>1, <1>2, <1>3, <1>4, <1>5 DEF BudgetNext, Limit!WindowNext

(* The budget, which forgets what left the window, lets through and refuses exactly
   the calls that a limit which forgets nothing would (budget.go, CanSpend, Record,
   pruneOldEntries). *)
THEOREM BudgetImplementsTheLimit == BudgetSpec => ImplementsTheLimit
<1>1. BudgetInit => Limit!WindowInit
  BY DEF BudgetInit, Limit!WindowInit
<1>2. BudgetInv /\ [BudgetNext]_budgetVars => [Limit!WindowNext]_(Limit!windowVars)
  BY BudgetStepsAreLimitSteps
<1> QED
  BY <1>1, <1>2, BudgetStarts, BudgetStepsKeep, PTL DEF BudgetSpec, ImplementsTheLimit

-----------------------------------------------------------------------------
(* Budget: how far overlapping calls overspend. *)

LEMMA TimesGrows ==
  /\ \A i, m \in Nat : i * m \in Nat
  /\ \A i, j, m \in Nat : i <= j => i * m <= j * m
<1>0. \A i, m \in Nat : i * m \in Nat
  OBVIOUS
<1> SUFFICES ASSUME NEW i \in Nat, NEW j \in Nat, NEW m \in Nat, i <= j PROVE i * m <= j * m
  BY <1>0
<1>1. PICK k \in Nat : j = i + k
  <2>1. j - i \in Nat /\ j = i + (j - i)
    OBVIOUS
  <2> QED
    BY <2>1
<1>2. (i + k) * m = i * m + k * m
  OBVIOUS
<1>3. k * m \in Nat /\ i * m \in Nat
  OBVIOUS
<1> QED
  BY <1>1, <1>2, <1>3

LEMMA OneLess == \A i \in Nat \ {0}, m \in Nat : i * m \in Nat /\ (i - 1) * m \in Nat /\ (i - 1) * m + m = i * m
<1> SUFFICES ASSUME NEW i \in Nat \ {0}, NEW m \in Nat
             PROVE  i * m \in Nat /\ (i - 1) * m \in Nat /\ (i - 1) * m + m = i * m
  OBVIOUS
<1>1. PICK k \in Nat : i = k + 1 /\ k = i - 1
  <2>1. i - 1 \in Nat /\ i = (i - 1) + 1
    OBVIOUS
  <2> QED
    BY <2>1
<1>2. (k + 1) * m = k * m + m /\ k * m \in Nat /\ (k + 1) * m \in Nat
  OBVIOUS
<1> QED
  BY <1>1, <1>2

LEMMA MaxIsGreatest ==
  ASSUME NEW S \in SUBSET Int, IsFiniteSet(S), S # {}
  PROVE  Max(S) \in S /\ \A x \in S : x <= Max(S)
<1> DEFINE Top(T) == \E m \in T : \A x \in T : x <= m
           Bad == {n \in Nat : \E T \in SUBSET Int : IsFiniteSet(T) /\ T # {} /\ Cardinality(T) = n /\ ~Top(T)}
<1>1. ASSUME Bad # {} PROVE FALSE
  <2>1. PICK n \in Bad : \A k \in Bad : n <= k
    BY <1>1, FirstOf
  <2>2. PICK T \in SUBSET Int : IsFiniteSet(T) /\ T # {} /\ Cardinality(T) = n /\ ~Top(T)
    BY <2>1
  <2>3. PICK e : e \in T
    BY <2>2
  <2> DEFINE U == T \ {e}
  <2>4. IsFiniteSet(U) /\ Cardinality(U) = n - 1 /\ Cardinality(U) \in Nat /\ U \in SUBSET Int
    BY <2>2, <2>3, FS_RemoveElement, FS_CardinalityType
  <2>5. CASE U = {}
    <3>1. T = {e} /\ e \in Int
      BY <2>3, <2>5
    <3> QED
      BY <2>2, <3>1
  <2>6. CASE U # {}
    <3>1. Top(U)
      <4>1. n \in Nat /\ ~(n <= n - 1)
        BY <2>1
      <4> HIDE DEF Top, U
      <4> QED
        BY <2>1, <2>4, <2>6, <4>1
    <3>2. PICK m \in U : \A x \in U : x <= m
      BY <3>1
    <3>3. e \in Int /\ m \in Int /\ m \in T /\ \A x \in T : x = e \/ x \in U
      BY <2>2, <2>3, <2>4, <3>2
    <3>4. CASE e <= m
      BY <2>2, <3>2, <3>3, <3>4
    <3>5. CASE ~(e <= m)
      <4>1. \A x \in T : x <= e
        <5>1. ASSUME NEW x \in U PROVE x <= e
          <6>1. x <= m /\ x \in Int
            BY <2>4, <3>2
          <6> QED
            BY <3>3, <3>5, <6>1
        <5> HIDE DEF U
        <5> QED
          BY <3>3, <5>1
      <4> QED
        BY <2>2, <2>3, <4>1
    <3> QED
      BY <3>4, <3>5
  <2> QED
    BY <2>5, <2>6
<1>2. Top(S)
  <2>1. Cardinality(S) \in Nat
    BY FS_CardinalityType
  <2> HIDE DEF Top
  <2> QED
    BY <1>1, <2>1
<1>3. \E m \in S : \A x \in S : m >= x
  BY <1>2
<1>4. Max(S) \in S /\ \A x \in S : Max(S) >= x
  BY <1>3 DEF Max
<1> QED
  BY <1>4

LEMMA MinIsSmallest ==
  ASSUME NEW S \in SUBSET Nat, S # {}
  PROVE  Min(S) \in S /\ \A x \in S : Min(S) <= x
<1>1. \E m \in S : \A x \in S : m <= x
  BY FirstOf
<1> QED
  BY <1>1 DEF Min

(* The estimates and uses of Kinds have bounds. *)
Largest  == Max({k.most : k \in Kinds})
Smallest == Min({k.estimate : k \in Kinds})

LEMMA KindsAreBounded ==
  /\ Largest \in Nat /\ Smallest \in Nat
  /\ \A k \in Kinds : k.most <= Largest /\ Smallest <= k.estimate
  /\ Max({0, MaxTokensPerMinute - Smallest}) \in Nat
  /\ MaxTokensPerMinute - Smallest <= Max({0, MaxTokensPerMinute - Smallest})
<1> DEFINE mosts == {k.most : k \in Kinds}
           estimates == {k.estimate : k \in Kinds}
<1>1. Kinds # {} /\ IsFiniteSet(Kinds) /\ MaxTokensPerMinute \in Nat
  BY BudgetAssumption
<1>2. mosts \in SUBSET Nat /\ estimates \in SUBSET Nat /\ mosts # {} /\ estimates # {}
  BY <1>1, KindsAreCalls
<1>3. IsFiniteSet(mosts)
  <2> DEFINE f == [k \in Kinds |-> k.most]
  <2>1. f \in [Kinds -> mosts] /\ \A x \in mosts : \E k \in Kinds : f[k] = x
    OBVIOUS
  <2>2. f \in Surjection(Kinds, mosts)
    BY <2>1 DEF Surjection
  <2> HIDE DEF f, mosts
  <2> QED
    BY <1>1, <2>2, FS_Surjection
<1>4. Largest \in mosts /\ \A x \in mosts : x <= Largest
  <2>1. mosts \in SUBSET Int
    BY <1>2
  <2> QED
    BY <1>2, <1>3, <2>1, MaxIsGreatest DEF Largest
<1>5. Smallest \in estimates /\ \A x \in estimates : Smallest <= x
  BY <1>2, MinIsSmallest DEF Smallest
<1>6. Largest \in Nat /\ Smallest \in Nat
  BY <1>2, <1>4, <1>5
<1>7. \A k \in Kinds : k.most <= Largest /\ Smallest <= k.estimate
  BY <1>4, <1>5
<1> DEFINE room == MaxTokensPerMinute - Smallest
           pair == {0, room}
<1>8. room \in Int /\ pair \in SUBSET Int /\ pair # {} /\ 0 \in pair /\ room \in pair
  BY <1>1, <1>6
<1>9. IsFiniteSet(pair)
  <2>1. IsFiniteSet({0}) /\ pair = {0} \cup {room}
    BY FS_Singleton
  <2> HIDE DEF pair, room
  <2> QED
    BY <2>1, FS_AddElement
<1>10. Max(pair) \in pair /\ \A x \in pair : x <= Max(pair)
  BY <1>8, <1>9, MaxIsGreatest
<1>11. Max(pair) \in Nat /\ room <= Max(pair)
  BY <1>8, <1>10
<1> QED
  BY <1>6, <1>7, <1>11

(* A later look at the window finds no more. *)
LEMMA WindowShrinks ==
  ASSUME NEW t \in Int, NEW u \in Int, t <= u
  PROVE  \A s \in Seq(Entries) : SumTokens(Since(s, u)) <= SumTokens(Since(s, t))
<1> DEFINE Bad == {n \in Nat : \E s \in Seq(Entries) : /\ Len(s) = n
                                                       /\ ~(SumTokens(Since(s, u)) <= SumTokens(Since(s, t)))}
<1>1. ASSUME Bad # {} PROVE FALSE
  <2>1. PICK n \in Bad : \A k \in Bad : n <= k
    BY <1>1, FirstOf
  <2>2. PICK s \in Seq(Entries) : Len(s) = n /\ ~(SumTokens(Since(s, u)) <= SumTokens(Since(s, t)))
    BY <2>1
  <2>3. CASE s = << >>
    BY <2>2, <2>3, SinceIs, SumIs
  <2>4. CASE s # << >>
    <3>1. PICK b \in Seq(Entries), e \in Entries : s = Append(b, e) /\ Len(b) = Len(s) - 1
      BY <2>2, <2>4, LastComesLast
    <3>2. Len(b) \in Nat /\ ~(n <= Len(b))
      BY <2>2, <3>1
    <3>3. SumTokens(Since(b, u)) <= SumTokens(Since(b, t))
      BY <2>1, <3>2
    <3>4. e.at \in Int /\ e.tokens \in Nat
      BY BudgetAssumption DEF Entries
    <3>5. Since(b, u) \in Seq(Entries) /\ Since(b, t) \in Seq(Entries)
      BY SinceIs
    <3> DEFINE x == SumTokens(Since(b, u))
               y == SumTokens(Since(b, t))
    <3>6. x \in Nat /\ y \in Nat
      BY <3>5, SumIs
    <3>7. /\ SumTokens(Append(Since(b, u), e)) = x + e.tokens
          /\ SumTokens(Append(Since(b, t), e)) = y + e.tokens
      BY <3>5, SumIs
    <3>8. /\ Since(s, u) = IF e.at > u THEN Append(Since(b, u), e) ELSE Since(b, u)
          /\ Since(s, t) = IF e.at > t THEN Append(Since(b, t), e) ELSE Since(b, t)
      BY <3>1, SinceIs
    <3>9. SumTokens(Since(s, u)) = IF e.at > u THEN x + e.tokens ELSE x
      BY <3>7, <3>8
    <3>10. SumTokens(Since(s, t)) = IF e.at > t THEN y + e.tokens ELSE y
      BY <3>7, <3>8
    <3>11. x <= y
      BY <3>3
    <3> HIDE DEF x, y
    <3>12. (IF e.at > u THEN x + e.tokens ELSE x) <= (IF e.at > t THEN y + e.tokens ELSE y)
      BY <3>4, <3>6, <3>11
    <3> QED
      BY <2>2, <3>9, <3>10, <3>12
  <2> QED
    BY <2>3, <2>4
<1> QED
  <2>1. \A s \in Seq(Entries) : Len(s) \in Nat
    OBVIOUS
  <2> QED
    BY <1>1, <2>1

(* Whoever was let through and has not recorded may still use the most of its kind, on
   top of what a limit would leave room for. *)
Flying   == Cardinality({c \in Callers : call[c] # NoCall})
Most     == Max({0, MaxTokensPerMinute - Smallest}) + Round
SpendInv == MaxTokensPerMinute # 0 => InWindow + Flying * Largest <= Most

LEMMA FlyingIsCounted ==
  /\ IsFiniteSet({c \in Callers : call[c] # NoCall}) /\ Flying \in Nat
  /\ Cardinality(Callers) \in Nat /\ Flying <= Cardinality(Callers)
<1>1. IsFiniteSet(Callers) /\ {c \in Callers : call[c] # NoCall} \in SUBSET Callers
  BY BudgetAssumption
<1> QED
  BY <1>1, FS_Subset, FS_CardinalityType DEF Flying

LEMMA InWindowIsSum ==
  ASSUME BudgetInv
  PROVE  InWindow \in Nat /\ InWindow = SumTokens(Since(entries, clock - WindowSize))
<1>1. clock - WindowSize \in Int /\ entries \in Seq(Entries)
  BY BudgetAssumption DEF BudgetInv, BudgetTypeOK
<1>2. InWindow = SumTokens(Since(entries, clock - WindowSize))
  BY UsedIsInWindow
<1> QED
  BY <1>1, <1>2, SinceIs, SumIs

LEMMA RoundIsEnough ==
  /\ Round \in Nat /\ \A n \in Nat : n <= Cardinality(Callers) => n * Largest <= Round
  /\ Most \in Nat /\ \A n \in Nat : n <= MaxTokensPerMinute - Smallest => n + Round <= Most
<1>1. Cardinality(Callers) \in Nat /\ Largest \in Nat
  BY FlyingIsCounted, KindsAreBounded
<1>2. Round = Cardinality(Callers) * Largest
  BY DEF Round, Largest
<1>3. Round \in Nat /\ \A n \in Nat : n <= Cardinality(Callers) => n * Largest <= Round
  BY <1>1, <1>2, TimesGrows
<1> DEFINE room == MaxTokensPerMinute - Smallest
           rest == Max({0, MaxTokensPerMinute - Smallest})
<1>4. rest \in Nat /\ room \in Int /\ room <= rest
  BY KindsAreBounded, BudgetAssumption
<1>5. Most = rest + Round
  BY DEF Most
<1> HIDE DEF room, rest
<1>6. Most \in Nat /\ \A n \in Nat : n <= room => n + Round <= Most
  BY <1>3, <1>4, <1>5
<1> QED
  BY <1>3, <1>6 DEF room

LEMMA SpendStarts == BudgetInit => SpendInv
<1> SUFFICES ASSUME BudgetInit PROVE InWindow + Flying * Largest <= Most
  BY DEF SpendInv
<1>1. InWindow = 0
  <2>1. ledger = << >> /\ clock - WindowSize \in Int
    BY BudgetAssumption DEF BudgetInit
  <2> QED
    BY <2>1, SinceIs, SumIs DEF InWindow
<1>2. Flying = 0
  <2>1. {c \in Callers : call[c] # NoCall} = {}
    BY DEF BudgetInit
  <2> QED
    BY <2>1, FS_EmptySet DEF Flying
<1>3. Largest \in Nat /\ Most \in Nat
  BY KindsAreBounded, RoundIsEnough
<1> QED
  BY <1>1, <1>2, <1>3

(* A step after which no more is in the window and no more calls are waiting. *)
LEMMA LessIsStillBounded ==
  ASSUME BudgetInv, BudgetInv', SpendInv, InWindow' <= InWindow, Flying' <= Flying
  PROVE  SpendInv'
<1> SUFFICES ASSUME MaxTokensPerMinute # 0 PROVE InWindow' + Flying' * Largest <= Most
  BY DEF SpendInv, Largest, Smallest, Most, Round
<1>1. Flying \in Nat /\ Flying' \in Nat
  <2>1. {c \in Callers : call'[c] # NoCall} \in SUBSET Callers /\ IsFiniteSet(Callers)
    BY BudgetAssumption
  <2> QED
    BY <2>1, FlyingIsCounted, FS_Subset, FS_CardinalityType DEF Flying
<1>2. InWindow \in Nat /\ InWindow' \in Nat
  <2>1. clock' - WindowSize \in Int /\ ledger' \in Seq(Entries)
    BY BudgetAssumption DEF BudgetInv, BudgetTypeOK
  <2>2. InWindow' \in Nat
    BY <2>1, SinceIs, SumIs DEF InWindow
  <2> QED
    BY <2>2, InWindowIsSum
<1>3. Largest \in Nat /\ Most \in Nat /\ InWindow + Flying * Largest <= Most
  BY KindsAreBounded, RoundIsEnough DEF SpendInv
<1> DEFINE x == Flying * Largest
           y == Flying' * Largest
<1>4. x \in Nat /\ y \in Nat /\ y <= x
  <2> DEFINE i == Flying'
             j == Flying
  <2>1. i \in Nat /\ j \in Nat /\ i <= j
    BY <1>1
  <2> HIDE DEF i, j
  <2>2. i * Largest \in Nat /\ j * Largest \in Nat /\ i * Largest <= j * Largest
    BY <1>3, <2>1, TimesGrows
  <2> QED
    BY <2>2 DEF i, j
<1> DEFINE v == InWindow'
           w == InWindow
<1>5. w + x <= Most /\ v <= w /\ v \in Nat /\ w \in Nat
  BY <1>2, <1>3
<1> HIDE DEF x, y, v, w
<1>6. v + y <= Most
  BY <1>3, <1>4, <1>5
<1> QED
  BY <1>6 DEF y, v

LEMMA CanSpendIsBounded ==
  ASSUME BudgetInv, SpendInv, NEW c \in Callers, NEW k \in Kinds, CanSpend(c, k)
  PROVE  SpendInv'
<1>1. BudgetInv' /\ UNCHANGED <<clock, ledger>> /\ InWindow' = InWindow
  BY CanSpendKeeps DEF CanSpend, InWindow
<1>2. CASE MaxTokensPerMinute = 0
  BY <1>2 DEF SpendInv
<1>3. CASE MaxTokensPerMinute # 0 /\ HasRoom(entries', k.estimate)
  <2>1. InWindow + k.estimate <= MaxTokensPerMinute /\ InWindow \in Nat
    BY <1>3, InWindowIsSum DEF CanSpend, PruneOldEntries, HasRoom
  <2>2. InWindow + Round <= Most /\ Round \in Nat /\ Most \in Nat
    <3>1. Smallest \in Nat /\ k.estimate \in Nat /\ Smallest <= k.estimate /\ MaxTokensPerMinute \in Nat
      BY KindsAreBounded, KindsAreCalls, BudgetAssumption
    <3> DEFINE e == k.estimate
    <3>2. e \in Nat /\ Smallest <= e /\ InWindow + e <= MaxTokensPerMinute
      BY <2>1, <3>1
    <3> HIDE DEF e
    <3>3. InWindow <= MaxTokensPerMinute - Smallest
      BY <2>1, <3>1, <3>2
    <3> QED
      BY <2>1, <3>3, RoundIsEnough
  <2>3. Flying' \in Nat /\ Flying' <= Cardinality(Callers)
    <3>1. {d \in Callers : call'[d] # NoCall} \in SUBSET Callers /\ IsFiniteSet(Callers)
      BY BudgetAssumption
    <3> QED
      BY <3>1, FS_Subset, FS_CardinalityType DEF Flying
  <2>4. Flying' * Largest <= Round
    BY <2>3, RoundIsEnough
  <2> DEFINE y == Flying' * Largest
  <2>5. y \in Nat /\ y <= Round
    <3>1. Largest \in Nat
      BY KindsAreBounded
    <3> DEFINE f == Flying'
    <3> HIDE DEF f
    <3>2. f \in Nat => f * Largest \in Nat
      BY <3>1, TimesGrows
    <3>3. Flying' * Largest \in Nat
      BY <2>3, <3>2 DEF f
    <3> QED
      BY <2>4, <3>3
  <2> HIDE DEF y
  <2>6. InWindow' + y <= Most
    BY <1>1, <2>1, <2>2, <2>5
  <2> QED
    BY <2>6 DEF y, SpendInv, Largest, Smallest, Most, Round
<1>4. CASE MaxTokensPerMinute # 0 /\ ~HasRoom(entries', k.estimate)
  <2>1. Flying' = Flying
    BY <1>4 DEF CanSpend, Flying
  <2>2. InWindow' <= InWindow /\ Flying' <= Flying
    BY <1>1, <2>1, InWindowIsSum, FlyingIsCounted
  <2> QED
    BY <1>1, <2>2, LessIsStillBounded
<1> QED
  BY <1>2, <1>3, <1>4

LEMMA OneFewerFlies ==
  ASSUME BudgetInv, NEW c \in Callers, call[c] # NoCall, call' = [call EXCEPT ![c] = NoCall]
  PROVE  Flying \in Nat \ {0} /\ Flying' = Flying - 1
<1> DEFINE flying == {d \in Callers : call[d] # NoCall}
<1>1. IsFiniteSet(flying) /\ c \in flying
  BY FlyingIsCounted
<1>2. flying' = flying \ {c}
  BY DEF BudgetInv, BudgetTypeOK
<1>3. Flying = Cardinality(flying) /\ Flying' = Cardinality(flying')
  BY DEF Flying
<1> HIDE DEF flying
<1>4. Cardinality(flying \ {c}) = Cardinality(flying) - 1 /\ IsFiniteSet(flying \ {c})
  BY <1>1, FS_RemoveElement
<1>5. Cardinality(flying) \in Nat /\ Cardinality(flying \ {c}) \in Nat
  BY <1>1, <1>4, FS_CardinalityType
<1> QED
  BY <1>2, <1>3, <1>4, <1>5

LEMMA RecordIsBounded ==
  ASSUME BudgetInv, SpendInv, NEW c \in Callers,
         NEW tokens \in call[c].least .. call[c].most, Record(c, tokens)
  PROVE  SpendInv'
<1> SUFFICES ASSUME MaxTokensPerMinute # 0 PROVE InWindow' + Flying' * Largest <= Most
  BY DEF SpendInv, Largest, Smallest, Most, Round
<1> DEFINE e == [at |-> clock, tokens |-> tokens]
           t == clock - WindowSize
<1>1. e \in Entries /\ ledger \in Seq(Entries) /\ t \in Int /\ e.at > t
  <2>1. e \in Entries
    BY RecordKeeps
  <2> QED
    BY <2>1, BudgetAssumption DEF BudgetInv, BudgetTypeOK
<1>2. e.tokens = tokens /\ tokens \in Nat /\ tokens <= Largest /\ Largest \in Nat
  <2>1. call[c] \in Kinds
    BY DEF BudgetInv, BudgetTypeOK, Record
  <2>2. call[c].least \in Nat /\ call[c].most \in Nat /\ call[c].most <= Largest /\ Largest \in Nat
    BY <2>1, KindsAreCalls, KindsAreBounded
  <2> DEFINE m == call[c].most
             l == call[c].least
  <2>3. l \in Nat /\ m \in Nat /\ m <= Largest /\ Largest \in Nat /\ tokens \in l .. m
    BY <2>2
  <2> HIDE DEF m, l
  <2>4. tokens \in Nat /\ tokens <= Largest
    BY <2>3
  <2> QED
    BY <2>3, <2>4
<1>3. ledger' = Append(ledger, e) /\ clock' = clock
  BY DEF Record
<1>4. InWindow = SumTokens(Since(ledger, t)) /\ InWindow' = SumTokens(Since(Append(ledger, e), t))
  BY <1>3 DEF InWindow
<1> HIDE DEF e, t
<1>5. Since(Append(ledger, e), t) = Append(Since(ledger, t), e) /\ Since(ledger, t) \in Seq(Entries)
  BY <1>1, SinceIs
<1>6. InWindow' = InWindow + tokens /\ InWindow \in Nat
  BY <1>1, <1>2, <1>4, <1>5, SumIs, InWindowIsSum
<1>7. Flying \in Nat \ {0} /\ Flying' = Flying - 1
  BY OneFewerFlies DEF Record
<1> DEFINE x == Flying * Largest
           y == (Flying - 1) * Largest
<1>8. x \in Nat /\ y \in Nat /\ y + Largest = x
  BY <1>2, <1>7, OneLess
<1>9. InWindow + x <= Most /\ Most \in Nat
  BY RoundIsEnough DEF SpendInv
<1>10. Flying' * Largest = y
  BY <1>7
<1> HIDE DEF x, y
<1>11. InWindow' + y <= Most
  BY <1>2, <1>6, <1>8, <1>9
<1> QED
  BY <1>10, <1>11

LEMMA SpendingStaysBounded == BudgetInv /\ SpendInv /\ [BudgetNext]_budgetVars => SpendInv'
<1> SUFFICES ASSUME BudgetInv, SpendInv, [BudgetNext]_budgetVars PROVE SpendInv'
  OBVIOUS
<1>0. BudgetInv' /\ InWindow \in Nat /\ Flying \in Nat
  BY BudgetStepsKeep, InWindowIsSum, FlyingIsCounted
<1>1. CASE \E c \in Callers, k \in Kinds : CanSpend(c, k)
  BY <1>1, CanSpendIsBounded
<1>2. CASE \E c \in Callers : \E tokens \in call[c].least .. call[c].most : Record(c, tokens)
  BY <1>2, RecordIsBounded
<1>3. CASE \E c \in Callers : CallFails(c)
  <2>1. PICK c \in Callers : CallFails(c)
    BY <1>3
  <2>2. InWindow' = InWindow
    BY <2>1 DEF CallFails, InWindow
  <2>3. Flying' = Flying - 1
    BY <2>1, OneFewerFlies DEF CallFails
  <2>4. InWindow' <= InWindow /\ Flying' <= Flying
    BY <1>0, <2>2, <2>3
  <2> QED
    BY <1>0, <2>4, LessIsStillBounded
<1>4. CASE CurrentWindowUsage \/ UNCHANGED budgetVars
  <2>1. UNCHANGED <<clock, ledger, call>>
    BY <1>4 DEF CurrentWindowUsage, budgetVars
  <2>2. InWindow' = InWindow /\ Flying' = Flying
    BY <2>1 DEF InWindow, Flying
  <2>3. InWindow' <= InWindow /\ Flying' <= Flying
    BY <1>0, <2>2
  <2> QED
    BY <1>0, <2>3, LessIsStillBounded
<1>5. CASE BudgetTick
  <2>1. clock' = clock + 1 /\ UNCHANGED <<ledger, call>>
    BY <1>5 DEF BudgetTick
  <2>2. Flying' = Flying
    BY <2>1 DEF Flying
  <2>3. InWindow' <= InWindow
    <3> DEFINE t == clock - WindowSize
               u == clock' - WindowSize
    <3>1. t \in Int /\ u \in Int /\ t <= u /\ ledger \in Seq(Entries)
      BY <2>1, BudgetAssumption DEF BudgetInv, BudgetTypeOK
    <3>2. InWindow = SumTokens(Since(ledger, t)) /\ InWindow' = SumTokens(Since(ledger, u))
      BY <2>1 DEF InWindow
    <3> HIDE DEF t, u
    <3> QED
      BY <3>1, <3>2, WindowShrinks
  <2>4. Flying' <= Flying
    BY <1>0, <2>2
  <2> QED
    BY <1>0, <2>3, <2>4, LessIsStillBounded
<1> QED
  BY <1>1, <1>2, <1>3, <1>4, <1>5 DEF BudgetNext

(* Calls that overlap all pass the check before any records, and the window still never
   holds more than one such round over the limit (budget.go, CanSpend, Record). *)
THEOREM OverspendIsBoundedAlways == BudgetSpec => []OverspendIsBounded
<1>1. BudgetInv /\ SpendInv => OverspendIsBounded
  <2> SUFFICES ASSUME BudgetInv, SpendInv, MaxTokensPerMinute # 0 PROVE InWindow <= Most
    BY DEF OverspendIsBounded, Most, Smallest
  <2>1. InWindow \in Nat /\ Flying \in Nat /\ Largest \in Nat /\ Most \in Nat
    BY InWindowIsSum, FlyingIsCounted, KindsAreBounded, RoundIsEnough
  <2> DEFINE x == Flying * Largest
  <2>2. x \in Nat /\ InWindow + x <= Most
    BY <2>1, TimesGrows DEF SpendInv
  <2> HIDE DEF x
  <2> QED
    BY <2>1, <2>2
<1> QED
  BY <1>1, BudgetStarts, BudgetStepsKeep, SpendStarts, SpendingStaysBounded, PTL DEF BudgetSpec
=============================================================================
