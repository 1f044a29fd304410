---------------------------------- MODULE Feed ----------------------------------
(***************************************************************************)
(* What the clients of the event stream are promised, each on its own:     *)
(* while one is connected an event reaches it once at most, in any order,  *)
(* and is lost to it only while its buffer is full.                        *)
(***************************************************************************)
EXTENDS Integers, Sequences, SequencesExt

CONSTANTS Events, Clients

(* Of each client: *)
VARIABLES
  connected,
  full,       \* its buffer is full
  due,        \* the events that are on their way to it
  got         \* those that it got

feedVars == <<connected, full, due, got>>

FeedInit ==
  \A c \in Clients : ~connected[c] /\ ~full[c] /\ due[c] = {} /\ got[c] = <<>>

(* What is under way when a client connects may reach it. *)
Connect(c) ==
  /\ ~connected[c] /\ connected'[c]
  /\ due'[c] \subseteq Events \ Range(got[c])
  /\ full'[c] = full[c] /\ got'[c] = got[c]

Offer(c) ==
  /\ connected[c] /\ connected'[c]
  /\ \E e \in Events \ (due[c] \cup Range(got[c])) : due'[c] = due[c] \cup {e}
  /\ full'[c] = full[c] /\ got'[c] = got[c]

(* An event moves into the buffer, or out of it to the client. *)
Fill(c) ==
  /\ connected[c] /\ connected'[c]
  /\ due'[c] = due[c] /\ got'[c] = got[c]

Get(c) ==
  /\ connected[c] /\ connected'[c]
  /\ \E e \in due[c] : due'[c] = due[c] \ {e} /\ got'[c] = Append(got[c], e)
  /\ ~full'[c]

Lose(c) ==
  /\ connected[c] /\ connected'[c] /\ full[c]
  /\ \E e \in due[c] : due'[c] = due[c] \ {e}
  /\ full'[c] = full[c] /\ got'[c] = got[c]

Leave(c) ==
  /\ connected[c] /\ ~connected'[c]
  /\ due'[c] = {} /\ ~full'[c]
  /\ got'[c] = got[c]

Rest(c) ==
  /\ connected'[c] = connected[c] /\ full'[c] = full[c]
  /\ due'[c] = due[c] /\ got'[c] = got[c]

(* An event is offered to all clients at once; each loses it or gets it by itself. *)
FeedNext ==
  \A c \in Clients :
    Connect(c) \/ Offer(c) \/ Fill(c) \/ Get(c) \/ Lose(c) \/ Leave(c) \/ Rest(c)

FeedSpec == FeedInit /\ [][FeedNext]_feedVars
=============================================================================
