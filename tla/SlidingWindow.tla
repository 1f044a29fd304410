----------------------------- MODULE SlidingWindow -----------------------------
(***************************************************************************)
(* What a limit of tokens in a window of time promises: a call is let       *)
(* through if what the window holds leaves room for its estimate, and it is *)
(* refused if not; a ceiling of 0 is none.  Nothing is forgotten here.      *)
(***************************************************************************)
EXTENDS Integers, Sequences, SequencesExt

CONSTANTS Callers, Estimates, Ceiling, Window

VARIABLES
  now,
  spent,     \* everything that was spent: [at, tokens], oldest first
  inFlight,  \* the callers that were let through and have not spent
  refused    \* the callers that were refused last

windowVars == <<now, spent, inFlight, refused>>

Used ==
  LET used[i \in 0 .. Len(spent)] ==
        IF i = 0 THEN 0
        ELSE used[i - 1] + (IF spent[i].at > now - Window THEN spent[i].tokens ELSE 0)
  IN used[Len(spent)]

WindowInit == now = 0 /\ spent = <<>> /\ inFlight = {} /\ refused = {}

TimePasses == now' = now + 1 /\ UNCHANGED <<spent, inFlight, refused>>

LetThrough(c) ==
  /\ Ceiling = 0 \/ \E estimate \in Estimates : Used + estimate <= Ceiling
  /\ inFlight' = inFlight \cup {c} /\ refused' = refused \ {c}
  /\ UNCHANGED <<now, spent>>

Refuse(c) ==
  /\ Ceiling # 0 /\ \E estimate \in Estimates : Used + estimate > Ceiling
  /\ refused' = refused \cup {c}
  /\ UNCHANGED <<now, spent, inFlight>>

Spend(c) ==
  /\ c \in inFlight /\ inFlight' = inFlight \ {c}
  /\ spent' # <<>> /\ Front(spent') = spent /\ Last(spent').at = now
  /\ UNCHANGED <<now, refused>>

GiveUp(c) ==
  /\ inFlight' = inFlight \ {c} /\ refused' = refused \ {c}
  /\ UNCHANGED <<now, spent>>

WindowNext ==
  \/ TimePasses
  \/ \E c \in Callers : LetThrough(c) \/ Refuse(c) \/ Spend(c) \/ GiveUp(c)
=============================================================================
