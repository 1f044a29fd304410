------------------------------- MODULE AgentState -------------------------------
(***************************************************************************)
(* The state of one agent under one schema, and the log of its changes.     *)
(* An update reads the row, lets the language model work out the new state  *)
(* without any lock, logs the change, and then writes the row: three        *)
(* statements, each atomic, of calls that may overlap.                      *)
(***************************************************************************)
EXTENDS Integers, Sequences, SequencesExt, FiniteSets

CONSTANTS
  Updaters,     \* goroutines that register and update
  Values,       \* states of the agent
  Empty,        \* the state that it is registered with
  Unregistered, \* there is no row
  MaxUpdates    \* bound on the calls

ASSUME AgentStateAssumption ==
  Empty \in Values /\ Unregistered \notin Values /\ MaxUpdates \in Nat

VARIABLES
  row,       \* current_state
  log,       \* agent_state_history, oldest first: [previous, next]
  job,       \* what each updater is at: [at, previous, next]
  updates,   \* how many calls were made
  raced,     \* history: a call read the row while another was about to change it
  lost       \* history: a statement failed

agentVars == <<row, log, job, updates, raced, lost>>

NoJob == [at |-> "none", previous |-> Unregistered, next |-> Unregistered]

AgentInit ==
  /\ row = Unregistered /\ log = <<>>
  /\ job = [u \in Updaters |-> NoJob]
  /\ updates = 0 /\ raced = FALSE /\ lost = FALSE

Goes(u, where, previous, next) ==
  job' = [job EXCEPT ![u] = [at |-> where, previous |-> previous, next |-> next]]

Updating(u) == job[u].at \in {"asking", "logging", "writing"}

Called == updates < MaxUpdates /\ updates' = updates + 1

-----------------------------------------------------------------------------
(* Register: refused if a row is found. *)
RegisterChecks(u) ==
  /\ job[u] = NoJob /\ Called
  /\ IF row = Unregistered THEN Goes(u, "registering", Unregistered, Empty) ELSE UNCHANGED job
  /\ UNCHANGED <<row, log, raced, lost>>

(* The table takes one row for an entity, an agent and a schema; the second of two
   insertions fails. *)
RegisterInserts(u) ==
  /\ job[u].at = "registering"
  /\ row' = IF row = Unregistered THEN Empty ELSE row
  /\ job' = [job EXCEPT ![u] = NoJob]
  /\ UNCHANGED <<log, updates, raced, lost>>

-----------------------------------------------------------------------------
(* Update. *)
UpdateReads(u) ==
  /\ job[u] = NoJob /\ Called
  /\ IF row = Unregistered THEN UNCHANGED job ELSE Goes(u, "asking", row, Unregistered)
  /\ raced' = (raced \/ (row # Unregistered /\ \E v \in Updaters \ {u} : Updating(v)))
  /\ UNCHANGED <<row, log, lost>>

(* The model fails, finds no change, or finds one that it says is not valid. *)
NothingChanges(u) ==
  /\ job[u].at = "asking"
  /\ job' = [job EXCEPT ![u] = NoJob]
  /\ UNCHANGED <<row, log, updates, raced, lost>>

(* It names the fields that change; what it extracts may be the same nonetheless. *)
ModelAnswers(u) ==
  /\ job[u].at = "asking"
  /\ \E v \in Values : Goes(u, "logging", job[u].previous, v)
  /\ UNCHANGED <<row, log, updates, raced, lost>>

(* An error of the insertion is dropped. *)
LogsChange(u) ==
  /\ job[u].at = "logging"
  /\ Goes(u, "writing", job[u].previous, job[u].next)
  /\ \/ /\ log' = Append(log, [previous |-> job[u].previous, next |-> job[u].next])
        /\ UNCHANGED lost
     \/ lost' = TRUE /\ UNCHANGED log
  /\ UNCHANGED <<row, updates, raced>>

(* Slip: the call ends with the entry in the log. *)
WritesNothing(u) ==
  /\ job[u].at = "writing"
  /\ job' = [job EXCEPT ![u] = NoJob]
  /\ UNCHANGED <<row, log, updates, raced, lost>>

WritesState(u) ==
  /\ job[u].at = "writing"
  /\ job' = [job EXCEPT ![u] = NoJob]
  /\ \/ row' = job[u].next /\ UNCHANGED lost
     \/ lost' = TRUE /\ UNCHANGED row
  /\ UNCHANGED <<log, updates, raced>>

AgentNext ==
  \E u \in Updaters :
    \/ RegisterChecks(u) \/ RegisterInserts(u)
    \/ UpdateReads(u) \/ NothingChanges(u) \/ ModelAnswers(u) \/ LogsChange(u) \/ WritesState(u)

AgentSpec == AgentInit /\ [][AgentNext]_agentVars

-----------------------------------------------------------------------------
(* Properties. *)

AgentTypeOK ==
  /\ row \in Values \cup {Unregistered}
  /\ log \in Seq([previous : Values, next : Values])
  /\ job \in [Updaters -> [at : {"none", "registering", "asking", "logging", "writing"},
                           previous : Values \cup {Unregistered},
                           next : Values \cup {Unregistered}]]
  /\ updates \in 0 .. MaxUpdates /\ {raced, lost} \subseteq BOOLEAN

(* The log tells the whole life of the state: each change begins where the one
   before it ended, and the last ends in the state that the row has or is about to
   get, unless calls overlapped or a statement failed (state.go, Update). *)
LogTellsTheState ==
  raced \/ lost \/
  /\ \A i \in 2 .. Len(log) : log[i].previous = log[i - 1].next
  /\ log # <<>> => /\ log[1].previous = Empty
                   /\ \/ row = Last(log).next
                      \/ \E u \in Updaters : job[u].at = "writing" /\ job[u].next = Last(log).next
  /\ log = <<>> => row \in {Unregistered, Empty}

(* Only an update that read the row changes it: two registrations that overlap leave
   one row, and what was written to it meanwhile stays (state.go, Register). *)
RegistrationKeepsTheState ==
  [][row # Unregistered /\ row' # row =>
       \E u \in Updaters : job[u].at = "writing" /\ job'[u] = NoJob]_agentVars
=============================================================================
