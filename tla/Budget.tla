--------------------------------- MODULE Budget ---------------------------------
(***************************************************************************)
(* The token budget of one entity and the calls that share it.  A call asks *)
(* with an estimate, waits for the language model without any lock, and     *)
(* records what it used afterwards.                                         *)
(***************************************************************************)
EXTENDS Integers, Sequences, FiniteSets, FiniteSetsExt

CONSTANTS
  Callers,             \* goroutines that add memories for the entity
  Kinds,               \* calls of the model: [estimate, least, most] tokens
  MaxTokensPerMinute,  \* 0: no limit
  WindowSize,          \* ticks
  Hour,                \* ticks
  MaxNow, MaxCalls     \* bounds on the clock and on the calls

ASSUME BudgetAssumption ==
  /\ MaxTokensPerMinute \in Nat /\ WindowSize \in Nat \ {0} /\ Hour \in Nat
  /\ MaxNow \in Nat /\ MaxCalls \in Nat
  /\ IsFiniteSet(Callers) /\ IsFiniteSet(Kinds) /\ Kinds # {}
  /\ \A k \in Kinds : /\ {k.estimate, k.least, k.most} \subseteq Nat \ {0}
                      /\ k.least <= k.most

NoCall  == [estimate |-> 0, least |-> 0, most |-> 0]
Entries == [at : 0 .. MaxNow, tokens : Nat]

VARIABLES
  clock,
  entries,   \* the entity's tokenWindow
  call,      \* what each caller waits for; NoCall: nothing
  turned,    \* the callers whose last call was over the budget
  calls,     \* how many calls were begun
  ledger     \* history: entries as if none was ever pruned

budgetVars == <<clock, entries, call, turned, calls, ledger>>

BudgetInit ==
  /\ clock = 0 /\ entries = <<>> /\ ledger = <<>>
  /\ call = [c \in Callers |-> NoCall]
  /\ turned = {} /\ calls = 0

SumTokens(s) ==
  LET sum[i \in 0 .. Len(s)] == IF i = 0 THEN 0 ELSE sum[i - 1] + s[i].tokens
  IN sum[Len(s)]

Since(s, t) ==
  LET kept[i \in 0 .. Len(s)] ==
        IF i = 0 THEN <<>>
        ELSE IF s[i].at > t THEN Append(kept[i - 1], s[i]) ELSE kept[i - 1]
  IN kept[Len(s)]

(* Slip: an entry of the moment that leaves the window is kept. *)
PruneLate(s) == Since(s, clock - WindowSize - 1)

PruneOldEntries(s) == Since(s, clock - WindowSize)

HasRoom(s, estimate) == SumTokens(s) + estimate <= MaxTokensPerMinute

-----------------------------------------------------------------------------
(* CanSpend; without a limit it returns before it prunes.  A caller that has no room
   does without the model (Add skips the memory, reEvaluateRelatedImportance stops). *)
CanSpend(c, k) ==
  /\ call[c] = NoCall /\ calls < MaxCalls /\ calls' = calls + 1
  /\ entries' = IF MaxTokensPerMinute = 0 THEN entries ELSE PruneOldEntries(entries)
  /\ IF MaxTokensPerMinute = 0 \/ HasRoom(entries', k.estimate)
     THEN call' = [call EXCEPT ![c] = k] /\ turned' = turned \ {c}
     ELSE turned' = turned \cup {c} /\ UNCHANGED call
  /\ UNCHANGED <<clock, ledger>>

(* The model answers, and what it used is appended. *)
Record(c, tokens) ==
  /\ call[c] # NoCall
  /\ entries' = Append(entries, [at |-> clock, tokens |-> tokens])
  /\ ledger'  = Append(ledger, [at |-> clock, tokens |-> tokens])
  /\ call' = [call EXCEPT ![c] = NoCall]
  /\ UNCHANGED <<clock, turned, calls>>

(* A step before the model, or the model, fails: nothing is recorded. *)
CallFails(c) ==
  /\ call[c] # NoCall
  /\ call' = [call EXCEPT ![c] = NoCall]
  /\ UNCHANGED <<clock, entries, turned, calls, ledger>>

CurrentWindowUsage ==
  /\ entries' = PruneOldEntries(entries)
  /\ UNCHANGED <<clock, call, turned, calls, ledger>>

BudgetTick ==
  /\ clock < MaxNow /\ clock' = clock + 1
  /\ UNCHANGED <<entries, call, turned, calls, ledger>>

BudgetNext ==
  \/ \E c \in Callers : \/ \E k \in Kinds : CanSpend(c, k)
                        \/ \E tokens \in call[c].least .. call[c].most : Record(c, tokens)
                        \/ CallFails(c)
  \/ CurrentWindowUsage
  \/ BudgetTick

BudgetSpec == BudgetInit /\ [][BudgetNext]_budgetVars

-----------------------------------------------------------------------------
(* Properties. *)

BudgetTypeOK ==
  /\ clock \in 0 .. MaxNow /\ entries \in Seq(Entries) /\ ledger \in Seq(Entries)
  /\ call \in [Callers -> Kinds \cup {NoCall}]
  /\ turned \subseteq Callers /\ calls \in 0 .. MaxCalls

InWindow   == SumTokens(Since(ledger, clock - WindowSize))

(* Calls that overlap may all be let through before any is recorded, but the window
   never holds more than one such round over the limit (budget.go, CanSpend, Record). *)
Round == Cardinality(Callers) * Max({k.most : k \in Kinds})
OverspendIsBounded ==
  MaxTokensPerMinute # 0 =>
    InWindow <= Max({0, MaxTokensPerMinute - Min({k.estimate : k \in Kinds})}) + Round

Limit ==
  INSTANCE SlidingWindow WITH
    Estimates <- {k.estimate : k \in Kinds}, Ceiling <- MaxTokensPerMinute, Window <- WindowSize,
    now <- clock, spent <- ledger, refused <- turned,
    inFlight <- {c \in Callers : call[c] # NoCall}

(* The budget, which forgets, decides as one that forgets nothing would (budget.go,
   CanSpend, pruneOldEntries). *)
ImplementsTheLimit == Limit!WindowInit /\ [][Limit!WindowNext]_(Limit!windowVars)

(* GetUsage reports the last hour.  The code does not: the entries it adds up are
   pruned to the window whenever a call asks. *)
HourIsReported == SumTokens(Since(entries, clock - Hour)) = SumTokens(Since(ledger, clock - Hour))
=============================================================================
