-------------------------------- MODULE Migration --------------------------------
(***************************************************************************)
(* What NewSQLite does to the table of memories of a file that an earlier   *)
(* release wrote: columns are added, the text index and its triggers made,  *)
(* and a table whose CHECK knows no 'resolved' is rebuilt.  Statements may   *)
(* fail, and the process may die between any two.                           *)
(***************************************************************************)
EXTENDS Integers, Sequences, FiniteSets, SequencesExt

CONSTANTS
  OldRows, NewRows,   \* ids in the old file, ids yet to be stored
  Texts,
  Added,        \* the columns added by later releases, in the order of the statements
  Failing       \* statements that may fail: subset of {"create", "alter", "trigger", "rebuild"}

ASSUME MigrationAssumption ==
  /\ OldRows \cap NewRows = {}
  /\ Added \in Seq(Range(Added)) /\ IsInjective(Added)
  /\ Failing \subseteq {"create", "alter", "trigger", "rebuild"}

VARIABLES
  db,       \* the file as the connection sees it: [memories, old, words]
  saved,    \* the file as it was before the open transaction, Absent outside one
  opening,  \* where NewSQLite is: "closed", the statement that is next, or "running"
  nth,      \* the column that the next ALTER TABLE is for
  stored,   \* history: the text of each memory that was stored and not deleted
  skipped   \* history: a column could not be added

migrationVars == <<db, saved, opening, nth, stored, skipped>>

(* A table: [exists, columns, resolved, triggers, rows].  A row's values are given as the names
   of the columns that they were written for, in their order in the table. *)
Triggers == {"insert", "delete", "update"}
NewTable(columns) ==
  [exists |-> TRUE, columns |-> columns, resolved |-> TRUE, triggers |-> {}, rows |-> <<>>]
Absent == [exists |-> FALSE]

Rows     == db.memories.rows
WordsOf(rows) == {<<r, rows[r].text>> : r \in DOMAIN rows}
Without(f, r) == [x \in DOMAIN f \ {r} |-> f[x]]
With(f, r, v) == [x \in DOMAIN f \cup {r} |-> IF x = r THEN v ELSE f[x]]

(* No file, or that of a release that knew the first n columns, and the text index or
   not; in the current release's table nothing is to be done. *)
MigrationInit ==
  /\ opening = "closed" /\ nth = 1 /\ saved = Absent /\ skipped = FALSE
  /\ \/ /\ db = [memories |-> Absent, old |-> Absent, words |-> {}]
        /\ stored = <<>>
     \/ \E n \in 0 .. Len(Added), indexed \in BOOLEAN, text \in [OldRows -> Texts] :
          LET columns == SubSeq(Added, 1, n)
              rows    == [r \in OldRows |-> [text |-> text[r], values |-> columns]]
          IN /\ db = [memories |-> [NewTable(columns) EXCEPT
                                      !.resolved = FALSE, !.rows = rows,
                                      !.triggers = IF indexed THEN Triggers ELSE {}],
                      old |-> Absent, words |-> IF indexed THEN WordsOf(rows) ELSE {}]
             /\ stored = text

-----------------------------------------------------------------------------
(* migrate.  Each statement outside the rebuild is a transaction of its own. *)

Opens ==
  /\ opening = "closed" /\ opening' = "create"
  /\ UNCHANGED <<db, saved, nth, stored, skipped>>

(* CREATE TABLE IF NOT EXISTS, of this table and the others; an error ends NewSQLite. *)
CreateTables ==
  /\ opening = "create"
  /\ \/ /\ opening' = "alter"
        /\ db' = IF db.memories.exists THEN db ELSE [db EXCEPT !.memories = NewTable(<<>>)]
     \/ "create" \in Failing /\ opening' = "closed" /\ UNCHANGED db
  /\ UNCHANGED <<saved, nth, stored, skipped>>

(* ALTER TABLE ADD COLUMN appends the column, to every row with its default.  All errors
   are ignored, as that for a column that exists is. *)
WithColumn(c) ==
  LET rows == [r \in DOMAIN Rows |-> [Rows[r] EXCEPT !.values = Append(@, c)]]
  IN [db EXCEPT !.memories = [db.memories EXCEPT !.columns = Append(@, c), !.rows = rows]]

AddColumn ==
  /\ opening = "alter" /\ nth <= Len(Added) /\ nth' = nth + 1
  /\ IF Contains(db.memories.columns, Added[nth])
     THEN UNCHANGED <<db, skipped>>
     ELSE \/ db' = WithColumn(Added[nth]) /\ UNCHANGED skipped
          \/ "alter" \in Failing /\ skipped' = TRUE /\ UNCHANGED db
  /\ UNCHANGED <<saved, opening, stored>>

ColumnsTried ==
  /\ opening = "alter" /\ nth > Len(Added)
  /\ opening' = "text" /\ nth' = 1
  /\ UNCHANGED <<db, saved, stored, skipped>>

(* The text index is made if there is none, and is empty then; each trigger is made if it
   does not exist, and an error is ignored. *)
CreateTextIndex ==
  /\ opening = "text" /\ opening' = "check"
  /\ \E F \in SUBSET (IF "trigger" \in Failing THEN Triggers \ db.memories.triggers ELSE {}) :
       db' = [db EXCEPT !.memories.triggers = Triggers \ F]
  /\ UNCHANGED <<saved, nth, stored, skipped>>

(* migrateStateConstraint looks at the table's definition, and begins a transaction. *)
CheckConstraint ==
  /\ opening = "check"
  /\ IF db.memories.resolved THEN opening' = "verify" /\ UNCHANGED saved
                             ELSE opening' = "rename" /\ saved' = db
  /\ UNCHANGED <<db, nth, stored, skipped>>

(* The rebuild.  A table takes its triggers along when it is renamed. *)
RenameTable ==
  /\ opening = "rename" /\ opening' = "recreate"
  /\ db' = [db EXCEPT !.old = db.memories, !.memories = Absent]
  /\ UNCHANGED <<saved, nth, stored, skipped>>

RecreateTable ==
  /\ opening = "recreate" /\ opening' = "copy"
  /\ db' = [db EXCEPT !.memories = NewTable(Added)]
  /\ UNCHANGED <<saved, nth, stored, skipped>>

(* INSERT INTO memories SELECT *: values go by their place, and must be as many as there
   are columns. *)
CopyRows ==
  /\ opening = "copy" /\ opening' = "drop"
  /\ Len(db.old.columns) = Len(db.memories.columns)
  /\ db' = [db EXCEPT !.memories.rows = db.old.rows]
  /\ UNCHANGED <<saved, nth, stored, skipped>>

(* The triggers go with the table. *)
DropOld ==
  /\ opening = "drop" /\ opening' = "commit"
  /\ db' = [db EXCEPT !.old = Absent]
  /\ UNCHANGED <<saved, nth, stored, skipped>>

Commit ==
  /\ opening = "commit" /\ opening' = "verify"
  /\ saved' = Absent
  /\ UNCHANGED <<db, nth, stored, skipped>>

(* Slip: what a transaction did before it ended stays. *)
RolledBackNever == db

(* The file without what the open transaction did. *)
Rebuilding == opening \in {"rename", "recreate", "copy", "drop", "commit"}
RolledBack == IF Rebuilding THEN saved ELSE db

RebuildFails ==
  /\ \/ Rebuilding /\ "rebuild" \in Failing
     \/ opening = "copy" /\ Len(db.old.columns) # Len(db.memories.columns)
  /\ opening' = "verify" /\ db' = RolledBack /\ saved' = Absent
  /\ UNCHANGED <<nth, stored, skipped>>

Verify ==
  /\ opening = "verify"
  /\ opening' = IF db.memories.exists /\ db.memories.resolved THEN "running" ELSE "closed"
  /\ UNCHANGED <<db, saved, nth, stored, skipped>>

-----------------------------------------------------------------------------
(* The store at work.  Its statements name all columns, and the triggers that there are
   follow them. *)

Complete   == Range(Added) \subseteq Range(db.memories.columns)
Fires(t)   == t \in db.memories.triggers
WordsLess(r) == {w \in db.words : w[1] # r}

(* CreateMemory; no row is stored while a column is missing. *)
StoreRow(r, text) ==
  /\ opening = "running" /\ r \notin DOMAIN stored /\ Complete
  /\ db' = [db EXCEPT
       !.memories.rows = With(@, r, [text |-> text, values |-> db.memories.columns]),
       !.words = IF Fires("insert") THEN @ \cup {<<r, text>>} ELSE @]
  /\ stored' = With(stored, r, text)
  /\ UNCHANGED <<saved, opening, nth, skipped>>

(* UpdateMemory with a content. *)
EditRow(r, text) ==
  /\ opening = "running" /\ r \in DOMAIN Rows /\ text # Rows[r].text
  /\ db' = [db EXCEPT
       !.memories.rows[r].text = text,
       !.words = IF Fires("update") THEN WordsLess(r) \cup {<<r, text>>} ELSE @]
  /\ stored' = With(stored, r, text)
  /\ UNCHANGED <<saved, opening, nth, skipped>>

(* DeleteMemory for good. *)
DeleteRow(r) ==
  /\ opening = "running" /\ r \in DOMAIN Rows
  /\ db' = [db EXCEPT !.memories.rows = Without(@, r),
                      !.words = IF Fires("delete") THEN WordsLess(r) ELSE @]
  /\ stored' = Without(stored, r)
  /\ UNCHANGED <<saved, opening, nth, skipped>>

(* Close, or the end of the process at any point of migrate. *)
StopsOrDies ==
  /\ opening # "closed" /\ opening' = "closed" /\ nth' = 1
  /\ db' = RolledBack /\ saved' = Absent
  /\ UNCHANGED <<stored, skipped>>

MigrationNext ==
  \/ Opens \/ CreateTables \/ AddColumn \/ ColumnsTried \/ CreateTextIndex \/ CheckConstraint
  \/ RenameTable \/ RecreateTable \/ CopyRows \/ DropOld \/ Commit \/ RebuildFails \/ Verify
  \/ \E r \in OldRows \cup NewRows :
       (\E text \in Texts : (r \in NewRows /\ StoreRow(r, text)) \/ EditRow(r, text)) \/ DeleteRow(r)
  \/ StopsOrDies

MigrationSpec == MigrationInit /\ [][MigrationNext]_migrationVars

-----------------------------------------------------------------------------
(* Properties. *)

MigrationTypeOK ==
  /\ opening \in {"closed", "create", "alter", "text", "check", "rename", "recreate", "copy",
                  "drop", "commit", "verify", "running"}
  /\ nth \in 1 .. Len(Added) + 1 /\ saved # Absent <=> Rebuilding
  /\ db.memories.exists =>
       /\ Range(db.memories.columns) \subseteq Range(Added)
       /\ \A r \in DOMAIN Rows : Len(Rows[r].values) = Len(db.memories.columns)
  /\ skipped \in BOOLEAN

ValuesAreInPlace == \A r \in DOMAIN Rows : Rows[r].values = db.memories.columns

(* However often statements of migrate fail and the process dies on the way, a store that
   has opened has every memory that was stored and not deleted, as it was; and each of its
   values is in the column it was written for, unless a column could not be added before
   another was (the columns are then out of order, and the rebuild copies by place). *)
MigrationLosesNothing ==
  opening = "running" =>
    /\ [r \in DOMAIN Rows |-> Rows[r].text] = stored
    /\ skipped \/ ValuesAreInPlace

(* "FTS triggers to keep index in sync" (sqlite_migrate.go): words that are those of the
   rows stay so while the store is at work.  The code does not keep this: DropOld drops the
   triggers too, and until the next start nothing makes them again. *)
TextIndexStaysInSync ==
  [][opening = "running" /\ opening' = "running" /\ db.words = WordsOf(Rows)
       => db'.words = WordsOf(Rows')]_migrationVars

(* Values are in their columns whatever fails.  The code does not keep this. *)
ValuesStayInPlace == opening = "running" => ValuesAreInPlace
=============================================================================
