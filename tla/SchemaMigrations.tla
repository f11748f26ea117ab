-------------------------- MODULE SchemaMigrations --------------------------
(***************************************************************************)
(* The migration runner: commands that read the applied versions in one    *)
(* transaction and apply or revert migrations in later ones, each with its *)
(* record, while other commands may run beside them.                       *)
(* Source: backend/db/migrator.py, backend/db/migrations/*.sql.            *)
(*                                                                         *)
(* PostgreSQL runs the statements of a migration and its record in one     *)
(* transaction and locks what they alter, so that a transaction is a step. *)
(***************************************************************************)
EXTENDS Naturals, FiniteSets

CONSTANTS
  Runners,      \* commands that may run at a time
  MaxCommands   \* bound: commands given

ASSUME MigrationAssumption == MaxCommands \in Nat

VARIABLES
  schema,       \* what the documents table has: its features, {} without it
  applied,      \* versions in _schema_migrations
  unhashed,     \* rows whose content_hash is NULL
  runner,       \* [Runners -> [command, todo]]
  commands,     \* commands given so far (bound only)
  raced         \* a down command ever ran beside another command (history)

migrationVars == <<schema, applied, unhashed, runner, commands, raced>>

Versions == 1 .. 3
Feature == <<"table", "nullable hash", "lease column">>
Idle == [command |-> "none", todo |-> {}]
Running == {r \in Runners : runner[r].command # "none"}
FirstOf(S) == CHOOSE v \in S : \A w \in S : v <= w
LastOf(S) == CHOOSE v \in S : \A w \in S : v >= w

MigrationInit ==
  /\ schema = {} /\ applied = {} /\ unhashed = FALSE
  /\ runner = [r \in Runners |-> Idle]
  /\ commands = 0
  /\ raced = FALSE

(* The statements of the .up.sql files: what they need and what they do.   *)
(* Neither the table nor the lease column may exist; the second migration  *)
(* runs on any documents table.                                            *)
UpRuns(v) == IF v = 1 THEN schema = {}
             ELSE "table" \in schema /\ (v = 3 => Feature[3] \notin schema)
AfterUp(v) == schema \cup {Feature[v]}

(* The .down.sql files: they drop IF EXISTS, but alter a table that has to *)
(* be there, and NOT NULL is refused while a row has no hash.              *)
DownRuns(v) == v = 1 \/ ("table" \in schema /\ (v = 2 => ~unhashed))
AfterDown(v) == IF v = 1 THEN {} ELSE schema \ {Feature[v]}

(* The first transaction of up and down. *)
ReadApplied(r, command) ==
  /\ runner[r] = Idle
  /\ commands < MaxCommands
  /\ commands' = commands + 1
  /\ LET todo == IF command = "up" THEN Versions \ applied
                 ELSE IF applied = {} THEN {} ELSE {LastOf(applied)}
     IN  runner' = [runner EXCEPT ![r] =
                      IF todo = {} THEN Idle ELSE [command |-> command, todo |-> todo]]
  /\ raced' = (raced \/ \E s \in Running : "down" \in {command, runner[s].command})
  /\ UNCHANGED <<schema, applied, unhashed>>

Done(r, v) ==
  LET rest == runner[r].todo \ {v}
  IN  runner' = [runner EXCEPT ![r] = IF rest = {} THEN Idle ELSE [@ EXCEPT !.todo = rest]]

\* Mutant. The statements are committed before the version is recorded.
ApplyThenRecord(r) ==
  /\ runner[r].command = "up"
  /\ LET v == FirstOf(runner[r].todo)
     IN  /\ UpRuns(v) /\ v \notin applied
         /\ schema' = AfterUp(v)
         /\ \/ applied' = applied \cup {v} /\ Done(r, v)
            \/ applied' = applied /\ runner' = [runner EXCEPT ![r] = Idle]
  /\ UNCHANGED <<unhashed, commands, raced>>

(* _apply_one: the version is a primary key, so that a migration another   *)
(* command has applied meanwhile is rolled back.                           *)
ApplyOne(r) ==
  /\ runner[r].command = "up"
  /\ LET v == FirstOf(runner[r].todo)
     IN  /\ UpRuns(v) /\ v \notin applied
         /\ schema' = AfterUp(v)
         /\ applied' = applied \cup {v}
         /\ Done(r, v)
  /\ UNCHANGED <<unhashed, commands, raced>>

(* _revert_one: deleting a record that is gone is no error. *)
RevertOne(r) ==
  /\ runner[r].command = "down"
  /\ LET v == FirstOf(runner[r].todo)
     IN  /\ DownRuns(v)
         /\ schema' = AfterDown(v)
         /\ applied' = applied \ {v}
         /\ unhashed' = (unhashed /\ v # 1)
         /\ Done(r, v)
  /\ UNCHANGED <<commands, raced>>

(* A statement fails, the connection breaks or the process dies: the       *)
(* transaction is rolled back and the command ends where it was.           *)
CommandFails(r) ==
  /\ runner[r] # Idle
  /\ runner' = [runner EXCEPT ![r] = Idle]
  /\ UNCHANGED <<schema, applied, unhashed, commands, raced>>

(* The application inserts rows without a hash and fills or deletes them.  *)
RowsChange ==
  /\ "nullable hash" \in schema
  /\ unhashed' = ~unhashed
  /\ UNCHANGED <<schema, applied, runner, commands, raced>>

MigrationNext ==
  \/ RowsChange
  \/ \E r \in Runners : \/ ReadApplied(r, "up") \/ ReadApplied(r, "down")
                        \/ ApplyOne(r) \/ RevertOne(r) \/ CommandFails(r)

MigrationSpec == MigrationInit /\ [][MigrationNext]_migrationVars

(***************************************************************************)
(* Properties.                                                             *)
(***************************************************************************)
\* The table is what the recorded versions say, and they leave no gap, however
\* commands fail and however many upgrades run at a time. A down command that
\* runs beside another one can break this: it reverts the version that was the
\* latest when it looked, under the migrations applied since.
SchemaMatchesRecord ==
  ~raced => /\ schema = {Feature[v] : v \in applied}
            /\ \A v \in applied, w \in Versions : w < v => w \in applied
=============================================================================
