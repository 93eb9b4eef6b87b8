----------------------------- MODULE Migrations -----------------------------
(***************************************************************************)
(* Schema creation at startup (db/migrations.py).  Files are applied in    *)
(* order, each followed by its row in schema_version.  executescript ends  *)
(* the transaction the code has begun, so each statement of a file commits *)
(* by itself, and the rollback after a failure undoes nothing of them.     *)
(***************************************************************************)
EXTENDS Integers, Sequences

CONSTANT MaxSchemaFaults   \* statements that fail, and deaths, in one behaviour

ASSUME MigrationBounds == MaxSchemaFaults \in Nat

(* The statements of each file of migrations/, and the files whose every    *)
(* statement may run again (an UPDATE to the same value).                   *)
Statements == <<13, 1, 1, 1, 2, 1, 1, 1>>
Repeatable == {8}
Files == DOMAIN Statements

VARIABLES
  applied,     \* how many statements of each file are in the database
  version,     \* MAX(version) of schema_version
  deployed,    \* the highest file the code has
  starting,    \* where start() is: the file and the statements of it run so far
  schemaFaults

schemaVars == <<applied, version, deployed, starting, schemaFaults>>

NotStarting == [at |-> "down", file |-> 0, done |-> 0]

SchemaInit ==
  /\ applied = [f \in Files |-> 0]
  /\ version = 0
  /\ deployed \in Files
  /\ starting = NotStarting
  /\ schemaFaults = 0

SchemaFault == schemaFaults < MaxSchemaFaults /\ schemaFaults' = schemaFaults + 1

(* The next pending file, or the schema is complete. *)
Pending(v) == IF v = deployed THEN [at |-> "up", file |-> 0, done |-> 0]
              ELSE [at |-> "files", file |-> v + 1, done |-> 0]

(* apply() reads the version; code behind the database does not start. *)
ReadVersion ==
  /\ starting.at = "down"
  /\ starting' = IF version > deployed THEN [NotStarting EXCEPT !.at = "refused"]
                 ELSE Pending(version)
  /\ UNCHANGED <<applied, version, deployed, schemaFaults>>

(* A statement that must run once fails when its effect is there.  The file *)
(* then fails with it; what it has run stays.                               *)
Statement ==
  LET f == starting.file
      n == starting.done + 1
  IN /\ starting.at = "files" /\ n <= Statements[f]
     /\ IF n <= applied[f] /\ f \notin Repeatable
          THEN starting' = [NotStarting EXCEPT !.at = "refused"] /\ UNCHANGED applied
          ELSE /\ applied' = [applied EXCEPT ![f] = IF n > @ THEN n ELSE @]
               /\ starting' = [starting EXCEPT !.done = n]
     /\ UNCHANGED <<version, deployed, schemaFaults>>

(* A statement fails by itself, or the start is refused with it. *)
StatementFails ==
  /\ starting.at = "files" /\ SchemaFault
  /\ starting' = [NotStarting EXCEPT !.at = "refused"]
  /\ UNCHANGED <<applied, version, deployed>>

(* Mutant: the version is written before the file is run through. *)
RecordVersionEarly ==
  /\ starting.at = "files"
  /\ version' = starting.file
  /\ starting' = IF starting.done = Statements[starting.file]
                   THEN Pending(starting.file) ELSE starting
  /\ UNCHANGED <<applied, deployed, schemaFaults>>

(* The file's row, committed by itself. *)
RecordVersion ==
  /\ starting.at = "files" /\ starting.done = Statements[starting.file]
  /\ version' = starting.file
  /\ starting' = Pending(starting.file)
  /\ UNCHANGED <<applied, deployed, schemaFaults>>

SchemaDown ==
  /\ starting.at = "files" => SchemaFault
  /\ starting.at # "files" => UNCHANGED schemaFaults
  /\ starting.at # "down"
  /\ starting' = NotStarting
  /\ UNCHANGED <<applied, version, deployed>>

(* Another version of the code, newer or older, is put in place. *)
Deploy ==
  /\ starting.at = "down"
  /\ deployed' \in Files
  /\ UNCHANGED <<applied, version, starting, schemaFaults>>

SchemaNext == ReadVersion \/ Statement \/ StatementFails \/ RecordVersion \/ SchemaDown \/ Deploy

SchemaSpec == SchemaInit /\ [][SchemaNext]_schemaVars

-----------------------------------------------------------------------------
(* Properties *)

SchemaTypeOK ==
  /\ version \in 0..Len(Statements) /\ deployed \in Files
  /\ \A f \in Files : applied[f] \in 0..Statements[f]
  /\ starting.at \in {"down", "files", "up", "refused"}

(* A recorded version stands for whole files: the bot never runs on a       *)
(* schema of which a statement is missing, whatever died or was deployed.   *)
VersionIsWhole ==
  /\ \A f \in 1..version : applied[f] = Statements[f]
  /\ starting.at = "up" => version = deployed

(* "Each file is one transaction": of a file that is not recorded, nothing  *)
(* is in the database unless a start is running it.                         *)
FileIsOneTransaction ==
  starting.at # "files" => \A f \in Files : f > version => applied[f] = 0
=============================================================================
