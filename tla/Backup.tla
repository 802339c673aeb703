--------------------------------- MODULE Backup ---------------------------------
(* The SQLite backend (core/storage/sqlite.go) of a running validator, and the  *)
(* backup and restore check an operator runs beside it (core/backup/sqlite.go). *)
(* A database is the sequence of its committed transactions; those beyond       *)
(* "main" are in the write-ahead log only.  The validators agree on one block   *)
(* per height (module Validator), so a row of commits is its height.            *)
EXTENDS Integers, Sequences, FiniteSetsExt

CONSTANTS
  MaxHeight,   \* bound on the heights that are committed
  MaxFaults    \* bound on failed calls and stopped processes together

SQLiteSchemaVersion == 1

VARIABLES
  txs,      \* the committed transactions of the database
  main,     \* how many of them a checkpoint has copied to the database file
  node,     \* the validator: down, up, saving a receipt, or refusing to start
  backup,   \* the backup file: none, empty, partial or whole, and its content
  job,      \* the operator's command: its next step, and what it has to preserve
  report,   \* the status of the last report
  faults

source == << txs, main >>
backupVars == << source, node, backup, job, report, faults >>

Fault == faults < MaxFaults /\ faults' = faults + 1

--------------------------------------------------------------------------------
\* A transaction writes a schema version, a commit, the validator state and a
\* receipt; 0 where it does not.
NoWrite == [version |-> 0, commit |-> 0, state |-> 0, receipt |-> 0]

Rows(t, column) == {t[i][column] : i \in DOMAIN t} \ {0}
sqliteCurrentVersion(t) == Max({0} \cup Rows(t, "version"))
ListCommits(t) == Rows(t, "commit")
ListEvidence(t) == Rows(t, "receipt")
\* The single row of validator_state: every write carries a greater height.
LoadValidatorState(t) == Max({0} \cup Rows(t, "state"))

\* migrateSQLite: one transaction creates the tables and records the version;
\* a database of a newer version is refused.
migrateSQLite(t, target) ==
  IF sqliteCurrentVersion(t) < target
  THEN Append(t, [NoWrite EXCEPT !.version = target]) ELSE t

\* CheckSQLiteMigrations: pending migrations pass, a newer schema does not.
CheckSQLiteMigrations(t) == sqliteCurrentVersion(t) <= SQLiteSchemaVersion

\* loadPersistedState: the commits have no gap and the state names the last one.
loadPersistedState(t) ==
  /\ ListCommits(t) = 1 .. Cardinality(ListCommits(t))
  /\ LoadValidatorState(t) = Cardinality(ListCommits(t))

--------------------------------------------------------------------------------
(* The validator.                                                               *)

\* OpenSQLiteStore and loadPersistedState, by a process of this release or of a
\* later one with schema version 2.
Open(target) ==
  LET t == migrateSQLite(txs, target) IN
  /\ node = "down"
  /\ \/ /\ sqliteCurrentVersion(txs) <= target
        /\ txs' = t
        /\ node' = IF loadPersistedState(t) THEN "up" ELSE "refused"
     \/ /\ sqliteCurrentVersion(txs) > target
        /\ UNCHANGED << txs, node >>
  /\ UNCHANGED << main, backup, job, report, faults >>

Write(t) ==
  /\ txs' = Append(txs, t)
  /\ UNCHANGED << main, backup, job, report >>

\* SaveCommit: the commit and the validator state in one transaction.
SaveCommit ==
  LET h == Cardinality(ListCommits(txs)) + 1 IN
  /\ node = "up"
  /\ h <= MaxHeight
  /\ \/ /\ Write([NoWrite EXCEPT !.commit = h, !.state = h])
        /\ node' = "receipt"
        /\ UNCHANGED faults
     \/ /\ Fault
        /\ UNCHANGED << source, node, backup, job, report >>

\* SaveEvidence at the end of ApplyCommit, for a block with evidence; an error is
\* only logged.
SaveEvidence ==
  /\ node = "receipt"
  /\ node' = "up"
  /\ \/ /\ Write([NoWrite EXCEPT !.receipt = LoadValidatorState(txs)])
        /\ UNCHANGED faults
     \/ UNCHANGED << source, backup, job, report, faults >>

\* SQLite copies committed transactions from the log to the database file.
Checkpoint ==
  /\ main < Len(txs)
  /\ main' \in main + 1 .. Len(txs)
  /\ UNCHANGED << txs, node, backup, job, report, faults >>

\* The process stops; what is committed stays.
Stop ==
  /\ node \in {"up", "receipt"}
  /\ Fault
  /\ node' = "down"
  /\ UNCHANGED << source, backup, job, report >>

--------------------------------------------------------------------------------
(* BackupSQLite.                                                                *)

Idle == [pc |-> "idle", force |-> FALSE, known |-> FALSE, height |-> 0,
         receipts |-> {}]
fails == job' = Idle /\ report' = "fail"
goto(pc) == job' = [job EXCEPT !.pc = pc] /\ UNCHANGED report

\* "known": the manifest history given to the command knows the receipts' sets.
\* The job remembers what the database holds when the command is given.
BackupSQLite(force, known) ==
  /\ job.pc = "idle"
  /\ IF ~ force /\ backup.file # "none" THEN fails
     ELSE /\ job' = [pc |-> "source", force |-> force, known |-> known,
                     height |-> Cardinality(ListCommits(txs)),
                     receipts |-> ListEvidence(txs)]
          /\ report' = "none"
  /\ UNCHANGED << source, node, backup, faults >>

\* CheckSQLiteMigrations and SQLiteIntegrityCheck of the source.  A missing file
\* passes the first and is created by the second: it is an empty database.
CheckSource ==
  /\ job.pc = "source"
  /\ IF ~CheckSQLiteMigrations(txs) THEN fails
     ELSE goto(IF job.force THEN "remove" ELSE "vacuum")
  /\ UNCHANGED << source, node, backup, faults >>

Remove ==
  /\ job.pc = "remove"
  /\ backup' = [file |-> "none", txs |-> << >>]
  /\ goto("vacuum")
  /\ UNCHANGED << source, node, faults >>

vacuumSQLiteInto_MainFileOnly ==
  /\ job.pc = "vacuum"
  /\ backup.file \in {"none", "empty"}
  /\ backup' = [file |-> "whole", txs |-> SubSeq(txs, 1, main)]
  /\ goto("check")
  /\ UNCHANGED << source, node, faults >>

\* A checkpoint, as far as readers let it, and VACUUM INTO: a snapshot of every
\* transaction committed so far, in a file that may not exist or is empty.  An
\* error leaves no file, an empty one or a part of the database.
vacuumSQLiteInto ==
  /\ job.pc = "vacuum"
  /\ main' \in main .. Len(txs)
  /\ \/ /\ backup.file \in {"none", "empty"}
        /\ backup' = [file |-> "whole", txs |-> txs]
        /\ goto("check")
        /\ UNCHANGED faults
     \/ /\ backup.file \notin {"none", "empty"}
        /\ fails
        /\ UNCHANGED << backup, faults >>
     \/ /\ Fault
        /\ fails
        /\ \/ UNCHANGED backup
           \/ /\ backup.file \in {"none", "empty"}
              /\ \E f \in {"empty", "partial"} : backup' = [file |-> f, txs |-> << >>]
  /\ UNCHANGED << txs, node >>

--------------------------------------------------------------------------------
(* CheckSQLiteRestore, as the last part of BackupSQLite or on its own.          *)

CheckSQLiteRestore(known) ==
  /\ job.pc = "idle"
  /\ job' = [Idle EXCEPT !.pc = "check", !.known = known]
  /\ report' = "none"
  /\ UNCHANGED << source, node, backup, faults >>

\* SQLiteIntegrityCheck: a quick check, which an interrupted VACUUM INTO fails.
SQLiteIntegrityCheck(b) == b.file # "partial"

\* The migration and integrity checks of the backup; a missing file is created.
CheckBackup ==
  /\ job.pc = "check"
  /\ IF CheckSQLiteMigrations(backup.txs) /\ SQLiteIntegrityCheck(backup)
     THEN goto("copy") ELSE fails
  /\ backup' = IF backup.file = "none" THEN [backup EXCEPT !.file = "empty"] ELSE backup
  /\ UNCHANGED << source, node, faults >>

\* restoreWorkingCopy: a private copy is opened, and so migrated.
restoreWorkingCopy(b) == migrateSQLite(b.txs, SQLiteSchemaVersion)

\* verifyReceipt: the manifest history knows the validator set of a receipt, or no
\* history was given and only the receipt's own hashes are compared.
verifyReceipt(receipt, known) == known

\* The receipts of the copy are verified; any error of the calls is a failed report.
CheckCopy ==
  LET copy == restoreWorkingCopy(backup) IN
  /\ job.pc = "copy"
  /\ \/ IF \E r \in ListEvidence(copy) : ~verifyReceipt(r, job.known) THEN fails /\ UNCHANGED faults
        ELSE /\ job' = [job EXCEPT !.pc = "idle"]
             /\ report' = "pass"
             /\ UNCHANGED faults
     \/ Fault /\ fails
  /\ UNCHANGED << source, node, backup >>

\* The command is interrupted.
Interrupt ==
  /\ job.pc # "idle"
  /\ Fault
  /\ fails
  /\ \/ UNCHANGED backup
     \/ /\ job.pc = "vacuum" /\ backup.file \in {"none", "empty"}
        /\ \E f \in {"empty", "partial"} : backup' = [file |-> f, txs |-> << >>]
  /\ UNCHANGED << source, node >>

\* The operator puts the checked backup in the place of a stopped validator's
\* database.
Restore ==
  /\ node \in {"down", "refused"}
  /\ job.pc = "idle" /\ report = "pass"
  /\ txs' = backup.txs
  /\ main' = Len(backup.txs)
  /\ node' = "down"
  /\ UNCHANGED << backup, job, report, faults >>

--------------------------------------------------------------------------------
Init ==
  /\ txs = << >>
  /\ main = 0
  /\ node = "down"
  /\ backup = [file |-> "none", txs |-> << >>]
  /\ job = Idle
  /\ report = "none"
  /\ faults = 0

Next ==
  \/ \E target \in 1 .. 2 : Open(target)
  \/ SaveCommit
  \/ SaveEvidence
  \/ Checkpoint
  \/ Stop
  \/ \E force, known \in BOOLEAN : BackupSQLite(force, known)
  \/ CheckSource
  \/ Remove
  \/ vacuumSQLiteInto
  \/ \E known \in BOOLEAN : CheckSQLiteRestore(known)
  \/ CheckBackup
  \/ CheckCopy
  \/ Interrupt
  \/ Restore

Spec == Init /\ [][Next]_backupVars

--------------------------------------------------------------------------------
\* A backup that BackupSQLite reports as "pass" is a database this release opens
\* and a validator loads: the commits have no gap, the state row names the last
\* of them, every receipt belongs to one of them, and every commit and receipt
\* that was saved when the command was given is there, although the validator
\* goes on writing and part of its database is in the write-ahead log.
PassRestores ==
  report = "pass" =>
    /\ sqliteCurrentVersion(backup.txs) <= SQLiteSchemaVersion
    /\ loadPersistedState(backup.txs)
    /\ ListEvidence(backup.txs) \subseteq ListCommits(backup.txs)
    /\ job.height <= Cardinality(ListCommits(backup.txs))
    /\ job.receipts \subseteq ListEvidence(backup.txs)
================================================================================
