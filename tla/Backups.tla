------------------------------ MODULE Backups ------------------------------
(***************************************************************************)
(* The nightly backup (ops/backup.py): a copy is proved readable before it *)
(* counts, one that is not is removed, a failure is told once per incident *)
(* and files older than the retention are pruned every night.              *)
(***************************************************************************)
EXTENDS Integers, FiniteSets

CONSTANTS
  Retention,        \* _BACKUP_RETENTION_DAYS
  LastNight,        \* the nights of a behaviour
  MaxBackupFaults,  \* copies that fail, files that cannot be removed, deaths
  NightsDown        \* nights in a row without a process, at most

ASSUME BackupBounds ==
  {Retention, LastNight, MaxBackupFaults, NightsDown} \subseteq Nat

VARIABLES
  night,      \* the night
  files,      \* the backup directory: the night each file is of, and if it reads
  backupStep,       \* of this night's job
  backupAlerted,  \* _backup_alerted
  failing,    \* failed nights of this process since one succeeded
  toldOf,     \* alerts in them
  onRecord,   \* files named in a backup_failed record as not removed
  halfCopied,       \* files a death left half copied
  backupFaults

backupVars == <<night, files, backupStep, backupAlerted, failing, toldOf, onRecord, halfCopied, backupFaults>>

Nights == 0..LastNight
BackupFile(n, reads) == [night |-> n, reads |-> reads]

BackupInit ==
  /\ night = 0 /\ files = {} /\ backupStep = "due"
  /\ backupAlerted = FALSE /\ failing = 0 /\ toldOf = 0
  /\ onRecord = {} /\ halfCopied = {} /\ backupFaults = 0

BackupFault == backupFaults < MaxBackupFaults /\ backupFaults' = backupFaults + 1

(* run(): the destination is opened before the copy, so a file is there.   *)
BeginCopy ==
  /\ backupStep = "due" /\ backupStep' = "copied"
  /\ files' = {f \in files : f.night # night} \cup {BackupFile(night, FALSE)}
  /\ UNCHANGED <<night, backupAlerted, failing, toldOf, onRecord, halfCopied, backupFaults>>

(* Mutant: the copy is not read back; half of it counts. *)
CopyUnproved ==
  /\ backupStep = "copied" /\ backupStep' = "prune"
  /\ \/ files' = (files \ {BackupFile(night, FALSE)}) \cup {BackupFile(night, TRUE)}
     \/ UNCHANGED files
  /\ backupAlerted' = FALSE /\ failing' = 0 /\ toldOf' = 0
  /\ halfCopied' = halfCopied \ {night} /\ onRecord' = onRecord \ {night}
  /\ UNCHANGED <<night, backupFaults>>

(* Copied and verified: the only thing that ends an incident. *)
CopyProved ==
  /\ backupStep = "copied" /\ backupStep' = "prune"
  /\ files' = (files \ {BackupFile(night, FALSE)}) \cup {BackupFile(night, TRUE)}
  /\ backupAlerted' = FALSE /\ failing' = 0 /\ toldOf' = 0
  /\ halfCopied' = halfCopied \ {night} /\ onRecord' = onRecord \ {night}
  /\ UNCHANGED <<night, backupFaults>>

(* The latch: one alert while the incident lasts. *)
AlertsNow == ~backupAlerted

(* The copy failed or cannot be read back: removed, recorded and told. *)
CopyFailed ==
  /\ backupStep = "copied" /\ backupStep' = "prune" /\ BackupFault
  /\ \/ /\ files' = {f \in files : f.night # night}
        /\ onRecord' = onRecord \ {night} /\ halfCopied' = halfCopied \ {night}
     \/ onRecord' = onRecord \cup {night} /\ UNCHANGED <<files, halfCopied>>
  /\ failing' = failing + 1
  /\ toldOf' = IF AlertsNow THEN toldOf + 1 ELSE toldOf
  /\ backupAlerted' = TRUE
  /\ UNCHANGED night

(* prune: strictly older than the retention. *)
TooOld(f) == night - f.night > Retention

Prune ==
  /\ backupStep = "prune" /\ backupStep' = "done"
  /\ files' = {f \in files : ~TooOld(f)}
  /\ UNCHANGED <<night, backupAlerted, failing, toldOf, onRecord, halfCopied, backupFaults>>

(* The process dies during the job: the job was not marked and runs again,  *)
(* the same night if it can.  The latch is the process's own.               *)
JobDies ==
  /\ backupStep \in {"due", "copied", "prune"} /\ BackupFault
  /\ backupStep' = "due"
  /\ halfCopied' = IF backupStep = "copied" THEN halfCopied \cup {night} ELSE halfCopied
  /\ backupAlerted' = FALSE /\ failing' = 0 /\ toldOf' = 0
  /\ UNCHANGED <<night, files, onRecord>>

(* The next night with a process up. *)
NextNight ==
  /\ backupStep \in {"done", "due"} /\ night < LastNight
  /\ backupStep' = "due"
  /\ night' \in (night + 1)..(night + 1 + (IF backupStep = "due" THEN NightsDown ELSE 0)) \cap Nights
  /\ UNCHANGED <<files, backupAlerted, failing, toldOf, onRecord, halfCopied, backupFaults>>

BackupNext == BeginCopy \/ CopyProved \/ CopyFailed \/ Prune \/ JobDies \/ NextNight

BackupSpec == BackupInit /\ [][BackupNext]_backupVars

-----------------------------------------------------------------------------
(* Properties *)

BackupTypeOK ==
  /\ night \in Nights /\ backupStep \in {"due", "copied", "prune", "done"}
  /\ files \subseteq [night : Nights, reads : BOOLEAN]
  /\ halfCopied \subseteq Nights /\ onRecord \subseteq Nights

(* A file of the directory that cannot be restored from is the one being    *)
(* copied, one on record as not removed, or one a death cut short: a restore *)
(* prefers the newest, so nothing else may be there.                        *)
OnlyProvenBackupsStay ==
  \A f \in files : ~f.reads =>
    f.night \in onRecord \cup halfCopied \/ (backupStep = "copied" /\ f.night = night)

(* A backup that failed is known: by its file, and to the owner, once an    *)
(* incident and again of the next.                                          *)
FailedBackupIsKnown ==
  OnlyProvenBackupsStay /\ toldOf = IF failing > 0 THEN 1 ELSE 0
=============================================================================
