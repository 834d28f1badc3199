----------------------------- MODULE RawBackup -----------------------------
(***************************************************************************)
(* Backup of the database and the Raw store while collectors are active    *)
(* (observatory_operations backup.py), and the verdict of a later restore  *)
(* (restore.py, integrity.py).                                             *)
(*                                                                         *)
(* A backup dumps a snapshot of the database, then lists and copies the    *)
(* Raw records, verifies the result and publishes it by a rename.  The     *)
(* manifest holds the paths of the copied records and, of the database,    *)
(* the number of rows.  One source is modelled: several are listed one     *)
(* after another, each of them after the snapshot, and compared one by one.*)
(***************************************************************************)
EXTENDS RawStore

CONSTANT MaxBackups  \* bound: backups started in one behaviour

ASSUME BackupAssumption == MaxBackups \in Nat

VARIABLES
  backup,   \* the backup that is being created
  catalog,  \* the published backups
  started   \* number of backups started

backupVars == <<backup, catalog, started>>
vars == <<storeVars, backupVars>>

-----------------------------------------------------------------------------
(* Types *)

Verdicts == {"pass", "warning"}
Backup   == [rows : SUBSET Keys, records : SUBSET Names, verdict : Verdicts]

TypeOK ==
  /\ StoreTypeOK
  /\ backup \in [pc     : {"idle", "snapshot", "list", "copy", "failed"},
                 rows   : SUBSET Keys,
                 listed : SUBSET Names,
                 copied : SUBSET Names]
  /\ catalog \subseteq Backup
  /\ started \in 0..MaxBackups

-----------------------------------------------------------------------------
(* BackupService.create *)

NoBackup == [pc |-> "idle", rows |-> {}, listed |-> {}, copied |-> {}]

Init ==
  /\ StoreInit
  /\ backup = NoBackup
  /\ catalog = {}
  /\ started = 0

(* The staging directory is created; one of a failed backup stays aside. *)
StartBackup ==
  /\ backup.pc \in {"idle", "failed"}
  /\ started < MaxBackups
  /\ started' = started + 1
  /\ backup' = [NoBackup EXCEPT !.pc = "snapshot"]
  /\ UNCHANGED <<storeVars, catalog>>

(* A repeatable-read snapshot of the database is counted and dumped. *)
DatabaseSnapshot ==
  /\ backup.pc = "snapshot"
  /\ backup' = [backup EXCEPT !.pc = "list", !.rows = rows]
  /\ UNCHANGED <<storeVars, catalog, started>>

(* iter_records sorts all paths before it yields the first one. *)
ListRecords ==
  /\ backup.pc = "list"
  /\ backup' = [backup EXCEPT !.pc = "copy", !.listed = iter_records]
  /\ UNCHANGED <<storeVars, catalog, started>>

(* One record is loaded, verified and copied.  The order of the paths does *)
(* not matter and is left open.                                            *)
CopyRecord(n) ==
  /\ backup.pc = "copy"
  /\ n \in backup.listed
  /\ Readable(n)
  /\ backup' = [backup EXCEPT !.listed = @ \ {n}, !.copied = @ \cup {n}]
  /\ UNCHANGED <<storeVars, catalog, started>>

(* A listed record that is gone, or whose metadata or payload cannot be    *)
(* read, ends the backup: FAILED.json in a stage that is never listed.     *)
CopyFails(n) ==
  /\ backup.pc = "copy"
  /\ n \in backup.listed
  /\ ~ Readable(n)
  /\ backup' = [NoBackup EXCEPT !.pc = "failed"]
  /\ UNCHANGED <<storeVars, catalog, started>>

(* The manifest of the finished stage. *)
DumpedRows_late == rows
DumpedRows == backup.rows

(* _verify_raw compares numbers: fewer records than rows is a failure, a   *)
(* larger number is a warning.                                             *)
_verify_raw(manifest) ==
  LET raw_count      == Cardinality(manifest.records)
      database_count == Cardinality(manifest.rows)
  IN CASE raw_count < database_count -> "fail"
       [] raw_count > database_count -> "warning"
       [] OTHER -> "pass"

(* The stage is complete: it is verified, and published unless that fails. *)
VerifyAndPublish ==
  LET manifest == [rows |-> DumpedRows, records |-> backup.copied]
      result   == _verify_raw(manifest)
  IN
  /\ backup.pc = "copy"
  /\ backup.listed = {}
  /\ IF result = "fail"
       THEN /\ backup' = [NoBackup EXCEPT !.pc = "failed"]
            /\ UNCHANGED catalog
       ELSE /\ backup' = NoBackup
            /\ catalog' = catalog \cup
                 {[rows |-> manifest.rows, records |-> manifest.records, verdict |-> result]}
  /\ UNCHANGED <<storeVars, started>>

(* The database tool or the disk fails, or the process is killed: the      *)
(* stage stays unpublished.                                                *)
BackupAborts ==
  /\ backup.pc \in {"snapshot", "list", "copy"}
  /\ Fault("io_error") \/ Fault("crash")
  /\ backup' = [NoBackup EXCEPT !.pc = "failed"]
  /\ UNCHANGED <<dirs, writer, rows, catalog, started>>

BackupStep ==
  \/ StartBackup \/ DatabaseSnapshot \/ ListRecords
  \/ \E n \in Names : CopyRecord(n) \/ CopyFails(n)
  \/ VerifyAndPublish \/ BackupAborts

Next ==
  \/ StoreNext(backup.listed \cup backup.copied) /\ UNCHANGED backupVars
  \/ BackupStep

Spec == Init /\ [][Next]_vars

-----------------------------------------------------------------------------
(* Restore *)

(* The full integrity check of the restored unit resolves the pointer of   *)
(* every row.  Without any row its state is not_initialized, which the     *)
(* restore accepts only from a backup without Raw records.                 *)
raw_valid(b) ==
  \/ b.rows # {} /\ b.rows \subseteq b.records
  \/ b.rows = {} /\ b.records = {}

-----------------------------------------------------------------------------
(* Properties *)

(* Every row of a published backup has its record in the same backup,      *)
(* although collectors went on while it was created.                       *)
PublishedCovers == \A b \in catalog : b.rows \subseteq b.records

(* The verdict pass is a promise: the backup holds the records of its rows *)
(* and nothing else, and a restore of it passes the full integrity check.  *)
PassRestores ==
  \A b \in catalog : b.verdict = "pass" => b.records = b.rows /\ raw_valid(b)
=============================================================================
