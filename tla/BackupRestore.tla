--------------------------- MODULE BackupRestore ---------------------------
(***************************************************************************)
(* Restores of published backups into explicit targets, and the disaster-  *)
(* recovery drill (observatory_operations restore.py, with the verifiers   *)
(* of backup.py and integrity.py that it calls).                           *)
(*                                                                         *)
(* A restore verifies the backup, insists on an empty target, publishes    *)
(* the Raw tree by a rename, runs pg_restore and verifies the result; a    *)
(* report is left beside the target.  A drill does the same in a database  *)
(* and a directory of its own, keeps the report and removes the rest.      *)
(* Several operators may be at it, a published backup may rot on its disk, *)
(* and any step may fail or be the last one of its process.                *)
(***************************************************************************)
EXTENDS Naturals, FiniteSets

CONSTANTS
  Records,    \* Raw records, each named by its path
  Backups,    \* published backups
  Manifests,  \* what the manifest and the dump of a backup may hold
  Operators,  \* processes that restore or drill
  Targets,    \* targets that operators name: a database and a Raw directory
  Active,     \* the one of them that the Observatory itself works with
  Drills,     \* the places that drills create, each of them once
  MaxFaults   \* bound: faults injected in one behaviour

(* The dump of a published backup holds rows (each points to a record), the *)
(* manifest lists records.  unsampled: a source has matches, but none with *)
(* an observation and its Raw answer, as GitHub has between the discovery  *)
(* and the first snapshot.  answers: the registry has the topic for which  *)
(* the interfaces are asked after a restore.                               *)
Manifest == [rows : SUBSET Records, records : SUBSET Records,
             unsampled : BOOLEAN, answers : BOOLEAN]

(* A backup is published when its numbers agree (RawBackup!_verify_raw). *)
ASSUME RestoreAssumption ==
  /\ IsFiniteSet(Records)
  /\ Manifests \subseteq Manifest
  /\ \A m \in Manifests : Cardinality(m.records) >= Cardinality(m.rows)
  /\ Active \in Targets /\ Targets \cap Drills = {}
  /\ MaxFaults \in Nat

Parts == {"manifest", "dump", "registry"}

(* The states of a database that are not a restored backup. *)
Unfilled == {"absent", "empty", "partial"}

ASSUME BackupsAreNames == Backups \cap Unfilled = {}

VARIABLES
  manifest,  \* manifest[b]: what backup b was published with
  disk,      \* disk[b]: its records and other parts that are still intact
  place,     \* place[x]: the Raw tree and the database of x
  op,        \* op[p]: the restore or drill that operator p has under way
  report,    \* report[x]: the restore report beside the Raw tree of x
  evidence,  \* the drill reports that were kept
  left,      \* the drills that were killed, kept for inspection or not cleaned
  faults     \* number of faults injected so far

vars == <<manifest, disk, place, op, report, evidence, left, faults>>

-----------------------------------------------------------------------------
(* Types *)

Places == Targets \cup Drills

(* A Raw tree: its records, and those of them that cannot be read.  What   *)
(* is lost of a record leaves at least its directories.                    *)
Tree  == [records : SUBSET Records, bad : SUBSET Records]
Bare  == [records |-> {}, bad |-> {}]
Whole(records) == [records |-> records, bad |-> {}]

Results  == {"pass", "fail"}
NoReport == [result |-> "none"]
Report   == [backup : Backups, raw : Results, database : Results, result : Results]
Evidence == [drill : Drills, backup : Backups, result : Results]

Steps ==
  {"create", "preflight", "copy", "compare", "publish", "database", "fill",
   "verify", "record", "drop", "remove"}
Idle == [pc |-> "idle"]
Operation ==
  {Idle} \cup
  [pc : Steps, backup : Backups, place : Places, stage : Tree,
   raw : Results, database : Results, result : Results, keep : BOOLEAN]

TypeOK ==
  /\ manifest \in [Backups -> Manifests]
  /\ disk \in [Backups -> [raw : Tree, parts : SUBSET Parts]]
  /\ place \in [Places -> [raw : Tree, database : Unfilled \cup Backups]]
  /\ op \in [Operators -> Operation]
  /\ report \in [Places -> Report \cup {NoReport}]
  /\ evidence \subseteq Evidence
  /\ left \subseteq Drills
  /\ faults \in 0..MaxFaults

-----------------------------------------------------------------------------
(* Helpers *)

Cleared == [raw |-> Bare, database |-> "absent"]
Running(p) == op[p].pc # "idle"
Fault == faults < MaxFaults /\ faults' = faults + 1

Goto(p, pc) == op' = [op EXCEPT ![p].pc = pc]

(* A restore has ended: that of a drill goes on to its report. *)
Return(p) ==
  op' = [op EXCEPT ![p] = IF @.place \in Drills THEN [@ EXCEPT !.pc = "record"] ELSE Idle]

(* The dump has its checksum and pg_restore can list it; the registry files *)
(* load to the checksum and the number of topics of the database.          *)
dump_valid(b)     == "dump" \in disk[b].parts
registry_valid(b) == "registry" \in disk[b].parts

(* BackupVerifier.verify does not fail: every part matches its checksum,   *)
(* every listed record is there and intact, and no source has fewer        *)
(* records than rows; more of them are only a warning.                     *)
Verified(b) ==
  /\ "manifest" \in disk[b].parts /\ dump_valid(b) /\ registry_valid(b)
  /\ disk[b].raw = Whole(manifest[b].records)
  /\ Cardinality(manifest[b].records) >= Cardinality(manifest[b].rows)

(* verify_raw_directory succeeds for these records of x. *)
Readable(x) == place[x].raw.records \ place[x].raw.bad

(* RawIntegrityVerifier.verify(full): the pointers of all rows are resolved *)
(* in the Raw tree of x.                                                   *)
raw_integrity(b, x) ==
  IF manifest[b].rows = {} THEN "not_initialized"
  ELSE IF manifest[b].rows \subseteq Readable(x) THEN "pass" ELSE "fail"

raw_valid_counted(b, x) ==
  Cardinality(place[x].raw.records) >= Cardinality(manifest[b].rows)
raw_valid(b, x) ==
  \/ raw_integrity(b, x) = "pass"
  \/ raw_integrity(b, x) = "not_initialized" /\ manifest[b].records = {}

(* Each source with matches shows at least one of them down to its Raw     *)
(* answer; the pointers of the samples are among those checked above.      *)
lineage_valid(b) == ~ manifest[b].unsampled

(* All interfaces answer 200, those for one fixed topic included. *)
_api_smoke(b) == manifest[b].answers

(* The checks of a restored unit, as far as they can differ: the counts,   *)
(* the migration and the registry are those of the dump.                   *)
_verify_restored(b, x) == raw_valid(b, x) /\ lineage_valid(b) /\ _api_smoke(b)

-----------------------------------------------------------------------------
(* RestoreService.restore *)

(* Published backups are intact.  The targets are provisioned and empty,   *)
(* but for the active one; what drills create is not there yet.            *)
Init ==
  /\ manifest \in [Backups -> Manifests]
  /\ disk = [b \in Backups |-> [raw |-> Whole(manifest[b].records), parts |-> Parts]]
  /\ \E collected \in {{}, Records} :
       place = [x \in Places |->
                  CASE x = Active    -> [raw |-> Whole(collected), database |-> "partial"]
                    [] x \in Drills  -> Cleared
                    [] OTHER         -> [raw |-> Bare, database |-> "empty"]]
  /\ op = [p \in Operators |-> Idle]
  /\ report = [x \in Places |-> NoReport]
  /\ evidence = {} /\ left = {}
  /\ faults = 0

Begin(p, pc, b, x, keep) ==
  op' = [op EXCEPT ![p] =
           [pc |-> pc, backup |-> b, place |-> x, stage |-> Bare,
            raw |-> "fail", database |-> "fail", result |-> "fail", keep |-> keep]]

StartRestore(p, b, x) ==
  /\ op[p] = Idle
  /\ x \in Targets
  /\ Begin(p, "preflight", b, x, FALSE)
  /\ UNCHANGED <<manifest, disk, place, report, evidence, left, faults>>

(* The backup verifies, and the target is another one than the active      *)
(* store and empty: its Raw tree and its database.                         *)
Acceptable(b, x) ==
  /\ Verified(b)
  /\ x # Active
  /\ place[x].raw = Bare
  /\ place[x].database = "empty"

(* A refused restore ends with an error and leaves no report. *)
_preflight(p) ==
  /\ op[p].pc = "preflight"
  /\ IF Acceptable(op[p].backup, op[p].place) THEN Goto(p, "copy") ELSE Return(p)
  /\ UNCHANGED <<manifest, disk, place, report, evidence, left, faults>>

(* The Raw tree of the backup, as it is now, is copied beside the target. *)
CopyTree(p) ==
  /\ op[p].pc = "copy"
  /\ op' = [op EXCEPT ![p].stage = disk[op[p].backup].raw, ![p].pc = "compare"]
  /\ UNCHANGED <<manifest, disk, place, report, evidence, left, faults>>

(* The error path: the stage is removed and a report tells how far the     *)
(* restore came.  What has been published stays.                           *)
Fails(p) ==
  /\ report' = [report EXCEPT ![op[p].place] =
                  [backup |-> op[p].backup, raw |-> op[p].raw,
                   database |-> op[p].database, result |-> "fail"]]
  /\ Return(p)

(* The copy must equal the backup byte by byte. *)
_verify_restored_raw_tree(p) ==
  /\ op[p].pc = "compare"
  /\ IF op[p].stage = disk[op[p].backup].raw
       THEN Goto(p, "publish") /\ UNCHANGED report
       ELSE Fails(p)
  /\ UNCHANGED <<manifest, disk, place, evidence, left, faults>>

(* rmdir and rename, which both refuse a directory with files: an absent   *)
(* and an empty directory are one here.                                    *)
Vacant_any(x) == TRUE
Vacant(x) == place[x].raw = Bare

PublishRaw(p) ==
  LET x == op[p].place IN
  /\ op[p].pc = "publish"
  /\ IF Vacant(x)
       THEN /\ place' = [place EXCEPT ![x].raw = op[p].stage]
            /\ op' = [op EXCEPT ![p].raw = "pass", ![p].pc = "database"]
            /\ UNCHANGED report
       ELSE Fails(p) /\ UNCHANGED place
  /\ UNCHANGED <<manifest, disk, evidence, left, faults>>

(* What pg_restore --exit-on-error can create its tables in. *)
Creatable_any(x) == place[x].database # "absent"
Creatable(x) == place[x].database = "empty"

(* pg_restore creates the tables first, and fills them without a           *)
(* transaction around the whole: tables that exist, and a dump that cannot *)
(* be read to its end, stop it where it is.                                *)
RestoreDatabase(p) ==
  LET x == op[p].place
      b == op[p].backup
  IN
  \/ /\ op[p].pc = "database"
     /\ IF Creatable(x)
          THEN /\ place' = [place EXCEPT ![x].database = "partial"]
               /\ Goto(p, "fill") /\ UNCHANGED report
          ELSE Fails(p) /\ UNCHANGED place
     /\ UNCHANGED <<manifest, disk, evidence, left, faults>>
  \/ /\ op[p].pc = "fill"
     /\ IF dump_valid(b)
          THEN /\ place' = [place EXCEPT ![x].database = b]
               /\ op' = [op EXCEPT ![p].database = "pass", ![p].pc = "verify"]
               /\ UNCHANGED report
          ELSE Fails(p) /\ UNCHANGED place
     /\ UNCHANGED <<manifest, disk, evidence, left, faults>>

(* The restored unit is verified and the report is written. *)
VerifyRestored(p) ==
  LET x      == op[p].place
      result == IF _verify_restored(op[p].backup, x) THEN "pass" ELSE "fail"
  IN
  /\ op[p].pc = "verify"
  /\ report' = [report EXCEPT ![x] =
                  [backup |-> op[p].backup, raw |-> "pass",
                   database |-> "pass", result |-> result]]
  /\ op' = [op EXCEPT ![p] = IF x \in Drills
                               THEN [@ EXCEPT !.result = result, !.pc = "record"]
                               ELSE Idle]
  /\ UNCHANGED <<manifest, disk, place, evidence, left, faults>>

-----------------------------------------------------------------------------
(* DisasterRecoveryDrill.run *)

(* A drill makes a directory with a name of its own, and its database. *)
StartDrill(p, b, d, keep) ==
  /\ op[p] = Idle
  /\ place[d] = Cleared /\ d \notin left
  /\ \A e \in evidence : e.drill # d
  /\ \A q \in Operators : Running(q) => op[q].place # d
  /\ Begin(p, "create", b, d, keep)
  /\ UNCHANGED <<manifest, disk, place, report, evidence, left, faults>>

CreateDatabase(p) ==
  /\ op[p].pc = "create"
  /\ place' = [place EXCEPT ![op[p].place].database = "empty"]
  /\ Goto(p, "preflight")
  /\ UNCHANGED <<manifest, disk, report, evidence, left, faults>>

(* keep_on_failure: a drill that failed is left for inspection. *)
Kept(p) == op[p].keep /\ op[p].result = "fail"

(* What the drill does after its report: the clean-up, unless it is kept. *)
Finally_succeeded(p) ==
  IF op[p].result = "fail"
    THEN op' = [op EXCEPT ![p] = Idle] /\ UNCHANGED left
    ELSE Goto(p, "drop") /\ UNCHANGED left
Finally(p) ==
  IF Kept(p)
    THEN op' = [op EXCEPT ![p] = Idle] /\ left' = left \cup {op[p].place}
    ELSE Goto(p, "drop") /\ UNCHANGED left

(* The report is saved, that of a failure only if the restore wrote one:   *)
(* a restore that was refused leaves no evidence.                          *)
RecordDrill(p) ==
  LET d == op[p].place IN
  /\ op[p].pc = "record"
  /\ evidence' = IF report[d] = NoReport THEN evidence
                   ELSE evidence \cup {[drill |-> d, backup |-> op[p].backup,
                                        result |-> report[d].result]}
  /\ Finally(p)
  /\ UNCHANGED <<manifest, disk, place, report, faults>>

DropDatabase(p) ==
  /\ op[p].pc = "drop"
  /\ place' = [place EXCEPT ![op[p].place].database = "absent"]
  /\ Goto(p, "remove")
  /\ UNCHANGED <<manifest, disk, report, evidence, left, faults>>

(* rmtree also removes the report beside the Raw tree. *)
RemoveTree(p) ==
  LET d == op[p].place IN
  /\ op[p].pc = "remove"
  /\ place' = [place EXCEPT ![d].raw = Bare]
  /\ report' = [report EXCEPT ![d] = NoReport]
  /\ op' = [op EXCEPT ![p] = Idle]
  /\ UNCHANGED <<manifest, disk, evidence, left, faults>>

-----------------------------------------------------------------------------
(* Faults *)

(* A disk, a database or a tool fails inside a step. *)
StepFails(p) ==
  /\ Running(p)
  /\ Fault
  /\ \/ /\ op[p].pc \in {"copy", "compare", "publish", "database", "fill", "verify"}
        /\ Fails(p) /\ UNCHANGED left
     \/ /\ op[p].pc \in {"create", "preflight"}
        /\ Return(p) /\ UNCHANGED <<report, left>>
     \/ /\ op[p].pc = "record"
        /\ Finally(p) /\ UNCHANGED report
     \/ /\ op[p].pc \in {"drop", "remove"}
        /\ op' = [op EXCEPT ![p] = Idle]
        /\ left' = left \cup {op[p].place}
        /\ UNCHANGED report
  /\ UNCHANGED <<manifest, disk, place, evidence>>

(* The process is killed: the target stays as it is. *)
Killed(p) ==
  /\ Running(p)
  /\ Fault
  /\ op' = [op EXCEPT ![p] = Idle]
  /\ left' = left \cup ({op[p].place} \cap Drills)
  /\ UNCHANGED <<manifest, disk, place, report, evidence>>

(* A record or another part of a published backup is lost or altered. *)
Rot(b) ==
  /\ Fault
  /\ \/ \E r \in disk[b].raw.records \ disk[b].raw.bad :
          disk' = [disk EXCEPT ![b].raw.bad = @ \cup {r}]
     \/ \E part \in disk[b].parts : disk' = [disk EXCEPT ![b].parts = @ \ {part}]
  /\ UNCHANGED <<manifest, place, op, report, evidence, left>>

restore(p) ==
  \/ _preflight(p) \/ CopyTree(p) \/ _verify_restored_raw_tree(p)
  \/ PublishRaw(p) \/ RestoreDatabase(p) \/ VerifyRestored(p)

Drill(p) == CreateDatabase(p) \/ RecordDrill(p) \/ DropDatabase(p) \/ RemoveTree(p)

Next ==
  \/ \E p \in Operators :
       \/ restore(p) \/ Drill(p) \/ StepFails(p) \/ Killed(p)
       \/ \E b \in Backups, x \in Targets : StartRestore(p, b, x)
       \/ \E b \in Backups, d \in Drills, keep \in BOOLEAN : StartDrill(p, b, d, keep)
  \/ \E b \in Backups : Rot(b)

Spec == Init /\ [][Next]_vars

-----------------------------------------------------------------------------
(* Properties *)

(* A passing report is a proof: the target holds the database of that      *)
(* backup and the record of every row in it, and a backup that a drill     *)
(* passed had the record of every row - although the verdict of the backup *)
(* itself only compares numbers, the backup may have rotted since it was   *)
(* verified, and others try to restore into the same target.               *)
PassIsProof ==
  /\ \A x \in Targets : report[x].result = "pass" =>
       LET b == report[x].backup IN
       place[x].database = b /\ manifest[b].rows \subseteq Readable(x)
  /\ \A e \in evidence : e.result = "pass" =>
       manifest[e.backup].rows \subseteq manifest[e.backup].records

(* No target mixes two backups: beside the database of a backup that has   *)
(* records there are only records of this backup.                          *)
NeverMixed ==
  \A x \in Targets : \A b \in Backups :
    place[x].database = b /\ manifest[b].records # {}
      => place[x].raw.records \subseteq manifest[b].records

(* No restore overwrites anything: records and databases that are there,   *)
(* whole or partial, stay as they are, in the active store above all.      *)
NothingOverwritten ==
  [][/\ place'[Active] = place[Active]
     /\ \A x \in Targets :
          /\ place[x].raw # Bare => place'[x].raw = place[x].raw
          /\ place[x].database \in Backups => place'[x].database = place[x].database]_vars

(* A drill that ended without being killed, kept or stopped by an error in *)
(* its clean-up has left nothing behind.                                   *)
DrillsCleanUp ==
  \A d \in Drills \ left :
    (\A p \in Operators : Running(p) => op[p].place # d) =>
      place[d] = Cleared /\ report[d] = NoReport
=============================================================================
