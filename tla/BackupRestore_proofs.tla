------------------------ MODULE BackupRestore_proofs ------------------------
(***************************************************************************)
(* Theorems about restores and drills, for any records, backups, operators *)
(* and targets, and any number of faults.                                  *)
(***************************************************************************)
EXTENDS BackupRestore, TLAPS, FiniteSetTheorems

Operating ==
  [pc : Steps, backup : Backups, place : Places, stage : Tree,
   raw : Results, database : Results, result : Results, keep : BOOLEAN]
Ops       == [Operators -> Operation]
Place     == [raw : Tree, database : Unfilled \cup Backups]
Reports   == [Places -> Report \cup {NoReport}]

Copied     == {"compare", "publish", "database", "fill", "verify"}
Published  == {"database", "fill", "verify"}
DrillSteps == {"create", "record", "drop", "remove"}

(* What an operation knows of its place.  A copy has the records of the     *)
(* backup; once it is published it is the Raw tree of the place, unless it  *)
(* is empty; the database is the one this operation left there.             *)
OpInv(p) ==
  Running(p) =>
    /\ op[p].pc \in {"copy"} \cup Copied => op[p].place # Active
    /\ op[p].pc \in DrillSteps => op[p].place \in Drills
    /\ op[p].pc \in Copied => op[p].stage.records = manifest[op[p].backup].records
    /\ op[p].pc \in Published /\ op[p].stage # Bare =>
         place[op[p].place].raw = op[p].stage
    /\ op[p].pc = "fill"   => place[op[p].place].database = "partial"
    /\ op[p].pc = "verify" => place[op[p].place].database = op[p].backup
    /\ op[p].pc = "remove" => place[op[p].place].database = "absent"
    /\ op[p].place \in Drills /\ report[op[p].place] # NoReport =>
         report[op[p].place].backup = op[p].backup

(* One operation fills the database of a place, and one works in a drill.   *)
Alone ==
  \A p, q \in Operators : p # q /\ Running(p) /\ Running(q) /\ op[p].place = op[q].place =>
    /\ op[p].place \notin Drills
    /\ ~(op[p].pc = "fill" /\ op[q].pc = "fill")

(* What a passing report says: its backup was complete, and a target still  *)
(* holds it.                                                                *)
ReportInv(x) ==
  report[x].result = "pass" =>
    /\ manifest[report[x].backup].rows \subseteq manifest[report[x].backup].records
    /\ x \in Targets =>
         /\ place[x].database = report[x].backup
         /\ manifest[report[x].backup].rows \subseteq Readable(x)

(* A target with the database of a backup has the backup's records.         *)
UnmixedInv(x) ==
  \A b \in Backups :
    place[x].database = b /\ manifest[b].records # {} =>
      place[x].raw.records = manifest[b].records

EvidenceInv ==
  \A e \in evidence : e.result = "pass" =>
    manifest[e.backup].rows \subseteq manifest[e.backup].records

DiskInv == \A b \in Backups : disk[b].raw.records = manifest[b].records

RestoreInv ==
  /\ TypeOK /\ DiskInv /\ Alone /\ EvidenceInv /\ DrillsCleanUp
  /\ \A p \in Operators : OpInv(p)
  /\ \A x \in Places : ReportInv(x)
  /\ \A x \in Targets : UnmixedInv(x)

-----------------------------------------------------------------------------
(* Lemmas about the values *)

LEMMA OperatingIsOperation == Operating \subseteq Operation /\ Idle \in Operation
BY DEF Operating, Operation

LEMMA RunningShape ==
  ASSUME TypeOK, NEW p \in Operators, Running(p)
  PROVE  op[p] \in Operating
BY DEF TypeOK, Running, Operation, Operating, Idle

(* A backup without records has no rows.                                    *)
LEMMA NoRecordsNoRows ==
  ASSUME manifest \in [Backups -> Manifests], NEW b \in Backups, manifest[b].records = {}
  PROVE  manifest[b].rows = {}
<1>1. /\ manifest[b] \in Manifest
      /\ Cardinality(manifest[b].records) >= Cardinality(manifest[b].rows)
  BY RestoreAssumption
<1>2. manifest[b].rows \subseteq Records
  BY <1>1 DEF Manifest
<1>3. IsFiniteSet(manifest[b].rows) /\ Cardinality(manifest[b].rows) \in Nat
  BY <1>2, RestoreAssumption, FS_Subset, FS_CardinalityType
<1>4. Cardinality(manifest[b].rows) = 0
  BY <1>1, <1>3, FS_EmptySet
<1>5. QED
  BY <1>3, <1>4, FS_EmptySet

LEMMA BareIsTree == Bare \in Tree /\ Bare.records = {}
BY DEF Bare, Tree

-----------------------------------------------------------------------------
(* What one step of operator p at place x may do.                           *)

Effect(p, x) ==
  /\ manifest' = manifest /\ disk' = disk
  /\ op' \in Ops /\ \A q \in Operators \ {p} : op'[q] = op[q]
  /\ Running(p) => op[p].place = x
  /\ Running(p)' => op'[p].place = x
  /\ place' \in [Places -> Place] /\ \A y \in Places \ {x} : place'[y] = place[y]
  /\ report' \in Reports /\ \A y \in Places \ {x} : report'[y] = report[y]
  /\ x \in Targets /\ report'[x].result = "pass" =>
       report'[x] = report[x] \/ (op[p].pc = "verify" /\ place' = place)
  /\ evidence' \subseteq Evidence
  /\ left \subseteq left' /\ left' \subseteq left \cup ({x} \cap Drills)
  /\ faults' \in 0..MaxFaults

(* How it may change a target: fill a vacant Raw tree, create the tables of *)
(* an empty database, or finish the database it has been filling.           *)
Additive(p, x) ==
  /\ \/ place'[x].raw = place[x].raw
     \/ place[x].raw = Bare /\ place'[x].database = place[x].database
  /\ \/ place'[x].database = place[x].database
     \/ place[x].database = "empty" /\ place'[x].database = "partial"
     \/ place[x].database = "partial" /\ op[p].pc = "fill"
  /\ x = Active => place'[x] = place[x]

LEMMA StepKeeps ==
  ASSUME RestoreInv, NEW p \in Operators, NEW x \in Places, Effect(p, x),
         x \in Targets => Additive(p, x),
         ~Running(p) => Running(p)' /\
           (x \in Drills => \A q \in Operators : Running(q) => op[q].place # x),
         op'[p].pc = "fill" => place[x].database = "empty",
         x \in Drills /\ ~Running(p)' /\ x \notin left' =>
           place'[x] = Cleared /\ report'[x] = NoReport,
         OpInv(p)', ReportInv(x)', x \in Targets => UnmixedInv(x)',
         EvidenceInv'
  PROVE  RestoreInv'
<1>1. TypeOK'
  BY DEF RestoreInv, TypeOK, Effect, Ops, Place, Reports
<1>2. DiskInv'
  BY DEF RestoreInv, DiskInv, Effect
<1>3. ASSUME NEW q \in Operators PROVE OpInv(q)'
  <2>1. CASE q = p
    BY <2>1
  <2>2. CASE q # p /\ ~Running(q)
    BY <2>2 DEF Effect, OpInv, Running
  <2>3. CASE q # p /\ Running(q) /\ op[q].place # x
    <3>1. /\ op'[q] = op[q] /\ place'[op[q].place] = place[op[q].place]
          /\ report'[op[q].place] = report[op[q].place] /\ manifest' = manifest
      BY <2>3, RunningShape DEF Operating, Effect, RestoreInv
    <3>2. QED
      BY <2>3, <3>1 DEF RestoreInv, OpInv, Running
  <2>4. CASE q # p /\ Running(q) /\ op[q].place = x
    <3>1. x \notin Drills
      BY <2>4 DEF Effect, RestoreInv, Alone
    <3>2. x \in Targets
      BY <3>1 DEF Places
    <3>3. op'[q] = op[q] /\ manifest' = manifest
      BY <2>4 DEF Effect
    <3>4. place[x].raw # Bare => place'[x].raw = place[x].raw
      BY <3>2 DEF Additive
    <3>5. op[q].pc \in {"fill", "verify"} => place'[x].database = place[x].database
      <4>1. op[q].pc = "fill" => ~(Running(p) /\ op[p].pc = "fill")
        BY <2>4 DEF Effect, RestoreInv, Alone
      <4>2. op[q].pc = "fill" => place[x].database = "partial"
        BY <2>4 DEF RestoreInv, OpInv
      <4>3. op[q].pc = "verify" => place[x].database \in Backups
        BY <2>4, RunningShape DEF Operating, RestoreInv, OpInv
      <4>4. QED
        BY <3>2, <4>1, <4>2, <4>3, BackupsAreNames DEF Additive, Unfilled, Running
    <3>6. op[q].pc # "remove"
      BY <2>4, <3>1 DEF RestoreInv, OpInv, DrillSteps
    <3>7. QED
      BY <2>4, <3>1, <3>3, <3>4, <3>5, <3>6 DEF RestoreInv, OpInv, Running
  <2>5. QED
    BY <2>1, <2>2, <2>3, <2>4
<1>4. Alone'
  <2> SUFFICES ASSUME NEW f \in Operators, NEW g \in Operators, f # g,
                      Running(f)', Running(g)', op'[f].place = op'[g].place
               PROVE  /\ op'[f].place \notin Drills
                      /\ ~(op'[f].pc = "fill" /\ op'[g].pc = "fill")
    BY DEF Alone, Running
  <2>1. CASE f # p /\ g # p
    BY <2>1 DEF Effect, RestoreInv, Alone, Running
  <2>2. ASSUME NEW q \in Operators, q # p, Running(q)', Running(p)',
               op'[q].place = op'[p].place
        PROVE  x \notin Drills /\ ~(op'[p].pc = "fill" /\ op'[q].pc = "fill")
    <3>1. op'[q] = op[q] /\ op'[p].place = x /\ Running(q) /\ op[q].place = x
      BY <2>2 DEF Effect, Running
    <3>2. x \notin Drills
      BY <2>2, <3>1 DEF Effect, RestoreInv, Alone
    <3>3. ~(op'[p].pc = "fill" /\ op'[q].pc = "fill")
      <4>1. op[q].pc = "fill" => place[x].database = "partial"
        BY <3>1 DEF RestoreInv, OpInv
      <4>2. QED
        BY <3>1, <4>1
    <3>4. QED
      BY <3>2, <3>3
  <2>3. QED
    BY <2>1, <2>2 DEF Effect
<1>5. DrillsCleanUp'
  <2> SUFFICES ASSUME NEW d \in Drills, d \notin left',
                      \A q \in Operators : Running(q)' => op'[q].place # d
               PROVE  place'[d] = Cleared /\ report'[d] = NoReport
    BY DEF DrillsCleanUp, Running
  <2>1. CASE d = x
    BY <2>1 DEF Effect
  <2>2. CASE d # x
    <3>1. d \notin left /\ d \in Places
      BY DEF Effect, Places
    <3>2. \A q \in Operators : Running(q) => op[q].place # d
      BY <2>2 DEF Effect, Running
    <3>3. place[d] = Cleared /\ report[d] = NoReport
      BY <3>1, <3>2 DEF RestoreInv, DrillsCleanUp
    <3>4. QED
      BY <2>2, <3>1, <3>3 DEF Effect
  <2>3. QED
    BY <2>1, <2>2
<1>6. \A y \in Places : ReportInv(y)'
  <2> SUFFICES ASSUME NEW y \in Places, y # x PROVE ReportInv(y)'
    OBVIOUS
  <2>1. manifest' = manifest /\ place'[y] = place[y] /\ report'[y] = report[y]
    BY DEF Effect
  <2>2. QED
    BY <2>1 DEF RestoreInv, ReportInv, Readable
<1>7. \A y \in Targets : UnmixedInv(y)'
  <2> SUFFICES ASSUME NEW y \in Targets, y # x PROVE UnmixedInv(y)'
    OBVIOUS
  <2>1. manifest' = manifest /\ place'[y] = place[y]
    BY DEF Effect, Places
  <2>2. QED
    BY <2>1 DEF RestoreInv, UnmixedInv
<1>8. QED
  BY <1>1, <1>2, <1>3, <1>4, <1>5, <1>6, <1>7 DEF RestoreInv

-----------------------------------------------------------------------------
(* The operations, one lemma each *)

(* A running operation goes on to another step or ends, and touches nothing *)
(* but its own report.                                                      *)
LEMMA QuietKeeps ==
  ASSUME RestoreInv, NEW p \in Operators, Running(p), NEW x \in Places, op[p].place = x,
         NEW n \in Operation, op' = [op EXCEPT ![p] = n],
         n # Idle => n \in Operating /\ n.place = x /\ n.pc # "fill",
         UNCHANGED <<manifest, disk, place>>,
         report' \in Reports,
         \A y \in Places \ {x} : report'[y] = report[y],
         x \in Targets /\ report'[x].result = "pass" =>
           report'[x] = report[x] \/ op[p].pc = "verify",
         left' \in {left, left \cup ({x} \cap Drills)},
         n = Idle /\ x \in Drills => x \in left',
         evidence' \subseteq Evidence, faults' \in 0..MaxFaults,
         OpInv(p)', ReportInv(x)', EvidenceInv'
  PROVE  RestoreInv'
<1>1. op \in Ops /\ place \in [Places -> Place] /\ left' \in SUBSET Drills
  BY RunningShape DEF RestoreInv, TypeOK, Operating, Ops, Place
<1>2. op'[p] = n /\ \A q \in Operators \ {p} : op'[q] = op[q]
  BY <1>1 DEF Ops
<1>3. Running(p)' => n # Idle
  BY <1>2 DEF Running, Idle
<1>4. Running(p)' <=> n # Idle
  BY <1>2, <1>3 DEF Running, Operating, Steps
<1>5. op' \in Ops
  BY <1>1 DEF Ops
<1>6. Effect(p, x)
  <2>1. Running(p)' => op'[p].place = x
    BY <1>2, <1>3
  <2>2. place' \in [Places -> Place] /\ \A y \in Places \ {x} : place'[y] = place[y]
    BY <1>1
  <2>3. left \subseteq left' /\ left' \subseteq left \cup ({x} \cap Drills)
    OBVIOUS
  <2>4. x \in Targets /\ report'[x].result = "pass" =>
          report'[x] = report[x] \/ (op[p].pc = "verify" /\ place' = place)
    OBVIOUS
  <2>5. QED
    BY <1>2, <1>5, <2>1, <2>2, <2>3, <2>4 DEF Effect
<1>7. x \in Targets => Additive(p, x) /\ UnmixedInv(x)'
  <2>1. place' = place /\ manifest' = manifest
    OBVIOUS
  <2>2. Additive(p, x)
    BY <2>1 DEF Additive
  <2>3. x \in Targets => UnmixedInv(x)'
    BY <2>1 DEF UnmixedInv, RestoreInv
  <2>4. QED
    BY <2>2, <2>3
<1>8. op'[p].pc # "fill"
  BY <1>2 DEF Idle
<1>9. QED
  BY <1>1, <1>4, <1>6, <1>7, <1>8, StepKeeps

LEMMA Here ==
  ASSUME RestoreInv, NEW p \in Operators, Running(p)
  PROVE  /\ op[p] \in Operating /\ op[p].place \in Places /\ op[p].backup \in Backups
         /\ op \in Ops
BY RunningShape DEF RestoreInv, Operating, Ops, TypeOK

LEMMA FaultTyped ==
  ASSUME RestoreInv, Fault \/ faults' = faults
  PROVE  faults' \in 0..MaxFaults
BY RestoreAssumption DEF RestoreInv, TypeOK, Fault

(* Going on to a step that assumes nothing new.                             *)
LEMMA GotoKeeps ==
  ASSUME RestoreInv, NEW p \in Operators, Running(p), NEW c \in {"copy", "publish", "drop"},
         Goto(p, c), UNCHANGED <<manifest, disk, place, report, left>>,
         evidence' \subseteq Evidence, EvidenceInv', faults' \in 0..MaxFaults,
         c \in {"copy", "publish"} => op[p].place # Active,
         c = "publish" => op[p].pc = "compare",
         c = "drop" => op[p].place \in Drills
  PROVE  RestoreInv'
<1> DEFINE n == [op[p] EXCEPT !.pc = c]
<1>1. op[p] \in Operating /\ op[p].place \in Places /\ op \in Ops
  BY Here
<1>2. /\ n \in Operating /\ n.pc = c /\ n.place = op[p].place /\ n.backup = op[p].backup
      /\ n.stage = op[p].stage /\ op' = [op EXCEPT ![p] = n] /\ op'[p] = n
  BY <1>1 DEF Operating, Steps, Goto, Ops
<1>3. PICK x \in Places : op[p].place = x
  BY <1>1
<1>4. report' \in Reports /\ ReportInv(x)'
  BY DEF RestoreInv, TypeOK, Reports, ReportInv, Readable
<1>5. OpInv(p)
  BY DEF RestoreInv
<1>6. OpInv(p)'
  BY <1>2, <1>5 DEF OpInv, Running, Copied, Published, DrillSteps
<1>7. n # Idle
  BY <1>2 DEF Idle
<1>8. QED
  BY <1>2, <1>3, <1>4, <1>6, <1>7, QuietKeeps, OperatingIsOperation

(* A restore ends: with the report of a failure, or without one.            *)
LEMMA ReturnKeeps ==
  ASSUME RestoreInv, NEW p \in Operators, NEW x \in Places, op[p].place = x,
         Running(p), Return(p), report' \in Reports, faults' \in 0..MaxFaults,
         UNCHANGED <<manifest, disk, place, evidence, left>>,
         \A y \in Places \ {x} : report'[y] = report[y],
         report'[x] # report[x] =>
           report'[x].result = "fail" /\ report'[x].backup = op[p].backup
  PROVE  RestoreInv'
<1> DEFINE n == IF x \in Drills THEN [op[p] EXCEPT !.pc = "record"] ELSE Idle
<1>1. op[p] \in Operating /\ op \in Ops
  BY Here
<1>2. op' = [op EXCEPT ![p] = n] /\ op'[p] = n
  BY <1>1 DEF Return, Ops
<1>3. CASE x \in Drills
  <2>1. /\ n \in Operating /\ n.pc = "record" /\ n.place = x /\ n.backup = op[p].backup
        /\ n # Idle
    BY <1>1, <1>3 DEF Operating, Steps, Idle
  <2>2. OpInv(p)'
    BY <1>2, <1>3, <2>1 DEF RestoreInv, OpInv, Copied, Published, DrillSteps
  <2>3. ReportInv(x)' /\ EvidenceInv'
    BY DEF RestoreInv, ReportInv, EvidenceInv, Readable
  <2>4. evidence' \subseteq Evidence /\ x \notin Targets
    BY <1>3, RestoreAssumption DEF RestoreInv, TypeOK
  <2>5. QED
    BY <1>2, <2>1, <2>2, <2>3, <2>4, QuietKeeps, OperatingIsOperation
<1>4. CASE x \notin Drills
  <2>1. n = Idle
    BY <1>4
  <2>2. OpInv(p)'
    BY <1>2, <2>1 DEF OpInv, Running, Idle
  <2>3. ReportInv(x)' /\ EvidenceInv'
    BY DEF RestoreInv, ReportInv, EvidenceInv, Readable
  <2>4. evidence' \subseteq Evidence
    BY DEF RestoreInv, TypeOK
  <2>5. QED
    BY <1>2, <1>4, <2>1, <2>2, <2>3, <2>4, QuietKeeps, OperatingIsOperation
<1>5. QED
  BY <1>3, <1>4

LEMMA FailsKeeps ==
  ASSUME RestoreInv, NEW p \in Operators, Running(p), Fails(p),
         UNCHANGED <<manifest, disk, place, evidence, left>>, faults' \in 0..MaxFaults
  PROVE  RestoreInv'
<1>1. op[p] \in Operating /\ op[p].place \in Places
  BY Here
<1>2. PICK x \in Places : op[p].place = x
  BY <1>1
<1> DEFINE r == [backup |-> op[p].backup, raw |-> op[p].raw,
                 database |-> op[p].database, result |-> "fail"]
<1>3. r \in Report /\ r.result = "fail" /\ r.backup = op[p].backup
  BY <1>1 DEF Operating, Report, Results
<1>4. report \in Reports /\ report' = [report EXCEPT ![x] = r]
  BY <1>2 DEF Fails, RestoreInv, TypeOK, Reports
<1>5. report' \in Reports /\ report'[x] = r /\ \A y \in Places \ {x} : report'[y] = report[y]
  BY <1>3, <1>4 DEF Reports
<1>6. QED
  BY <1>2, <1>3, <1>5, ReturnKeeps DEF Fails

LEMMA SameReports ==
  ASSUME RestoreInv, UNCHANGED <<manifest, place, report, evidence>>, NEW x \in Places
  PROVE  /\ report' \in Reports /\ evidence' \subseteq Evidence
         /\ EvidenceInv' /\ ReportInv(x)'
<1>1. report' \in Reports /\ evidence' \subseteq Evidence
  BY DEF RestoreInv, TypeOK, Reports
<1>2. EvidenceInv' /\ ReportInv(x)'
  BY DEF RestoreInv, EvidenceInv, ReportInv, Readable
<1>3. QED
  BY <1>1, <1>2

LEMMA SameFaults == ASSUME RestoreInv, faults' = faults PROVE faults' \in 0..MaxFaults
BY DEF RestoreInv, TypeOK

LEMMA PreflightKeeps ==
  ASSUME RestoreInv, NEW p \in Operators, _preflight(p)
  PROVE  RestoreInv'
<1>1. Running(p) /\ faults' \in 0..MaxFaults
  BY SameFaults DEF _preflight, Running
<1>2. PICK x \in Places : op[p].place = x
  BY <1>1, Here
<1>3. /\ report' \in Reports /\ evidence' \subseteq Evidence /\ EvidenceInv'
  BY <1>2, SameReports DEF _preflight
<1>4. CASE Acceptable(op[p].backup, op[p].place)
  BY <1>1, <1>3, <1>4, GotoKeeps DEF _preflight, Acceptable
<1>5. CASE ~Acceptable(op[p].backup, op[p].place)
  <2>1. Return(p) /\ UNCHANGED <<manifest, disk, place, evidence, left>>
    BY <1>5 DEF _preflight
  <2>2. report'[x] = report[x] /\ \A y \in Places \ {x} : report'[y] = report[y]
    BY DEF _preflight
  <2>3. QED
    BY <1>1, <1>2, <1>3, <2>1, <2>2, ReturnKeeps
<1>6. QED
  BY <1>4, <1>5

LEMMA CopyKeeps ==
  ASSUME RestoreInv, NEW p \in Operators, CopyTree(p)
  PROVE  RestoreInv'
<1> DEFINE n == [op[p] EXCEPT !.stage = disk[op[p].backup].raw, !.pc = "compare"]
<1>1. Running(p) /\ op[p].pc = "copy" /\ faults' \in 0..MaxFaults
  BY SameFaults DEF CopyTree, Running
<1>2. op[p] \in Operating /\ op[p].backup \in Backups /\ op \in Ops
  BY <1>1, Here
<1>3. PICK x \in Places : op[p].place = x
  BY <1>1, Here
<1>4. /\ disk[op[p].backup].raw \in Tree
      /\ disk[op[p].backup].raw.records = manifest[op[p].backup].records
  BY <1>2 DEF RestoreInv, TypeOK, DiskInv
<1>5. /\ n \in Operating /\ n.pc = "compare" /\ n.place = x /\ n.backup = op[p].backup
      /\ n.stage = disk[op[p].backup].raw /\ n # Idle
      /\ op' = [op EXCEPT ![p] = n] /\ op'[p] = n
  BY <1>2, <1>3, <1>4 DEF Operating, Steps, Ops, Idle, CopyTree
<1>6. OpInv(p)'
  <2>1. OpInv(p)
    BY DEF RestoreInv
  <2>2. QED
    BY <1>1, <1>3, <1>4, <1>5, <2>1 DEF OpInv, Copied, Published, DrillSteps, CopyTree
<1>7. /\ report' \in Reports /\ evidence' \subseteq Evidence
      /\ EvidenceInv' /\ ReportInv(x)'
  BY SameReports DEF CopyTree
<1>8. UNCHANGED <<manifest, disk, place, report, left>>
  BY DEF CopyTree
<1>9. n \in Operation /\ n.pc # "fill"
  BY <1>5, OperatingIsOperation
<1> HIDE DEF n
<1>10. QED
  BY <1>1, <1>3, <1>5, <1>6, <1>7, <1>8, <1>9, QuietKeeps

LEMMA CompareKeeps ==
  ASSUME RestoreInv, NEW p \in Operators, _verify_restored_raw_tree(p)
  PROVE  RestoreInv'
<1>1. Running(p) /\ op[p].pc = "compare" /\ faults' \in 0..MaxFaults
  BY SameFaults DEF _verify_restored_raw_tree, Running
<1>2. PICK x \in Places : op[p].place = x
  BY <1>1, Here
<1>3. CASE Goto(p, "publish") /\ UNCHANGED report
  <2>1. evidence' \subseteq Evidence /\ EvidenceInv'
    BY <1>2, <1>3, SameReports DEF _verify_restored_raw_tree
  <2>2. op[p].place # Active
    BY <1>1 DEF RestoreInv, OpInv, Copied
  <2>3. QED
    BY <1>1, <1>3, <2>1, <2>2, GotoKeeps DEF _verify_restored_raw_tree
<1>4. CASE Fails(p)
  BY <1>1, <1>4, FailsKeeps DEF _verify_restored_raw_tree
<1>5. QED
  BY <1>3, <1>4 DEF _verify_restored_raw_tree

(* The restored unit passes: the Raw tree that was checked has the record   *)
(* of every row, and it is the backup's own.                                *)
LEMMA PassHolds ==
  ASSUME RestoreInv, NEW p \in Operators, op[p].pc = "verify",
         NEW x \in Places, op[p].place = x, NEW b \in Backups, op[p].backup = b,
         _verify_restored(b, x)
  PROVE  /\ manifest[b].rows \subseteq manifest[b].records
         /\ place[x].database = b /\ manifest[b].rows \subseteq Readable(x)
<1>1. /\ place[x].database = b /\ op[p].stage.records = manifest[b].records
      /\ op[p].stage # Bare => place[x].raw = op[p].stage
  BY DEF RestoreInv, OpInv, Running, Copied, Published
<1>2. manifest[b].rows \subseteq Readable(x)
  BY DEF _verify_restored, raw_valid, raw_integrity
<1>3. CASE op[p].stage # Bare
  BY <1>1, <1>2, <1>3 DEF Readable
<1>4. CASE op[p].stage = Bare
  <2>1. manifest[b].records = {}
    BY <1>1, <1>4, BareIsTree
  <2>2. manifest[b].rows = {}
    BY <2>1, NoRecordsNoRows DEF RestoreInv, TypeOK
  <2>3. QED
    BY <1>1, <1>2, <2>2
<1>5. QED
  BY <1>3, <1>4

LEMMA VerifyKeeps ==
  ASSUME RestoreInv, NEW p \in Operators, VerifyRestored(p)
  PROVE  RestoreInv'
<1>1. Running(p) /\ op[p].pc = "verify" /\ faults' \in 0..MaxFaults
  BY SameFaults DEF VerifyRestored, Running
<1>2. PICK x \in Places : op[p].place = x
  BY <1>1, Here
<1>3. PICK b \in Backups : op[p].backup = b
  BY <1>1, Here
<1> DEFINE result == IF _verify_restored(b, x) THEN "pass" ELSE "fail"
           n == IF x \in Drills THEN [op[p] EXCEPT !.result = result, !.pc = "record"]
                ELSE Idle
           r == [backup |-> b, raw |-> "pass", database |-> "pass", result |-> result]
<1>4. op[p] \in Operating /\ op \in Ops /\ report \in Reports /\ result \in Results
  BY <1>1, Here DEF RestoreInv, TypeOK, Reports, Results
<1>5. report' = [report EXCEPT ![x] = r] /\ op' = [op EXCEPT ![p] = n] /\ op'[p] = n
  BY <1>2, <1>3, <1>4 DEF VerifyRestored, Ops
<1>6. r \in Report /\ r.backup = b /\ r.result = result
  BY <1>4 DEF Report, Results
<1>7. /\ report' \in Reports /\ report'[x] = r
      /\ \A y \in Places \ {x} : report'[y] = report[y]
  BY <1>4, <1>5, <1>6 DEF Reports
<1>8. UNCHANGED <<manifest, disk, place, evidence, left>>
  BY DEF VerifyRestored
<1>9. evidence' \subseteq Evidence /\ EvidenceInv'
  BY <1>8 DEF RestoreInv, TypeOK, EvidenceInv
<1>10. ReportInv(x)'
  <2>1. CASE _verify_restored(b, x)
    <3>1. /\ manifest[b].rows \subseteq manifest[b].records
          /\ place[x].database = b /\ manifest[b].rows \subseteq Readable(x)
      BY <1>1, <1>2, <1>3, <2>1, PassHolds
    <3>2. QED
      BY <1>6, <1>7, <1>8, <3>1 DEF ReportInv, Readable
  <2>2. CASE ~_verify_restored(b, x)
    BY <1>6, <1>7, <2>2 DEF ReportInv
  <2>3. QED
    BY <2>1, <2>2
<1>11. CASE x \in Drills
  <2>1. /\ n \in Operating /\ n.pc = "record" /\ n.place = x /\ n.backup = b
        /\ n # Idle
    BY <1>2, <1>3, <1>4, <1>11 DEF Operating, Steps, Idle
  <2>2. OpInv(p)'
    BY <1>5, <1>6, <1>7, <1>11, <2>1 DEF OpInv, Copied, Published, DrillSteps
  <2>3. n \in Operation
    BY <2>1, OperatingIsOperation
  <2> HIDE DEF n, r, result
  <2>4. QED
    BY <1>1, <1>2, <1>5, <1>7, <1>8, <1>9, <1>10, <2>1, <2>2, <2>3, QuietKeeps
<1>12. CASE x \notin Drills
  <2>1. n = Idle /\ n \in Operation
    BY <1>12, OperatingIsOperation
  <2> HIDE DEF n, r, result
  <2>2. OpInv(p)'
    <3>1. op'[p] = Idle
      BY <1>5, <2>1
    <3>2. QED
      BY <3>1 DEF OpInv, Running, Idle
  <2>3. QED
    BY <1>1, <1>2, <1>5, <1>7, <1>8, <1>9, <1>10, <1>12, <2>1, <2>2, QuietKeeps
<1>13. QED
  BY <1>11, <1>12

(* The Raw tree and the database of the place.                              *)

LEMMA PlaceTyped ==
  ASSUME RestoreInv, NEW x \in Places
  PROVE  /\ place \in [Places -> Place] /\ place[x] \in Place
         /\ place[x].raw \in Tree /\ place[x].database \in Unfilled \cup Backups
BY DEF RestoreInv, TypeOK, Place

LEMMA PublishKeeps ==
  ASSUME RestoreInv, NEW p \in Operators, PublishRaw(p)
  PROVE  RestoreInv'
<1>1. Running(p) /\ op[p].pc = "publish" /\ faults' \in 0..MaxFaults
  BY SameFaults DEF PublishRaw, Running
<1>2. PICK x \in Places : op[p].place = x
  BY <1>1, Here
<1>3. CASE ~Vacant(x)
  BY <1>1, <1>2, <1>3, FailsKeeps DEF PublishRaw
<1>4. CASE Vacant(x)
  <2> DEFINE n == [op[p] EXCEPT !.raw = "pass", !.pc = "database"]
             stage == op[p].stage
  <2>1. op[p] \in Operating /\ op \in Ops /\ stage \in Tree
    BY <1>1, Here DEF Operating
  <2>2. /\ place' = [place EXCEPT ![x].raw = stage] /\ op' = [op EXCEPT ![p] = n]
        /\ UNCHANGED <<manifest, disk, report, evidence, left>>
    BY <1>2, <1>4 DEF PublishRaw
  <2>3. /\ n \in Operating /\ n.pc = "database" /\ n.place = x /\ n.backup = op[p].backup
        /\ n.stage = stage /\ n # Idle /\ op'[p] = n
    BY <1>2, <2>1, <2>2 DEF Operating, Steps, Results, Ops, Idle
  <2>4. /\ place' \in [Places -> Place] /\ place'[x].raw = stage
        /\ place'[x].database = place[x].database
        /\ \A y \in Places \ {x} : place'[y] = place[y]
    BY <2>1, <2>2, PlaceTyped DEF Place
  <2>5. op' \in Ops /\ \A q \in Operators \ {p} : op'[q] = op[q]
    BY <2>1, <2>2, <2>3, OperatingIsOperation DEF Ops
  <2>6. OpInv(p)'
    <3>1. OpInv(p)
      BY DEF RestoreInv
    <3>2. QED
      BY <1>1, <1>2, <2>2, <2>3, <2>4, <3>1 DEF OpInv, Running, Copied, Published, DrillSteps
  <2>7. Effect(p, x)
    <3>1. report \in Reports /\ evidence \subseteq Evidence
      BY DEF RestoreInv, TypeOK, Reports
    <3> HIDE DEF n, stage
    <3>2. Running(p)' => op'[p].place = x
      BY <2>3
    <3>3. /\ manifest' = manifest /\ disk' = disk
          /\ report' = report /\ evidence' = evidence /\ left' = left
      BY <2>2
    <3>4. /\ left \subseteq left' /\ left' \subseteq left \cup ({x} \cap Drills)
          /\ \A y \in Places \ {x} : report'[y] = report[y]
      BY <3>3
    <3>5. QED
      BY <1>1, <1>2, <2>4, <2>5, <3>1, <3>2, <3>3, <3>4 DEF Effect
  <2>8. x \in Targets => Additive(p, x)
    <3>1. x # Active
      BY <1>1, <1>2 DEF RestoreInv, OpInv, Copied
    <3>2. QED
      BY <1>4, <2>4, <3>1 DEF Additive, Vacant
  <2>9. ReportInv(x)'
    BY <1>4, <2>2, <2>4 DEF RestoreInv, ReportInv, Readable, Vacant, Bare
  <2>10. x \in Targets => UnmixedInv(x)'
    BY <1>4, <2>2, <2>4 DEF RestoreInv, UnmixedInv, Vacant, Bare
  <2>11. EvidenceInv'
    BY <2>2 DEF RestoreInv, EvidenceInv
  <2>12. Running(p)' /\ op'[p].pc # "fill"
    BY <2>3 DEF Running
  <2> HIDE DEF n, stage
  <2>13. QED
    BY <1>1, <2>6, <2>7, <2>8, <2>9, <2>10, <2>11, <2>12, StepKeeps
<1>5. QED
  BY <1>3, <1>4

(* A running operation changes its place and goes on.                       *)
LEMMA PlaceKeeps ==
  ASSUME RestoreInv, NEW p \in Operators, NEW x \in Places, Running(p), op[p].place = x,
         NEW n \in Operating, n.place = x, op' = [op EXCEPT ![p] = n],
         n.pc = "fill" => place[x].database = "empty",
         NEW v \in Place, place' = [place EXCEPT ![x] = v],
         UNCHANGED <<manifest, disk, report, evidence, left, faults>>,
         x \in Targets => Additive(p, x),
         OpInv(p)', ReportInv(x)', x \in Targets => UnmixedInv(x)'
  PROVE  RestoreInv'
<1>1. op \in Ops /\ place \in [Places -> Place] /\ n \in Operation /\ n.pc # "idle"
  BY Here, PlaceTyped, OperatingIsOperation DEF Operating, Steps
<1>2. /\ op' \in Ops /\ op'[p] = n /\ \A q \in Operators \ {p} : op'[q] = op[q]
      /\ place' \in [Places -> Place] /\ \A y \in Places \ {x} : place'[y] = place[y]
  BY <1>1 DEF Ops
<1>3. /\ manifest' = manifest /\ disk' = disk /\ report' = report
      /\ evidence' = evidence /\ left' = left /\ faults' = faults
  OBVIOUS
<1>4. /\ report' \in Reports /\ evidence' \subseteq Evidence /\ faults' \in 0..MaxFaults
      /\ EvidenceInv'
  BY <1>3 DEF RestoreInv, TypeOK, Reports, EvidenceInv
<1>5. Running(p)' /\ op'[p].place = x
  BY <1>1, <1>2 DEF Running
<1>6. Effect(p, x)
  BY <1>2, <1>3, <1>4, <1>5 DEF Effect
<1>7. op'[p].pc = "fill" => place[x].database = "empty"
  BY <1>2
<1>8. QED
  BY <1>4, <1>5, <1>6, <1>7, StepKeeps

LEMMA CreateTablesKeeps ==
  ASSUME RestoreInv, NEW p \in Operators, op[p].pc = "database", RestoreDatabase(p)
  PROVE  RestoreInv'
<1>1. Running(p) /\ faults' \in 0..MaxFaults
  BY SameFaults DEF RestoreDatabase, Running
<1>2. PICK x \in Places : op[p].place = x
  BY <1>1, Here
<1>3. CASE ~Creatable(x)
  BY <1>1, <1>2, <1>3, FailsKeeps DEF RestoreDatabase
<1>4. CASE Creatable(x)
  <2> DEFINE n == [op[p] EXCEPT !.pc = "fill"]
             v == [place[x] EXCEPT !.database = "partial"]
  <2>1. op[p] \in Operating /\ op \in Ops /\ place \in [Places -> Place] /\ place[x] \in Place
    BY <1>1, Here, PlaceTyped
  <2>2. /\ place' = [place EXCEPT ![x] = v] /\ op' = [op EXCEPT ![p] = n]
        /\ UNCHANGED <<manifest, disk, report, evidence, left, faults>>
    BY <1>2, <1>4 DEF RestoreDatabase, Goto
  <2>3. /\ n \in Operating /\ n.pc = "fill" /\ n.place = x /\ n.backup = op[p].backup
        /\ n.stage = op[p].stage /\ op'[p] = n
    BY <1>2, <2>1, <2>2 DEF Operating, Steps, Ops
  <2>4. /\ v \in Place /\ v.raw = place[x].raw /\ v.database = "partial" /\ place'[x] = v
        /\ place[x].database = "empty"
    BY <1>4, <2>1, <2>2 DEF Place, Unfilled, Creatable
  <2>5. OpInv(p)'
    <3>1. /\ x # Active /\ op[p].stage.records = manifest[op[p].backup].records
          /\ op[p].stage # Bare => place[x].raw = op[p].stage
          /\ x \in Drills /\ report[x] # NoReport => report[x].backup = op[p].backup
      BY <1>1, <1>2 DEF RestoreInv, OpInv, Copied, Published
    <3>2. manifest' = manifest /\ report' = report
      BY <2>2
    <3> HIDE DEF n, v
    <3>3. QED
      BY <2>3, <2>4, <3>1, <3>2 DEF OpInv, Copied, Published, DrillSteps
  <2>6. x \in Targets => Additive(p, x)
    <3>1. x # Active
      BY <1>1, <1>2 DEF RestoreInv, OpInv, Copied
    <3>2. QED
      BY <2>4, <3>1 DEF Additive
  <2>7. ReportInv(x)'
    <3>1. report[x].result = "pass" => report[x].backup \in Backups
      BY DEF RestoreInv, TypeOK, Report, NoReport
    <3>2. x \in Targets => report[x].result # "pass"
      BY <2>4, <3>1, BackupsAreNames DEF RestoreInv, ReportInv, Unfilled
    <3>3. QED
      BY <2>2, <3>2 DEF RestoreInv, ReportInv
  <2>8. x \in Targets => UnmixedInv(x)'
    BY <2>4, BackupsAreNames DEF UnmixedInv, Unfilled
  <2> HIDE DEF n, v
  <2>9. QED
    BY <1>1, <1>2, <2>2, <2>3, <2>4, <2>5, <2>6, <2>7, <2>8, PlaceKeeps
<1>5. QED
  BY <1>3, <1>4

LEMMA FillTablesKeeps ==
  ASSUME RestoreInv, NEW p \in Operators, op[p].pc = "fill", RestoreDatabase(p)
  PROVE  RestoreInv'
<1>1. Running(p) /\ faults' \in 0..MaxFaults
  BY SameFaults DEF RestoreDatabase, Running
<1>2. PICK x \in Places : op[p].place = x
  BY <1>1, Here
<1>3. PICK b \in Backups : op[p].backup = b
  BY <1>1, Here
<1>4. CASE ~dump_valid(b)
  BY <1>1, <1>3, <1>4, FailsKeeps DEF RestoreDatabase
<1>5. CASE dump_valid(b)
  <2> DEFINE n == [op[p] EXCEPT !.database = "pass", !.pc = "verify"]
             v == [place[x] EXCEPT !.database = b]
  <2>1. op[p] \in Operating /\ op \in Ops /\ place \in [Places -> Place] /\ place[x] \in Place
    BY <1>1, Here, PlaceTyped
  <2>2. /\ place' = [place EXCEPT ![x] = v] /\ op' = [op EXCEPT ![p] = n]
        /\ UNCHANGED <<manifest, disk, report, evidence, left, faults>>
    BY <1>2, <1>3, <1>5 DEF RestoreDatabase
  <2>3. /\ n \in Operating /\ n.pc = "verify" /\ n.place = x /\ n.backup = b
        /\ n.stage = op[p].stage /\ op'[p] = n
    BY <1>2, <1>3, <2>1, <2>2 DEF Operating, Steps, Results, Ops
  <2>4. v \in Place /\ v.raw = place[x].raw /\ v.database = b /\ place'[x] = v
    BY <2>1, <2>2 DEF Place
  <2>5. /\ x # Active /\ place[x].database = "partial"
        /\ op[p].stage.records = manifest[b].records
        /\ op[p].stage # Bare => place[x].raw = op[p].stage
    BY <1>1, <1>2, <1>3 DEF RestoreInv, OpInv, Copied, Published
  <2>6. OpInv(p)'
    <3>1. x \in Drills /\ report[x] # NoReport => report[x].backup = b
      BY <1>1, <1>2, <1>3 DEF RestoreInv, OpInv
    <3>2. manifest' = manifest /\ report' = report
      BY <2>2
    <3> HIDE DEF n, v
    <3>3. QED
      BY <2>3, <2>4, <2>5, <3>1, <3>2 DEF OpInv, Copied, Published, DrillSteps
  <2>7. x \in Targets => Additive(p, x)
    BY <2>4, <2>5 DEF Additive
  <2>8. ReportInv(x)'
    <3>1. report[x].result = "pass" => report[x].backup \in Backups
      BY DEF RestoreInv, TypeOK, Report, NoReport
    <3>2. x \in Targets => report[x].result # "pass"
      BY <2>5, <3>1, BackupsAreNames DEF RestoreInv, ReportInv, Unfilled
    <3>3. QED
      BY <2>2, <3>2 DEF RestoreInv, ReportInv
  <2>9. x \in Targets => UnmixedInv(x)'
    <3>1. manifest[b].records # {} => place[x].raw.records = manifest[b].records
      BY <2>5, BareIsTree
    <3>2. QED
      BY <2>2, <2>4, <3>1 DEF UnmixedInv
  <2> HIDE DEF n, v
  <2>10. QED
    BY <1>1, <1>2, <2>2, <2>3, <2>4, <2>6, <2>7, <2>8, <2>9, PlaceKeeps
<1>6. QED
  BY <1>4, <1>5

-----------------------------------------------------------------------------
(* Drills and faults *)

(* An operation stops where it is; a drill that stops is left behind.       *)
LEMMA StopKeeps ==
  ASSUME RestoreInv, NEW p \in Operators, NEW x \in Places, Running(p), op[p].place = x,
         op' = [op EXCEPT ![p] = Idle], left' = left \cup ({x} \cap Drills),
         UNCHANGED <<manifest, disk, place>>, report' = report,
         evidence' \subseteq Evidence, EvidenceInv', faults' \in 0..MaxFaults
  PROVE  RestoreInv'
<1>1. op \in Ops /\ Idle \in Operation /\ report' \in Reports
  BY Here, OperatingIsOperation DEF RestoreInv, TypeOK, Reports
<1>2. OpInv(p)'
  <2>1. op'[p] = Idle
    BY <1>1 DEF Ops
  <2>2. QED
    BY <2>1 DEF OpInv, Running, Idle
<1>3. ReportInv(x)'
  BY DEF RestoreInv, ReportInv, Readable
<1>4. /\ \A y \in Places \ {x} : report'[y] = report[y]
      /\ x \in Targets /\ report'[x].result = "pass" =>
           report'[x] = report[x] \/ op[p].pc = "verify"
      /\ left' \in {left, left \cup ({x} \cap Drills)}
      /\ x \in Drills => x \in left'
  OBVIOUS
<1>5. QED
  BY <1>1, <1>2, <1>3, <1>4, QuietKeeps

LEMMA FinallyKeeps ==
  ASSUME RestoreInv, NEW p \in Operators, op[p].pc = "record", Finally(p),
         UNCHANGED <<manifest, disk, place, report>>,
         evidence' \subseteq Evidence, EvidenceInv', faults' \in 0..MaxFaults
  PROVE  RestoreInv'
<1>1. Running(p)
  BY DEF Running
<1>2. PICK x \in Places : op[p].place = x
  BY <1>1, Here
<1>3. x \in Drills
  BY <1>1, <1>2 DEF RestoreInv, OpInv, DrillSteps
<1>4. UNCHANGED <<manifest, disk, place>> /\ report' = report
  OBVIOUS
<1>5. CASE Kept(p)
  <2>1. op' = [op EXCEPT ![p] = Idle] /\ left' = left \cup ({x} \cap Drills)
    BY <1>2, <1>3, <1>5 DEF Finally
  <2>2. QED
    BY <1>1, <1>2, <1>4, <2>1, StopKeeps
<1>6. CASE ~Kept(p)
  <2>1. Goto(p, "drop") /\ UNCHANGED <<manifest, disk, place, report, left>>
    BY <1>6 DEF Finally
  <2>2. QED
    BY <1>1, <1>2, <1>3, <2>1, GotoKeeps
<1>7. QED
  BY <1>5, <1>6

LEMMA RecordKeeps ==
  ASSUME RestoreInv, NEW p \in Operators, RecordDrill(p)
  PROVE  RestoreInv'
<1>1. Running(p) /\ op[p].pc = "record" /\ faults' \in 0..MaxFaults
  BY SameFaults DEF RecordDrill, Running
<1>2. PICK d \in Places : op[p].place = d
  BY <1>1, Here
<1>3. PICK b \in Backups : op[p].backup = b
  BY <1>1, Here
<1>4. d \in Drills /\ (report[d] # NoReport => report[d].backup = b)
  BY <1>1, <1>2, <1>3 DEF RestoreInv, OpInv, DrillSteps
<1> DEFINE e == [drill |-> d, backup |-> b, result |-> report[d].result]
<1>5. manifest' = manifest /\ evidence \subseteq Evidence
  BY DEF RecordDrill, RestoreInv, TypeOK
<1>6. CASE report[d] = NoReport
  <2>1. evidence' = evidence
    BY <1>2, <1>6 DEF RecordDrill
  <2>2. EvidenceInv'
    BY <1>5, <2>1 DEF RestoreInv, EvidenceInv
  <2>3. QED
    BY <1>1, <1>5, <2>1, <2>2, FinallyKeeps DEF RecordDrill
<1>7. CASE report[d] # NoReport
  <2>1. evidence' = evidence \cup {e}
    BY <1>2, <1>3, <1>7 DEF RecordDrill
  <2>2. e \in Evidence
    <3>1. report[d].result \in Results
      BY <1>7 DEF RestoreInv, TypeOK, Report
    <3>2. QED
      BY <1>4, <3>1 DEF Evidence
  <2>3. EvidenceInv'
    <3>1. report[d].result = "pass" => manifest[b].rows \subseteq manifest[b].records
      BY <1>4, <1>7 DEF RestoreInv, ReportInv
    <3>2. QED
      BY <1>5, <2>1, <3>1 DEF RestoreInv, EvidenceInv
  <2>4. evidence' \subseteq Evidence
    BY <1>5, <2>1, <2>2
  <2>5. QED
    BY <1>1, <2>3, <2>4, FinallyKeeps DEF RecordDrill
<1>8. QED
  BY <1>6, <1>7

LEMMA DatabaseKeeps ==
  ASSUME RestoreInv, NEW p \in Operators, CreateDatabase(p) \/ DropDatabase(p)
  PROVE  RestoreInv'
<1>1. Running(p)
  BY DEF CreateDatabase, DropDatabase, Running
<1>2. PICK x \in Places : op[p].place = x
  BY <1>1, Here
<1>3. x \in Drills /\ x \notin Targets
  BY <1>1, <1>2, RestoreAssumption
     DEF CreateDatabase, DropDatabase, RestoreInv, OpInv, DrillSteps
<1>4. PICK c \in {"preflight", "remove"}, state \in Unfilled :
        /\ Goto(p, c) /\ place' = [place EXCEPT ![x].database = state]
        /\ c = "remove" => state = "absent"
        /\ UNCHANGED <<manifest, disk, report, evidence, left, faults>>
  BY <1>2 DEF CreateDatabase, DropDatabase, Unfilled
<1> DEFINE n == [op[p] EXCEPT !.pc = c]
           v == [place[x] EXCEPT !.database = state]
<1>5. op[p] \in Operating /\ op \in Ops /\ place \in [Places -> Place] /\ place[x] \in Place
  BY <1>1, Here, PlaceTyped
<1>6. /\ n \in Operating /\ n.pc = c /\ n.place = x /\ n.backup = op[p].backup
      /\ op' = [op EXCEPT ![p] = n] /\ op'[p] = n
  BY <1>2, <1>4, <1>5 DEF Goto, Operating, Steps, Ops
<1>7. v \in Place /\ v.database = state /\ place' = [place EXCEPT ![x] = v] /\ place'[x] = v
  BY <1>4, <1>5 DEF Place
<1>8. manifest' = manifest /\ report' = report
  BY <1>4
<1>9. ReportInv(x)'
  BY <1>3, <1>8 DEF RestoreInv, ReportInv
<1>10. x \in Drills /\ report[x] # NoReport => report[x].backup = op[p].backup
  BY <1>1, <1>2 DEF RestoreInv, OpInv
<1> HIDE DEF n, v
<1>11. OpInv(p)'
  BY <1>3, <1>4, <1>6, <1>7, <1>8, <1>10 DEF OpInv, Copied, Published, DrillSteps
<1>12. n.pc # "fill" /\ UNCHANGED <<manifest, disk, report, evidence, left, faults>>
  BY <1>4, <1>6
<1>13. QED
  BY <1>1, <1>2, <1>3, <1>6, <1>7, <1>9, <1>11, <1>12, PlaceKeeps

LEMMA RemoveKeeps ==
  ASSUME RestoreInv, NEW p \in Operators, RemoveTree(p)
  PROVE  RestoreInv'
<1>1. Running(p) /\ op[p].pc = "remove" /\ faults' \in 0..MaxFaults
  BY SameFaults DEF RemoveTree, Running
<1>2. PICK d \in Places : op[p].place = d
  BY <1>1, Here
<1>3. d \in Drills /\ d \notin Targets /\ place[d].database = "absent"
  BY <1>1, <1>2, RestoreAssumption DEF RestoreInv, OpInv, DrillSteps
<1>4. op \in Ops /\ place \in [Places -> Place] /\ place[d] \in Place /\ report \in Reports
  BY <1>1, Here, PlaceTyped DEF RestoreInv, TypeOK, Reports
<1> DEFINE v == [place[d] EXCEPT !.raw = Bare]
<1>5. v = Cleared /\ v \in Place
  BY <1>3, <1>4, BareIsTree DEF Place, Cleared
<1>6. /\ place' = [place EXCEPT ![d] = v] /\ report' = [report EXCEPT ![d] = NoReport]
      /\ op' = [op EXCEPT ![p] = Idle]
      /\ manifest' = manifest /\ disk' = disk /\ evidence' = evidence /\ left' = left
  BY <1>2 DEF RemoveTree
<1>7. /\ op' \in Ops /\ op'[p] = Idle /\ \A q \in Operators \ {p} : op'[q] = op[q]
      /\ place' \in [Places -> Place] /\ place'[d] = v
      /\ \A y \in Places \ {d} : place'[y] = place[y]
      /\ report' \in Reports /\ report'[d] = NoReport
      /\ \A y \in Places \ {d} : report'[y] = report[y]
  BY <1>4, <1>5, <1>6, OperatingIsOperation DEF Ops, Reports
<1>8. ~Running(p)' /\ op'[p].pc # "fill"
  BY <1>7 DEF Running, Idle
<1>9. Effect(p, d)
  BY <1>1, <1>2, <1>3, <1>6, <1>7, <1>8 DEF Effect, RestoreInv, TypeOK
<1>10. OpInv(p)' /\ ReportInv(d)' /\ EvidenceInv'
  BY <1>6, <1>7, <1>8 DEF OpInv, ReportInv, NoReport, RestoreInv, EvidenceInv
<1>11. place'[d] = Cleared
  BY <1>5, <1>7
<1>12. QED
  BY <1>1, <1>3, <1>7, <1>8, <1>9, <1>10, <1>11, StepKeeps

LEMMA BeginKeeps ==
  ASSUME RestoreInv, NEW p \in Operators, NEW x \in Places, NEW b \in Backups,
         NEW c \in {"preflight", "create"}, NEW keep \in BOOLEAN,
         op[p] = Idle, Begin(p, c, b, x, keep),
         UNCHANGED <<manifest, disk, place, report, evidence, left, faults>>,
         c = "create" => x \in Drills,
         x \in Drills => \A q \in Operators : Running(q) => op[q].place # x,
         x \in Drills => report[x] = NoReport
  PROVE  RestoreInv'
<1> DEFINE n == [pc |-> c, backup |-> b, place |-> x, stage |-> Bare,
                 raw |-> "fail", database |-> "fail", result |-> "fail", keep |-> keep]
<1>1. /\ n \in Operating /\ n.pc = c /\ n.place = x
      /\ op' = [op EXCEPT ![p] = n]
  BY BareIsTree DEF Operating, Steps, Results, Begin
<1> HIDE DEF n
<1>2. op \in Ops /\ place \in [Places -> Place] /\ n \in Operation
  BY <1>1, PlaceTyped, OperatingIsOperation DEF RestoreInv, TypeOK, Ops
<1>3. op' \in Ops /\ op'[p] = n /\ \A q \in Operators \ {p} : op'[q] = op[q]
  BY <1>1, <1>2 DEF Ops
<1>4. /\ manifest' = manifest /\ disk' = disk /\ place' = place /\ report' = report
      /\ evidence' = evidence /\ left' = left /\ faults' = faults
  OBVIOUS
<1>5. /\ report' \in Reports /\ evidence' \subseteq Evidence /\ faults' \in 0..MaxFaults
      /\ EvidenceInv'
  BY <1>4 DEF RestoreInv, TypeOK, Reports, EvidenceInv
<1>6. ~Running(p) /\ Running(p)' /\ op'[p].place = x /\ op'[p].pc # "fill"
  BY <1>1, <1>3 DEF Running, Idle
<1>7. Effect(p, x)
  BY <1>2, <1>3, <1>4, <1>5, <1>6 DEF Effect
<1>8. /\ x \in Targets => Additive(p, x) /\ UnmixedInv(x)'
      /\ ReportInv(x)'
  <2>1. Additive(p, x)
    BY <1>4 DEF Additive
  <2>2. x \in Targets => UnmixedInv(x)'
    BY <1>4 DEF RestoreInv, UnmixedInv
  <2>3. ReportInv(x)'
    BY <1>4 DEF RestoreInv, ReportInv, Readable
  <2>4. QED
    BY <2>1, <2>2, <2>3
<1>9. OpInv(p)'
  BY <1>1, <1>3, <1>4 DEF OpInv, Copied, Published, DrillSteps
<1>10. QED
  BY <1>5, <1>6, <1>7, <1>8, <1>9, StepKeeps

LEMMA StartKeeps ==
  ASSUME RestoreInv, NEW p \in Operators, NEW b \in Backups, NEW x \in Places,
         NEW keep \in BOOLEAN,
         \/ x \in Targets /\ StartRestore(p, b, x)
         \/ x \in Drills /\ StartDrill(p, b, x, keep)
  PROVE  RestoreInv'
<1>1. CASE x \in Targets /\ StartRestore(p, b, x)
  BY <1>1, BeginKeeps, RestoreAssumption DEF StartRestore
<1>2. CASE x \in Drills /\ StartDrill(p, b, x, keep)
  <2>1. report[x] = NoReport
    BY <1>2 DEF StartDrill, RestoreInv, DrillsCleanUp
  <2>2. QED
    BY <1>2, <2>1, BeginKeeps DEF StartDrill
<1>3. QED
  BY <1>1, <1>2

LEMMA FaultKeeps ==
  ASSUME RestoreInv, NEW p \in Operators, StepFails(p) \/ Killed(p)
  PROVE  RestoreInv'
<1>1. Running(p) /\ faults' \in 0..MaxFaults
  BY FaultTyped DEF StepFails, Killed
<1>2. PICK x \in Places : op[p].place = x
  BY <1>1, Here
<1>3. /\ manifest' = manifest /\ disk' = disk /\ place' = place /\ evidence' = evidence
      /\ evidence' \subseteq Evidence /\ EvidenceInv'
  BY DEF StepFails, Killed, RestoreInv, TypeOK, EvidenceInv
<1>4. CASE Killed(p) \/ (StepFails(p) /\ op[p].pc \in {"drop", "remove"})
  <2>1. op[p].pc \in {"drop", "remove"} => x \in Drills
    BY <1>1, <1>2 DEF RestoreInv, OpInv, DrillSteps
  <2>2. op' = [op EXCEPT ![p] = Idle] /\ left' = left \cup ({x} \cap Drills)
    BY <1>2, <1>4, <2>1 DEF StepFails, Killed
  <2>3. UNCHANGED <<manifest, disk, place>> /\ report' = report
    BY <1>3, <1>4 DEF StepFails, Killed
  <2>4. QED
    BY <1>1, <1>2, <1>3, <2>2, <2>3, StopKeeps
<1>5. CASE StepFails(p) /\ op[p].pc = "record"
  <2>1. Finally(p) /\ UNCHANGED <<manifest, disk, place, report>>
    BY <1>3, <1>5 DEF StepFails
  <2>2. QED
    BY <1>1, <1>3, <1>5, <2>1, FinallyKeeps
<1>6. CASE StepFails(p) /\ op[p].pc \in {"create", "preflight"}
  <2>1. Return(p) /\ UNCHANGED <<manifest, disk, place, evidence, left>> /\ report' = report
    BY <1>3, <1>6 DEF StepFails
  <2>2. report' \in Reports
    BY <2>1 DEF RestoreInv, TypeOK, Reports
  <2>3. QED
    BY <1>1, <1>2, <2>1, <2>2, ReturnKeeps
<1>7. CASE /\ StepFails(p)
           /\ op[p].pc \in {"copy", "compare", "publish", "database", "fill", "verify"}
  <2>1. Fails(p) /\ UNCHANGED <<manifest, disk, place, evidence, left>>
    BY <1>3, <1>7 DEF StepFails
  <2>2. QED
    BY <1>1, <2>1, FailsKeeps
<1>8. QED
  BY <1>4, <1>5, <1>6, <1>7 DEF StepFails

(* A published backup rots: what is still listed does not change.           *)
LEMMA RotKeeps ==
  ASSUME RestoreInv, NEW b \in Backups, Rot(b)
  PROVE  RestoreInv'
<1>1. UNCHANGED <<manifest, place, op, report, evidence, left>> /\ faults' \in 0..MaxFaults
  BY FaultTyped DEF Rot
<1>2. disk \in [Backups -> [raw : Tree, parts : SUBSET Parts]]
  BY DEF RestoreInv, TypeOK
<1>3. /\ disk' \in [Backups -> [raw : Tree, parts : SUBSET Parts]]
      /\ \A c \in Backups : disk'[c].raw.records = disk[c].raw.records
  <2>1. CASE \E r \in disk[b].raw.records : disk' = [disk EXCEPT ![b].raw.bad = @ \cup {r}]
    <3>1. PICK r \in disk[b].raw.records :
            disk' = [disk EXCEPT ![b] =
              [disk[b] EXCEPT !.raw = [disk[b].raw EXCEPT !.bad = disk[b].raw.bad \cup {r}]]]
      BY <2>1
    <3> DEFINE tree == [disk[b].raw EXCEPT !.bad = disk[b].raw.bad \cup {r}]
               d == [disk[b] EXCEPT !.raw = tree]
    <3>2. disk[b].raw \in Tree /\ r \in Records
      BY <1>2 DEF Tree
    <3>3. tree \in Tree /\ tree.records = disk[b].raw.records
      BY <3>2 DEF Tree
    <3> HIDE DEF tree
    <3>4. d \in [raw : Tree, parts : SUBSET Parts] /\ d.raw = tree
      BY <1>2, <3>3
    <3> HIDE DEF d
    <3>5. disk' = [disk EXCEPT ![b] = d]
      BY <3>1 DEF d, tree
    <3>6. QED
      BY <1>2, <3>3, <3>4, <3>5
  <2>2. CASE \E part \in disk[b].parts : disk' = [disk EXCEPT ![b].parts = @ \ {part}]
    <3>1. PICK part \in disk[b].parts :
            disk' = [disk EXCEPT ![b] = [disk[b] EXCEPT !.parts = disk[b].parts \ {part}]]
      BY <2>2
    <3> DEFINE d == [disk[b] EXCEPT !.parts = disk[b].parts \ {part}]
    <3>2. d \in [raw : Tree, parts : SUBSET Parts] /\ d.raw = disk[b].raw
      BY <1>2
    <3> HIDE DEF d
    <3>3. disk' = [disk EXCEPT ![b] = d]
      BY <3>1 DEF d
    <3>4. QED
      BY <1>2, <3>2, <3>3
  <2>3. QED
    BY <2>1, <2>2 DEF Rot
<1>4. TypeOK' /\ DiskInv'
  BY <1>1, <1>3 DEF RestoreInv, TypeOK, DiskInv
<1>5. /\ Alone' /\ EvidenceInv' /\ DrillsCleanUp'
      /\ \A p \in Operators : OpInv(p)'
  BY <1>1 DEF RestoreInv, Alone, EvidenceInv, DrillsCleanUp, Running, OpInv
<1>6. /\ \A x \in Places : ReportInv(x)'
      /\ \A x \in Targets : UnmixedInv(x)'
  BY <1>1 DEF RestoreInv, ReportInv, UnmixedInv, Readable
<1>7. QED
  BY <1>4, <1>5, <1>6 DEF RestoreInv

LEMMA InitRestores == ASSUME Init PROVE RestoreInv
<1>1. PICK collected \in {{}, Records} :
        place = [x \in Places |->
                   CASE x = Active    -> [raw |-> Whole(collected), database |-> "partial"]
                     [] x \in Drills  -> Cleared
                     [] OTHER         -> [raw |-> Bare, database |-> "empty"]]
  BY DEF Init
<1>2. /\ Whole(collected) \in Tree /\ {"partial", "empty", "absent"} \subseteq Unfilled
      /\ Active \notin Drills
  BY RestoreAssumption DEF Whole, Tree, Unfilled
<1>3. ASSUME NEW x \in Places
      PROVE  /\ place[x] \in Place /\ place[x].database \in Unfilled
             /\ x \in Drills => place[x] = Cleared
  <2>1. CASE x = Active
    <3> DEFINE active == [raw |-> Whole(collected), database |-> "partial"]
    <3>1. place[x] = active
      BY <1>1, <1>2, <2>1
    <3>2. active \in Place /\ active.database \in Unfilled
      BY <1>2 DEF Place
    <3> HIDE DEF active
    <3>3. QED
      BY <1>2, <2>1, <3>1, <3>2
  <2>2. CASE x # Active /\ x \in Drills
    <3>1. place[x] = Cleared
      BY <1>1, <2>2
    <3>2. QED
      BY <1>2, <3>1, BareIsTree DEF Place, Cleared
  <2>3. CASE x # Active /\ x \notin Drills
    <3>1. place[x] = [raw |-> Bare, database |-> "empty"]
      BY <1>1, <2>3
    <3>2. QED
      BY <1>2, <2>3, <3>1, BareIsTree DEF Place
  <2>4. QED
    BY <2>1, <2>2, <2>3
<1>4. place \in [Places -> Place]
  BY <1>1, <1>3
<1>5. ASSUME NEW b \in Backups
      PROVE  Whole(manifest[b].records) \in Tree /\ disk[b].raw.records = manifest[b].records
  <2>1. manifest[b] \in Manifest
    BY RestoreAssumption DEF Init
  <2>2. QED
    BY <2>1 DEF Init, Whole, Tree, Manifest
<1>6. disk \in [Backups -> [raw : Tree, parts : SUBSET Parts]] /\ DiskInv
  BY <1>5 DEF Init, DiskInv
<1>7. TypeOK
  BY <1>4, <1>6, OperatingIsOperation, RestoreAssumption DEF Init, TypeOK, Place
<1>8. \A p \in Operators : ~Running(p)
  BY DEF Init, Running, Idle
<1>9. Alone /\ EvidenceInv /\ \A p \in Operators : OpInv(p)
  BY <1>8 DEF Init, Alone, EvidenceInv, OpInv
<1>10. /\ \A x \in Places : report[x] = NoReport /\ ReportInv(x)
  BY DEF Init, ReportInv, NoReport
<1>11. DrillsCleanUp
  BY <1>3, <1>10 DEF DrillsCleanUp, Places
<1>12. \A x \in Targets : UnmixedInv(x)
  BY <1>3, BackupsAreNames DEF UnmixedInv, Places
<1>13. QED
  BY <1>6, <1>7, <1>9, <1>10, <1>11, <1>12 DEF RestoreInv

-----------------------------------------------------------------------------
(* The theorems *)

LEMMA NextRestores == ASSUME RestoreInv, [Next]_vars PROVE RestoreInv'
<1>1. CASE UNCHANGED vars
  BY <1>1 DEF vars, RestoreInv, TypeOK, DiskInv, Alone, EvidenceInv, DrillsCleanUp, OpInv,
     ReportInv, UnmixedInv, Readable, Running
<1>2. ASSUME NEW p \in Operators, restore(p) \/ Drill(p) \/ StepFails(p) \/ Killed(p)
      PROVE  RestoreInv'
  <2>1. RestoreDatabase(p) => op[p].pc \in {"database", "fill"}
    BY DEF RestoreDatabase
  <2>2. QED
    BY <1>2, <2>1, PreflightKeeps, CopyKeeps, CompareKeeps, PublishKeeps, CreateTablesKeeps,
       FillTablesKeeps, VerifyKeeps, DatabaseKeeps, RecordKeeps, RemoveKeeps, FaultKeeps
       DEF restore, Drill
<1>3. ASSUME NEW p \in Operators, NEW b \in Backups, NEW x \in Targets, StartRestore(p, b, x)
      PROVE  RestoreInv'
  BY <1>3, StartKeeps DEF Places
<1>4. ASSUME NEW p \in Operators, NEW b \in Backups, NEW d \in Drills, NEW keep \in BOOLEAN,
             StartDrill(p, b, d, keep)
      PROVE  RestoreInv'
  BY <1>4, StartKeeps DEF Places
<1>5. QED
  BY <1>1, <1>2, <1>3, <1>4, RotKeeps DEF Next

LEMMA RestoreAlways == Spec => []RestoreInv
BY InitRestores, NextRestores, PTL DEF Spec

(* Targets, operations, reports and evidence have their types.              *)
THEOREM TypeCorrect == Spec => []TypeOK
<1>1. RestoreInv => TypeOK
  BY DEF RestoreInv
<1>2. QED
  BY <1>1, RestoreAlways, PTL

(* A passing report proves what it says, for any number of operators at one *)
(* target, any backups and any faults.                                      *)
THEOREM PassProves == Spec => []PassIsProof
<1>1. RestoreInv => PassIsProof
  BY DEF RestoreInv, ReportInv, EvidenceInv, PassIsProof, Places
<1>2. QED
  BY <1>1, RestoreAlways, PTL

(* No target mixes two backups.                                             *)
THEOREM Unmixed == Spec => []NeverMixed
<1>1. RestoreInv => NeverMixed
  BY DEF RestoreInv, UnmixedInv, NeverMixed
<1>2. QED
  BY <1>1, RestoreAlways, PTL

(* A drill that ended by itself left nothing behind.                        *)
THEOREM DrillsAreClean == Spec => []DrillsCleanUp
<1>1. RestoreInv => DrillsCleanUp
  BY DEF RestoreInv
<1>2. QED
  BY <1>1, RestoreAlways, PTL

(* What a step does to a target x.                                          *)
Adds(x) ==
  /\ place[x].raw # Bare => place'[x].raw = place[x].raw
  /\ place[x].database \in Backups => place'[x].database = place[x].database
  /\ x = Active => place'[x] = place[x]

LEMMA PublishAdds ==
  ASSUME RestoreInv, NEW p \in Operators, PublishRaw(p), NEW x \in Targets
  PROVE  Adds(x)
<1>1. Running(p) /\ op[p].pc = "publish" /\ op[p].place # Active
  BY DEF PublishRaw, Running, RestoreInv, OpInv, Copied
<1>2. PICK y \in Places : op[p].place = y
  BY <1>1, Here
<1>3. x \in Places /\ place \in [Places -> Place] /\ place[x] \in Place /\ place[y] \in Place
  BY <1>2, PlaceTyped DEF Places
<1>4. CASE Vacant(y)
  <2>1. place' = [place EXCEPT ![y].raw = op[p].stage] /\ place[y].raw = Bare
    BY <1>2, <1>4 DEF PublishRaw, Vacant
  <2>2. QED
    BY <1>1, <1>2, <1>3, <2>1 DEF Adds, Place
<1>5. CASE ~Vacant(y)
  BY <1>2, <1>5 DEF PublishRaw, Adds
<1>6. QED
  BY <1>4, <1>5

LEMMA DatabaseAdds ==
  ASSUME RestoreInv, NEW p \in Operators, RestoreDatabase(p), NEW x \in Targets
  PROVE  Adds(x)
<1>1. /\ Running(p) /\ op[p].pc \in {"database", "fill"} /\ op[p].place # Active
      /\ op[p].pc = "fill" => place[op[p].place].database = "partial"
  BY DEF RestoreDatabase, Running, RestoreInv, OpInv, Copied
<1>2. PICK y \in Places : op[p].place = y
  BY <1>1, Here
<1>3. x \in Places /\ place \in [Places -> Place] /\ place[x] \in Place /\ place[y] \in Place
  BY <1>2, PlaceTyped DEF Places
<1>4. CASE place' = place
  BY <1>4 DEF Adds
<1>5. CASE \E state \in Unfilled \cup Backups :
             /\ place' = [place EXCEPT ![y].database = state]
             /\ place[y].database \in Unfilled
  <2>1. PICK state \in Unfilled \cup Backups :
          /\ place' = [place EXCEPT ![y].database = state]
          /\ place[y].database \in Unfilled
    BY <1>5
  <2>2. QED
    BY <1>1, <1>2, <1>3, <2>1, BackupsAreNames DEF Adds, Place
<1>6. place' # place => \E state \in Unfilled \cup Backups :
             /\ place' = [place EXCEPT ![y].database = state]
             /\ place[y].database \in Unfilled
  <2>1. op[p].backup \in Backups /\ "partial" \in Unfilled /\ "empty" \in Unfilled
    BY <1>1, Here DEF Unfilled
  <2>2. CASE op[p].pc = "database"
    BY <1>2, <2>1, <2>2 DEF RestoreDatabase, Creatable
  <2>3. CASE op[p].pc = "fill"
    BY <1>1, <1>2, <2>1, <2>3 DEF RestoreDatabase
  <2>4. QED
    BY <1>1, <2>2, <2>3
<1>7. QED
  BY <1>4, <1>5, <1>6

LEMMA DrillAdds ==
  ASSUME RestoreInv, NEW p \in Operators,
         CreateDatabase(p) \/ DropDatabase(p) \/ RemoveTree(p), NEW x \in Targets
  PROVE  Adds(x)
<1>1. Running(p) /\ op[p].pc \in DrillSteps
  BY DEF CreateDatabase, DropDatabase, RemoveTree, Running, DrillSteps
<1>2. op[p].place \in Drills
  BY <1>1 DEF RestoreInv, OpInv
<1>3. x # op[p].place /\ x \in Places /\ place \in [Places -> Place]
  BY <1>2, RestoreAssumption, PlaceTyped DEF Places
<1>4. place'[x] = place[x]
  BY <1>3 DEF CreateDatabase, DropDatabase, RemoveTree
<1>5. QED
  BY <1>4 DEF Adds

LEMMA NextAdds ==
  ASSUME RestoreInv, [Next]_vars, NEW x \in Targets
  PROVE  Adds(x)
<1>1. CASE place' = place
  BY <1>1 DEF Adds
<1>2. ASSUME NEW p \in Operators, restore(p) \/ Drill(p)
      PROVE  Adds(x)
  <2>1. _preflight(p) \/ CopyTree(p) \/ _verify_restored_raw_tree(p) \/ VerifyRestored(p)
          \/ RecordDrill(p) => place' = place
    BY DEF _preflight, CopyTree, _verify_restored_raw_tree, VerifyRestored, RecordDrill
  <2>2. QED
    BY <1>1, <1>2, <2>1, PublishAdds, DatabaseAdds, DrillAdds DEF restore, Drill
<1>3. ASSUME NEW p \in Operators, StepFails(p) \/ Killed(p)
      PROVE  place' = place
  BY <1>3 DEF StepFails, Killed
<1>4. QED
  BY <1>1, <1>2, <1>3 DEF Next, StartRestore, StartDrill, Rot, vars

(* No restore, drill or fault overwrites a Raw tree or a database that is   *)
(* there, and the active store is never touched.                            *)
THEOREM NeverOverwrites == Spec => NothingOverwritten
<1>1. RestoreInv /\ [Next]_vars =>
        [/\ place'[Active] = place[Active]
         /\ \A x \in Targets :
              /\ place[x].raw # Bare => place'[x].raw = place[x].raw
              /\ place[x].database \in Backups => place'[x].database = place[x].database]_vars
  BY NextAdds, RestoreAssumption DEF Adds
<1>2. QED
  BY <1>1, RestoreAlways, PTL DEF Spec, NothingOverwritten
=============================================================================
