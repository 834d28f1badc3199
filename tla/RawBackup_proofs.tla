------------------------- MODULE RawBackup_proofs --------------------------
(***************************************************************************)
(* Theorems about the Raw store and its backup, for any observations,      *)
(* processes and bounds.                                                   *)
(***************************************************************************)
EXTENDS RawBackup, FiniteSetTheorems, TLAPS

-----------------------------------------------------------------------------
(* The inductive invariant of the store *)

(* What a writer relies on: it owns a temporary directory, which is as far *)
(* as its step says, or the record that it goes on with is published.      *)
Sound(w) ==
  /\ writer[w].pc \in Building =>
       writer[w].name \in Temporaries /\ exists(writer[w].name)
  /\ writer[w].pc \in {"metadata", "closing"} => dirs[writer[w].name].payload = "whole"
  /\ writer[w].pc = "rename" => dirs[writer[w].name] = Whole
  /\ writer[w].pc \in {"verify", "row"} => exists(writer[w].key)

(* No two writers build in the same directory. *)
Apart ==
  \A v, w \in Writers :
    v # w /\ writer[v].pc \in Building /\ writer[w].pc \in Building
      => writer[v].name # writer[w].name

StoreInv ==
  /\ StoreTypeOK
  /\ \A w \in Writers : Sound(w)
  /\ Apart
  /\ PublishedWhole
  /\ RowsHaveRaw

(* Published records stay as they are. *)
Kept == \A k \in Keys : exists(k) => dirs'[k] = dirs[k]

LEMMA KeysAreNames ==
  /\ Keys \subseteq Names /\ Temporaries \subseteq Names
  /\ \A k \in Keys : k \notin Temporaries
BY StoreAssumption DEF Names

LEMMA WriterShape ==
  ASSUME NEW x \in Writer
  PROVE  /\ x.pc \in Building => /\ x.key \in Keys /\ x.name \in Names
                                 /\ x = [pc |-> x.pc, key |-> x.key, name |-> x.name]
         /\ x.pc \in {"verify", "row"} => /\ x.key \in Keys
                                          /\ x = [pc |-> x.pc, key |-> x.key]
         /\ x.pc = "idle" <=> x = Idle
         /\ x.pc \in Building \cup {"verify", "row", "idle"}
BY DEF Writer, Idle, Building

LEMMA FaultTyped ==
  ASSUME faults \in 0..MaxFaults, NEW kind, Fault(kind)
  PROVE  faults' \in 0..MaxFaults
BY StoreAssumption DEF Fault

(* A writer that does nothing stays sound while its directory and the      *)
(* published records are left alone.                                       *)
LEMMA OthersSound ==
  ASSUME StoreTypeOK, NEW v \in Writers, Sound(v), writer'[v] = writer[v], Kept,
         writer[v].pc \in Building => dirs'[writer[v].name] = dirs[writer[v].name]
  PROVE  Sound(v)'
<1>1. writer[v] \in Writer
  BY DEF StoreTypeOK
<1>2. writer[v].pc \in {"verify", "row"} => writer[v].key \in Keys
  BY <1>1, WriterShape
<1>3. {"metadata", "closing", "rename"} \subseteq Building
  BY DEF Building
<1>4. QED
  BY <1>2, <1>3 DEF Sound, Kept, exists

(* A step of writer w keeps the store's invariant if it leaves the         *)
(* directories of the others alone, leaves w sound, and does not add an    *)
(* incomplete record or an unfounded row.                                  *)
LEMMA WriterStep ==
  ASSUME StoreInv, NEW w \in Writers, NEW x \in Writer,
         writer' = [writer EXCEPT ![w] = x],
         dirs' \in [Names -> Directory \cup {NoDirectory}],
         Kept, Sound(w)', PublishedWhole',
         rows' \subseteq Keys, \A k \in rows' : exists(k)',
         faults' \in 0..MaxFaults,
         \A v \in Writers \ {w} : writer[v].pc \in Building =>
           /\ dirs'[writer[v].name] = dirs[writer[v].name]
           /\ x.pc \in Building => x.name # writer[v].name
  PROVE  StoreInv'
<1>1. writer \in [Writers -> Writer] /\ StoreTypeOK
  BY DEF StoreInv, StoreTypeOK
<1>2. writer' \in [Writers -> Writer] /\ writer'[w] = x
  BY <1>1
<1>3. \A v \in Writers \ {w} : writer'[v] = writer[v]
  BY <1>1
<1>4. StoreTypeOK'
  BY <1>2 DEF StoreTypeOK
<1>5. ASSUME NEW v \in Writers PROVE Sound(v)'
  <2>1. CASE v = w
    BY <2>1
  <2>2. CASE v # w
    BY <2>2, <1>1, <1>3, OthersSound DEF StoreInv
  <2>3. QED
    BY <2>1, <2>2
<1>6. Apart'
  BY <1>2, <1>3 DEF StoreInv, Apart
<1>7. RowsHaveRaw'
  BY DEF PublishedWhole, RowsHaveRaw, Readable
<1>8. QED
  BY <1>4, <1>5, <1>6, <1>7 DEF StoreInv

-----------------------------------------------------------------------------
(* The store's invariant is kept by every step of a writer *)

LEMMA FindExistingStep ==
  ASSUME StoreInv, NEW w \in Writers, NEW k \in Keys, FindExisting(w, k)
  PROVE  StoreInv' /\ Kept
<1> DEFINE x == [pc |-> "verify", key |-> k]
<1>1. x \in Writer /\ writer' = [writer EXCEPT ![w] = x]
  BY DEF FindExisting, Writer
<1>2. UNCHANGED <<dirs, rows, faults>> /\ exists(k)
  BY DEF FindExisting
<1>3. writer'[w] = x
  BY <1>1 DEF StoreInv, StoreTypeOK
<1>4. Sound(w)'
  BY <1>2, <1>3 DEF Sound, Building, exists
<1>5. x.pc \notin Building /\ Kept
  BY <1>2 DEF Building, Kept
<1>6. PublishedWhole' /\ \A n \in rows' : exists(n)'
  BY <1>2 DEF StoreInv, PublishedWhole, RowsHaveRaw, Readable, exists
<1>7. QED
  BY <1>1, <1>2, <1>4, <1>5, <1>6, WriterStep DEF StoreInv, StoreTypeOK

LEMMA MakeTemporaryStep ==
  ASSUME StoreInv, NEW w \in Writers, NEW k \in Keys, NEW used,
         MakeTemporary(w, k, used)
  PROVE  StoreInv' /\ Kept
<1> DEFINE free == BuildPlace(k, used)
<1> DEFINE t == CHOOSE n \in free : TRUE
<1> DEFINE x == [pc |-> "payload", key |-> k, name |-> t]
<1>1. t \in free
  BY DEF MakeTemporary
<1>2. t \in Temporaries /\ ~ exists(t)
  BY <1>1 DEF BuildPlace
<1>3. /\ dirs' = [dirs EXCEPT ![t] = Empty]
      /\ writer' = [writer EXCEPT ![w] = x]
      /\ UNCHANGED <<rows, faults>>
  BY DEF MakeTemporary
<1> HIDE DEF t
<1>4. x \in Writer /\ Empty \in Directory
  BY <1>2, KeysAreNames DEF Writer, Building, Directory, FileStates, Empty
<1>5. dirs' \in [Names -> Directory \cup {NoDirectory}] /\ dirs'[t] = Empty
  BY <1>2, <1>3, <1>4, KeysAreNames DEF StoreInv, StoreTypeOK
<1>6. \A n \in Names : n # t => dirs'[n] = dirs[n]
  BY <1>3 DEF StoreInv, StoreTypeOK
<1>7. Kept /\ \A n \in Keys : dirs'[n] = dirs[n]
  BY <1>2, <1>6, KeysAreNames DEF Kept
<1>8. writer'[w] = x
  BY <1>3 DEF StoreInv, StoreTypeOK
<1>9. Sound(w)'
  <2>1. Empty # NoDirectory
    BY <1>4, StoreAssumption
  <2>2. QED
    BY <1>2, <1>5, <1>8, <2>1 DEF Sound, Building, exists
<1>10. PublishedWhole' /\ \A n \in rows' : exists(n)'
  BY <1>3, <1>7 DEF StoreInv, StoreTypeOK, PublishedWhole, RowsHaveRaw, Readable, exists
<1>11. ASSUME NEW v \in Writers \ {w}, writer[v].pc \in Building
       PROVE  dirs'[writer[v].name] = dirs[writer[v].name] /\ t # writer[v].name
  BY <1>2, <1>6, <1>11, KeysAreNames DEF StoreInv, Sound
<1>12. QED
  BY <1>3, <1>4, <1>5, <1>7, <1>9, <1>10, <1>11, WriterStep DEF StoreInv, StoreTypeOK

(* A writer changes the content of the directory that it builds. *)
LEMMA BuildStep ==
  ASSUME StoreInv, NEW w \in Writers, NEW d \in Directory, NEW pc \in Building,
         writer[w].pc \in Building, Goto(w, pc),
         dirs' = [dirs EXCEPT ![writer[w].name] = d],
         pc \in {"metadata", "closing"} => d.payload = "whole",
         pc = "rename" => d = Whole,
         UNCHANGED <<rows, faults>>
  PROVE  StoreInv' /\ Kept
<1> DEFINE t == writer[w].name
           x == [pc |-> pc, key |-> writer[w].key, name |-> t]
<1>1. /\ t \in Temporaries /\ exists(t)
      /\ writer[w].key \in Keys
      /\ writer[w] = [pc |-> writer[w].pc, key |-> writer[w].key, name |-> t]
  BY WriterShape DEF StoreInv, StoreTypeOK, Sound
<1>2. x \in Writer
  BY <1>1, KeysAreNames DEF Writer
<1>3. writer' = [writer EXCEPT ![w] = x]
  <2>1. [writer[w] EXCEPT !.pc = pc] = x
    BY <1>1
  <2>2. QED
    BY <2>1 DEF Goto
<1>4. dirs' \in [Names -> Directory \cup {NoDirectory}] /\ dirs'[t] = d
  BY <1>1, KeysAreNames DEF StoreInv, StoreTypeOK
<1>5. \A n \in Names : n # t => dirs'[n] = dirs[n]
  BY DEF StoreInv, StoreTypeOK
<1>6. Kept /\ \A n \in Keys : dirs'[n] = dirs[n]
  BY <1>1, <1>5, KeysAreNames DEF Kept
<1>7. writer'[w] = x
  BY <1>3 DEF StoreInv, StoreTypeOK
<1>8. Sound(w)'
  <2>1. d # NoDirectory
    BY StoreAssumption
  <2>2. QED
    BY <1>1, <1>4, <1>7, <2>1 DEF Sound, Building, exists
<1>9. PublishedWhole' /\ \A n \in rows' : exists(n)'
  BY <1>6 DEF StoreInv, StoreTypeOK, PublishedWhole, RowsHaveRaw, Readable, exists
<1>10. ASSUME NEW v \in Writers \ {w}, writer[v].pc \in Building
       PROVE  dirs'[writer[v].name] = dirs[writer[v].name] /\ t # writer[v].name
  BY <1>5, <1>10, KeysAreNames DEF StoreInv, Sound, Apart
<1>11. QED
  BY <1>2, <1>3, <1>4, <1>6, <1>8, <1>9, <1>10, WriterStep DEF StoreInv, StoreTypeOK

LEMMA WritePayloadStep ==
  ASSUME StoreInv, NEW w \in Writers, WritePayload(w)
  PROVE  StoreInv' /\ Kept
<1> DEFINE t == writer[w].name
           d == [dirs[t] EXCEPT !.payload = "whole"]
<1>1. writer[w].pc \in Building /\ "metadata" \in Building
  BY DEF WritePayload, Building
<1>2. dirs[t] \in Directory
  BY <1>1, KeysAreNames DEF StoreInv, StoreTypeOK, Sound, exists
<1>3. d \in Directory /\ d.payload = "whole"
  BY <1>2 DEF Directory, FileStates
<1>4. dirs' = [dirs EXCEPT ![t] = d]
  BY DEF WritePayload
<1>5. QED
  BY <1>1, <1>3, <1>4, BuildStep DEF WritePayload

LEMMA WriteMetadataStep ==
  ASSUME StoreInv, NEW w \in Writers, WriteMetadata(w)
  PROVE  StoreInv' /\ Kept
<1> DEFINE t == writer[w].name
<1>1. /\ writer[w].pc \in {"metadata", "closing"}
      /\ {"metadata", "closing", "rename"} \subseteq Building
  BY DEF WriteMetadata, Building
<1>2. dirs[t] \in Directory /\ dirs[t].payload = "whole"
  BY <1>1, KeysAreNames DEF StoreInv, StoreTypeOK, Sound, exists
<1>3. CASE writer[w].pc = "metadata"
  <2> DEFINE d == [dirs[t] EXCEPT !.metadata = "torn"]
  <2>1. d \in Directory /\ d.payload = "whole"
    BY <1>2 DEF Directory, FileStates
  <2>2. dirs' = [dirs EXCEPT ![t] = d]
    BY <1>3 DEF WriteMetadata
  <2>3. QED
    BY <1>1, <1>3, <2>1, <2>2, BuildStep DEF WriteMetadata
<1>4. CASE writer[w].pc = "closing"
  <2> DEFINE d == [dirs[t] EXCEPT !.metadata = "whole"]
  <2>1. d \in Directory /\ d = Whole
    BY <1>2 DEF Directory, FileStates, Whole
  <2>2. dirs' = [dirs EXCEPT ![t] = d]
    BY <1>4 DEF WriteMetadata
  <2>3. QED
    BY <1>1, <1>4, <2>1, <2>2, BuildStep DEF WriteMetadata
<1>5. QED
  BY <1>1, <1>3, <1>4

LEMMA PublishStep ==
  ASSUME StoreInv, NEW w \in Writers, Publish(w)
  PROVE  StoreInv' /\ Kept
<1> DEFINE k == writer[w].key
           t == writer[w].name
           x == Published(w)
<1>1. writer[w].pc = "rename" /\ writer[w].pc \in Building
  BY DEF Publish, Building
<1>2. k \in Keys /\ t \in Temporaries /\ dirs[t] = Whole
  BY <1>1, WriterShape DEF StoreInv, StoreTypeOK, Sound
<1>3. /\ dirs' = [dirs EXCEPT ![k] = Whole, ![t] = NoDirectory]
      /\ writer' = [writer EXCEPT ![w] = x]
      /\ UNCHANGED <<rows, faults>> /\ ~ exists(k)
  BY <1>2 DEF Publish
<1>4. x \in Writer /\ x = [pc |-> "verify", key |-> k] /\ Whole \in Directory
  BY <1>2 DEF Writer, Published, Directory, FileStates, Whole
<1>5. /\ dirs' \in [Names -> Directory \cup {NoDirectory}]
      /\ \A n \in Names \ {k, t} : dirs'[n] = dirs[n]
      /\ dirs'[k] = Whole
  BY <1>2, <1>3, <1>4, KeysAreNames DEF StoreInv, StoreTypeOK
<1>6. Kept
  BY <1>2, <1>3, <1>5, KeysAreNames DEF Kept
<1>7. \A n \in Keys : dirs'[n] = Whole \/ dirs'[n] = dirs[n]
  BY <1>2, <1>5, KeysAreNames
<1>8. writer'[w] = x /\ Whole # NoDirectory
  BY <1>3, <1>4, StoreAssumption DEF StoreInv, StoreTypeOK
<1>9. Sound(w)'
  BY <1>4, <1>5, <1>8 DEF Sound, Building, exists
<1>10. PublishedWhole'
  BY <1>7 DEF StoreInv, PublishedWhole, exists
<1>11. \A n \in rows' : exists(n)'
  BY <1>3, <1>7, <1>8 DEF StoreInv, StoreTypeOK, RowsHaveRaw, Readable, exists
<1>12. ASSUME NEW v \in Writers \ {w}, writer[v].pc \in Building
       PROVE  dirs'[writer[v].name] = dirs[writer[v].name]
  BY <1>1, <1>2, <1>5, <1>12, KeysAreNames DEF StoreInv, Sound, Apart
<1>13. x.pc \notin Building
  BY <1>4 DEF Building
<1>14. QED
  BY <1>3, <1>4, <1>5, <1>6, <1>9, <1>10, <1>11, <1>12, <1>13, WriterStep
     DEF StoreInv, StoreTypeOK

(* A writer that builds gives up its directory and goes on as x. *)
LEMMA DiscardStep ==
  ASSUME StoreInv, NEW w \in Writers, NEW x \in Writer,
         writer[w].pc \in Building, x.pc \notin Building,
         x.pc \in {"verify", "row"} => exists(x.key),
         writer' = [writer EXCEPT ![w] = x],
         dirs' = [dirs EXCEPT ![writer[w].name] = NoDirectory],
         UNCHANGED rows, faults' \in 0..MaxFaults
  PROVE  StoreInv' /\ Kept
<1> DEFINE t == writer[w].name
<1>1. t \in Temporaries
  BY DEF StoreInv, Sound
<1>2. /\ dirs' \in [Names -> Directory \cup {NoDirectory}]
      /\ \A n \in Names \ {t} : dirs'[n] = dirs[n]
  BY <1>1, KeysAreNames DEF StoreInv, StoreTypeOK
<1>3. Kept /\ \A n \in Keys : dirs'[n] = dirs[n]
  BY <1>1, <1>2, KeysAreNames DEF Kept
<1>4. writer'[w] = x
  BY DEF StoreInv, StoreTypeOK
<1>5. Sound(w)'
  <2>1. x.pc \in {"verify", "row"} => x.key \in Keys
    BY WriterShape
  <2>2. QED
    BY <1>3, <1>4, <2>1 DEF Sound, Building, exists
<1>6. PublishedWhole' /\ \A n \in rows' : exists(n)'
  BY <1>3 DEF StoreInv, StoreTypeOK, PublishedWhole, RowsHaveRaw, Readable, exists
<1>7. ASSUME NEW v \in Writers \ {w}, writer[v].pc \in Building
      PROVE  dirs'[writer[v].name] = dirs[writer[v].name]
  BY <1>2, <1>7, KeysAreNames DEF StoreInv, Sound, Apart
<1>8. QED
  BY <1>2, <1>3, <1>5, <1>6, <1>7, WriterStep DEF StoreInv, StoreTypeOK

LEMMA IdleIsWriter == Idle \in Writer /\ Idle.pc = "idle" /\ "idle" \notin Building
BY DEF Idle, Writer, Building

LEMMA RenameRefusedStep ==
  ASSUME StoreInv, NEW w \in Writers, RenameRefused(w)
  PROVE  StoreInv' /\ Kept
<1>1. writer[w].pc \in Building /\ exists(writer[w].key)
  BY DEF RenameRefused, Building
<1>2. writer[w].key \in Keys
  BY <1>1, WriterShape DEF StoreInv, StoreTypeOK
<1>3. /\ dirs' = [dirs EXCEPT ![writer[w].name] = NoDirectory]
      /\ UNCHANGED <<rows, faults>>
  BY DEF RenameRefused, Discarded
<1>4. CASE writer' = [writer EXCEPT ![w] = Idle]
  BY <1>1, <1>3, <1>4, IdleIsWriter, DiscardStep DEF StoreInv, StoreTypeOK
<1>5. CASE writer' = [writer EXCEPT ![w] = Published(w)]
  <2>1. /\ Published(w) \in Writer /\ Published(w).pc = "verify"
        /\ Published(w).key = writer[w].key
    BY <1>2 DEF Published, Writer
  <2>2. "verify" \notin Building
    BY DEF Building
  <2>3. QED
    BY <1>1, <1>3, <1>5, <2>1, <2>2, DiscardStep DEF StoreInv, StoreTypeOK
<1>6. QED
  BY <1>4, <1>5 DEF RenameRefused

(* A writer that leaves the store alone goes on as x, and commits a row    *)
(* only for the record that it has verified.                               *)
LEMMA PassiveStep ==
  ASSUME StoreInv, NEW w \in Writers, NEW x \in Writer, x.pc \notin Building,
         x.pc \in {"verify", "row"} => exists(x.key),
         writer' = [writer EXCEPT ![w] = x],
         UNCHANGED dirs, faults' \in 0..MaxFaults,
         rows' \subseteq Keys, \A n \in rows' : exists(n)
  PROVE  StoreInv' /\ Kept
<1>1. Kept /\ PublishedWhole' /\ \A n \in rows' : exists(n)'
  BY DEF StoreInv, Kept, PublishedWhole, exists
<1>2. writer'[w] = x
  BY DEF StoreInv, StoreTypeOK
<1>3. Sound(w)'
  BY <1>2 DEF Sound, Building, exists
<1>4. QED
  BY <1>1, <1>3, WriterStep DEF StoreInv, StoreTypeOK

LEMMA RowsExist == ASSUME StoreInv PROVE rows \subseteq Keys /\ \A n \in rows : exists(n)
BY DEF StoreInv, StoreTypeOK, RowsHaveRaw, Readable

LEMMA VerifyStep ==
  ASSUME StoreInv, NEW w \in Writers, Verify(w)
  PROVE  StoreInv' /\ Kept
<1> DEFINE x == [pc |-> "row", key |-> writer[w].key]
<1>1. writer[w].pc = "verify" /\ UNCHANGED <<dirs, rows, faults>>
  BY DEF Verify
<1>2. /\ writer[w].key \in Keys /\ exists(writer[w].key)
      /\ writer[w] = [pc |-> writer[w].pc, key |-> writer[w].key]
  BY <1>1, WriterShape DEF StoreInv, StoreTypeOK, Sound
<1>3. x \in Writer /\ x.pc = "row" /\ x.key = writer[w].key /\ "row" \notin Building
  BY <1>2 DEF Writer, Building
<1>4. CASE writer' = [writer EXCEPT ![w] = Idle]
  BY <1>1, <1>4, RowsExist, IdleIsWriter, PassiveStep DEF StoreInv, StoreTypeOK
<1>5. CASE writer' = [writer EXCEPT ![w].pc = "row"]
  <2>1. [writer[w] EXCEPT !.pc = "row"] = x
    BY <1>2
  <2>2. writer' = [writer EXCEPT ![w] = x]
    BY <1>5, <2>1
  <2>3. QED
    BY <1>1, <1>2, <1>3, <2>2, RowsExist, PassiveStep DEF StoreInv, StoreTypeOK
<1>6. QED
  BY <1>4, <1>5 DEF Verify

LEMMA CommitRowStep ==
  ASSUME StoreInv, NEW w \in Writers, CommitRow(w)
  PROVE  StoreInv' /\ Kept
<1>1. /\ writer[w].pc = "row" /\ UNCHANGED <<dirs, faults>>
      /\ rows' = rows \cup {writer[w].key} /\ writer' = [writer EXCEPT ![w] = Idle]
  BY DEF CommitRow, RowReady
<1>2. writer[w].key \in Keys /\ exists(writer[w].key)
  BY <1>1, WriterShape DEF StoreInv, StoreTypeOK, Sound
<1>3. QED
  BY <1>1, <1>2, RowsExist, IdleIsWriter, PassiveStep DEF StoreInv, StoreTypeOK

LEMMA WriteFailsStep ==
  ASSUME StoreInv, NEW w \in Writers, WriteFails(w)
  PROVE  StoreInv' /\ Kept
<1>1. /\ writer' = [writer EXCEPT ![w] = Idle] /\ UNCHANGED rows
      /\ faults' \in 0..MaxFaults
  BY FaultTyped DEF WriteFails, StoreInv, StoreTypeOK
<1>2. CASE writer[w].pc \in Building
  BY <1>1, <1>2, IdleIsWriter, DiscardStep DEF WriteFails
<1>3. CASE writer[w].pc \notin Building
  BY <1>1, <1>3, RowsExist, IdleIsWriter, PassiveStep DEF WriteFails
<1>4. QED
  BY <1>2, <1>3

LEMMA CrashStep ==
  ASSUME StoreInv, NEW w \in Writers, Crash(w)
  PROVE  StoreInv' /\ Kept
<1>1. /\ writer' = [writer EXCEPT ![w] = Idle] /\ UNCHANGED <<dirs, rows>>
      /\ faults' \in 0..MaxFaults
  BY FaultTyped DEF Crash, StoreInv, StoreTypeOK
<1>2. QED
  BY <1>1, RowsExist, IdleIsWriter, PassiveStep

(* Every step of the store. *)
LEMMA StoreStep ==
  ASSUME StoreInv, NEW used, StoreNext(used)
  PROVE  StoreInv' /\ Kept
<1>1. ASSUME NEW w \in Writers, Write(w)
      PROVE  StoreInv' /\ Kept
  BY <1>1, WritePayloadStep, WriteMetadataStep, PublishStep, RenameRefusedStep,
     VerifyStep, CommitRowStep, WriteFailsStep, CrashStep DEF Write
<1>2. ASSUME NEW w \in Writers, NEW k \in Keys,
             FindExisting(w, k) \/ MakeTemporary(w, k, used)
      PROVE  StoreInv' /\ Kept
  BY <1>2, FindExistingStep, MakeTemporaryStep
<1>3. QED
  BY <1>1, <1>2 DEF StoreNext

LEMMA StoreStutter ==
  ASSUME StoreInv, UNCHANGED <<dirs, writer, rows>>, faults' \in 0..MaxFaults
  PROVE  StoreInv' /\ Kept
BY DEF StoreInv, StoreTypeOK, Sound, Apart, PublishedWhole, RowsHaveRaw, Readable,
       exists, Kept

-----------------------------------------------------------------------------
(* The inductive invariant of the backup *)

(* The rows of the snapshot have their records by the time the store is    *)
(* listed, and each of them stays listed until it is copied.               *)
SnapshotCovered ==
  /\ backup.pc \in {"list", "copy"} => \A k \in backup.rows : exists(k)
  /\ backup.pc = "copy" => backup.rows \subseteq backup.listed \cup backup.copied

BackupInv ==
  /\ StoreInv
  /\ TypeOK
  /\ SnapshotCovered
  /\ PublishedCovers
  /\ PassRestores

LEMMA NoBackupTyped ==
  /\ NoBackup.pc = "idle" /\ NoBackup.rows = {}
  /\ NoBackup.listed = {} /\ NoBackup.copied = {}
  /\ \A pc : [NoBackup EXCEPT !.pc = pc]
               = [pc |-> pc, rows |-> {}, listed |-> {}, copied |-> {}]
BY DEF NoBackup

LEMMA InitBackup == Init => BackupInv
<1> SUFFICES ASSUME Init PROVE BackupInv
  OBVIOUS
<1>1. StoreTypeOK
  BY StoreAssumption, IdleIsWriter DEF Init, StoreInit, StoreTypeOK
<1>2. \A w \in Writers : writer[w] = Idle
  BY DEF Init, StoreInit
<1>3. \A k \in Names : ~ exists(k)
  BY DEF Init, StoreInit, exists
<1>4. StoreInv
  <2>1. \A w \in Writers : Sound(w)
    BY <1>2, IdleIsWriter DEF Sound, Building, Idle
  <2>2. Apart
    BY <1>2, IdleIsWriter DEF Apart
  <2>3. PublishedWhole
    BY <1>3, KeysAreNames DEF PublishedWhole
  <2>4. RowsHaveRaw
    BY DEF Init, StoreInit, RowsHaveRaw
  <2>5. QED
    BY <1>1, <2>1, <2>2, <2>3, <2>4 DEF StoreInv
<1>5. TypeOK
  BY <1>1, BackupAssumption, NoBackupTyped DEF Init, TypeOK, NoBackup
<1>6. SnapshotCovered /\ PublishedCovers /\ PassRestores
  BY NoBackupTyped DEF Init, SnapshotCovered, PublishedCovers, PassRestores
<1>7. QED
  BY <1>4, <1>5, <1>6 DEF BackupInv

(* While a backup is created, collectors only add to the store. *)
LEMMA CollectorStep ==
  ASSUME BackupInv, NEW used,
         StoreNext(used), UNCHANGED backupVars
  PROVE  BackupInv' /\ Kept
<1>1. StoreInv' /\ Kept
  BY StoreStep DEF BackupInv
<1>2. \A k \in Keys : exists(k) => exists(k)'
  BY <1>1 DEF Kept, exists
<1>3. TypeOK'
  BY <1>1 DEF BackupInv, TypeOK, StoreInv, backupVars
<1>4. SnapshotCovered'
  BY <1>2 DEF BackupInv, TypeOK, SnapshotCovered, backupVars
<1>5. PublishedCovers' /\ PassRestores'
  BY DEF BackupInv, PublishedCovers, PassRestores, backupVars
<1>6. QED
  BY <1>1, <1>3, <1>4, <1>5 DEF BackupInv

(* A step of the backup that only moves its own state to b. *)
LEMMA OwnStep ==
  ASSUME BackupInv, UNCHANGED <<dirs, writer, rows, catalog>>,
         faults' \in 0..MaxFaults, started' \in 0..MaxBackups,
         backup' \in [pc     : {"idle", "snapshot", "list", "copy", "failed"},
                      rows   : SUBSET Keys,
                      listed : SUBSET Names,
                      copied : SUBSET Names],
         SnapshotCovered'
  PROVE  BackupInv' /\ Kept
<1>1. StoreInv' /\ Kept
  BY StoreStutter DEF BackupInv
<1>2. TypeOK'
  BY <1>1 DEF BackupInv, TypeOK, StoreInv
<1>3. PublishedCovers' /\ PassRestores'
  BY DEF BackupInv, PublishedCovers, PassRestores
<1>4. QED
  BY <1>1, <1>2, <1>3 DEF BackupInv

LEMMA StartBackupStep ==
  ASSUME BackupInv, StartBackup PROVE BackupInv' /\ Kept
<1>1. /\ backup' = [pc |-> "snapshot", rows |-> {}, listed |-> {}, copied |-> {}]
      /\ UNCHANGED <<dirs, writer, rows, faults, catalog>>
  BY NoBackupTyped DEF StartBackup, storeVars
<1>2. started' \in 0..MaxBackups /\ faults' \in 0..MaxFaults
  BY <1>1, BackupAssumption DEF StartBackup, BackupInv, TypeOK, StoreTypeOK
<1>3. SnapshotCovered'
  BY <1>1 DEF SnapshotCovered
<1>4. QED
  BY <1>1, <1>2, <1>3, OwnStep

LEMMA DatabaseSnapshotStep ==
  ASSUME BackupInv, DatabaseSnapshot PROVE BackupInv' /\ Kept
<1>1. /\ backup.pc = "snapshot"
      /\ backup' = [backup EXCEPT !.pc = "list", !.rows = rows]
      /\ UNCHANGED <<dirs, writer, rows, faults, catalog, started>>
  BY DEF DatabaseSnapshot, storeVars
<1>2. rows \subseteq Keys /\ \A n \in rows : exists(n)
  BY RowsExist DEF BackupInv
<1>3. backup'.pc = "list" /\ backup'.rows = rows
  BY <1>1 DEF BackupInv, TypeOK
<1>4. SnapshotCovered'
  BY <1>1, <1>2, <1>3 DEF SnapshotCovered, exists
<1>5. QED
  BY <1>1, <1>2, <1>4, OwnStep DEF BackupInv, TypeOK, StoreTypeOK

(* A published record has its metadata: it is listed. *)
LEMMA ListRecordsStep ==
  ASSUME BackupInv, ListRecords PROVE BackupInv' /\ Kept
<1>1. /\ backup.pc = "list"
      /\ backup' = [backup EXCEPT !.pc = "copy", !.listed = iter_records]
      /\ UNCHANGED <<dirs, writer, rows, faults, catalog, started>>
  BY DEF ListRecords, storeVars
<1>2. backup.rows \subseteq Keys /\ \A k \in backup.rows : exists(k)
  BY <1>1 DEF BackupInv, TypeOK, SnapshotCovered
<1>3. \A k \in backup.rows : k \in Names /\ exists(k) /\ dirs[k].metadata # "none"
  <2>1. \A k \in backup.rows : dirs[k] = Whole
    BY <1>2 DEF BackupInv, StoreInv, PublishedWhole
  <2>2. Whole.metadata # "none"
    BY DEF Whole
  <2>3. backup.rows \subseteq Names
    BY <1>2, KeysAreNames
  <2>4. QED
    BY <1>2, <2>1, <2>2, <2>3
<1>4. backup.rows \subseteq iter_records /\ iter_records \subseteq Names
  BY <1>3 DEF iter_records
<1>5. /\ backup'.pc = "copy" /\ backup'.rows = backup.rows
      /\ backup'.listed = iter_records
  BY <1>1 DEF BackupInv, TypeOK
<1>6. SnapshotCovered'
  BY <1>1, <1>2, <1>4, <1>5 DEF SnapshotCovered, exists
<1>7. QED
  BY <1>1, <1>4, <1>6, OwnStep DEF BackupInv, TypeOK, StoreTypeOK

LEMMA CopyRecordStep ==
  ASSUME BackupInv, NEW n \in Names, CopyRecord(n) PROVE BackupInv' /\ Kept
<1>1. /\ backup.pc = "copy"
      /\ backup' = [backup EXCEPT !.listed = backup.listed \ {n},
                                  !.copied = backup.copied \cup {n}]
      /\ UNCHANGED <<dirs, writer, rows, faults, catalog, started>>
  BY DEF CopyRecord, storeVars
<1>2. /\ backup'.pc = "copy" /\ backup'.rows = backup.rows
      /\ backup'.listed = backup.listed \ {n}
      /\ backup'.copied = backup.copied \cup {n}
  BY <1>1 DEF BackupInv, TypeOK
<1>3. SnapshotCovered'
  BY <1>1, <1>2 DEF BackupInv, SnapshotCovered, exists
<1>4. QED
  BY <1>1, <1>3, OwnStep DEF BackupInv, TypeOK, StoreTypeOK

(* A backup that ends without being published. *)
LEMMA UnpublishedStep ==
  ASSUME BackupInv, NEW end \in {"idle", "failed"},
         backup' = [NoBackup EXCEPT !.pc = end],
         UNCHANGED <<dirs, writer, rows, catalog, started>>,
         faults' \in 0..MaxFaults
  PROVE  BackupInv' /\ Kept
<1>1. backup' = [pc |-> end, rows |-> {}, listed |-> {}, copied |-> {}]
  BY DEF NoBackup
<1>2. SnapshotCovered'
  BY <1>1 DEF SnapshotCovered
<1>3. backup' \in [pc     : {"idle", "snapshot", "list", "copy", "failed"},
                   rows   : SUBSET Keys,
                   listed : SUBSET Names,
                   copied : SUBSET Names]
  <2>1. ASSUME NEW R, NEW N
        PROVE  [pc |-> end, rows |-> {}, listed |-> {}, copied |-> {}]
                 \in [pc     : {"idle", "snapshot", "list", "copy", "failed"},
                      rows   : SUBSET R,
                      listed : SUBSET N,
                      copied : SUBSET N]
    OBVIOUS
  <2>2. QED
    BY <1>1, <2>1
<1>4. started' \in 0..MaxBackups
  BY DEF BackupInv, TypeOK
<1>5. QED
  BY <1>2, <1>3, <1>4, OwnStep

(* Equal numbers are equal sets here, for the rows are among the records.  *)
LEMMA VerdictIsExact ==
  ASSUME NEW records \in SUBSET Names, NEW snapshot \in SUBSET records,
         NEW manifest, manifest = [rows |-> snapshot, records |-> records],
         _verify_raw(manifest) # "fail"
  PROVE  /\ _verify_raw(manifest) \in Verdicts
         /\ _verify_raw(manifest) = "pass" => snapshot = records
<1>1. IsFiniteSet(records)
  BY StoreAssumption, FS_Union, FS_Subset DEF Names
<1>2. /\ Cardinality(records) \in Nat /\ Cardinality(snapshot) \in Nat
      /\ Cardinality(snapshot) <= Cardinality(records)
      /\ Cardinality(records) = Cardinality(snapshot) => records = snapshot
  BY <1>1, FS_Subset, FS_CardinalityType
<1>3. QED
  BY <1>2 DEF _verify_raw, Verdicts

LEMMA VerifyAndPublishStep ==
  ASSUME BackupInv, VerifyAndPublish PROVE BackupInv' /\ Kept
<1> DEFINE manifest == [rows |-> backup.rows, records |-> backup.copied]
           result   == _verify_raw(manifest)
           entry    == [rows |-> manifest.rows, records |-> manifest.records,
                        verdict |-> result]
<1>1. /\ backup.pc = "copy" /\ backup.listed = {}
      /\ UNCHANGED <<dirs, writer, rows, faults, started>>
  BY DEF VerifyAndPublish, storeVars
<1>2. /\ backup.rows \in SUBSET Keys /\ backup.copied \in SUBSET Names
      /\ backup.rows \subseteq backup.copied
  BY <1>1 DEF BackupInv, TypeOK, SnapshotCovered
<1>3. CASE result = "fail"
  <2>1. backup' = [NoBackup EXCEPT !.pc = "failed"] /\ UNCHANGED catalog
    BY <1>3 DEF VerifyAndPublish, DumpedRows
  <2>2. QED
    BY <1>1, <2>1, UnpublishedStep DEF BackupInv, TypeOK, StoreTypeOK
<1>4. CASE result # "fail"
  <2>1. backup' = NoBackup /\ catalog' = catalog \cup {entry}
    BY <1>4 DEF VerifyAndPublish, DumpedRows
  <2>2. result \in Verdicts /\ (result = "pass" => backup.rows = backup.copied)
    BY <1>2, <1>4, VerdictIsExact
  <2> HIDE DEF result
  <2>3. /\ entry \in Backup /\ entry.rows = backup.rows
        /\ entry.records = backup.copied /\ entry.verdict = result
    BY <1>2, <2>2 DEF Backup
  <2> HIDE DEF entry
  <2>4. StoreInv' /\ Kept
    BY <1>1, StoreStutter DEF BackupInv, TypeOK, StoreTypeOK
  <2>5. TypeOK'
    BY <1>1, <2>1, <2>3, <2>4 DEF BackupInv, TypeOK, StoreInv, NoBackup
  <2>6. SnapshotCovered'
    BY <2>1, NoBackupTyped DEF SnapshotCovered
  <2>7. PublishedCovers'
    BY <1>2, <2>1, <2>3 DEF BackupInv, PublishedCovers
  <2>8. PassRestores'
    BY <2>1, <2>2, <2>3 DEF BackupInv, PassRestores, raw_valid
  <2>9. QED
    BY <2>4, <2>5, <2>6, <2>7, <2>8 DEF BackupInv
<1>5. QED
  BY <1>3, <1>4

LEMMA BackupStepKeeps ==
  ASSUME BackupInv, BackupStep PROVE BackupInv' /\ Kept
<1>1. ASSUME NEW n \in Names, CopyFails(n) PROVE BackupInv' /\ Kept
  BY <1>1, UnpublishedStep
     DEF CopyFails, storeVars, BackupInv, TypeOK, StoreTypeOK
<1>2. ASSUME BackupAborts PROVE BackupInv' /\ Kept
  BY <1>2, FaultTyped, UnpublishedStep
     DEF BackupAborts, BackupInv, TypeOK, StoreTypeOK
<1>3. QED
  BY <1>1, <1>2, StartBackupStep, DatabaseSnapshotStep, ListRecordsStep,
     CopyRecordStep, VerifyAndPublishStep DEF BackupStep

LEMMA NextKeeps ==
  ASSUME BackupInv, [Next]_vars
  PROVE  BackupInv' /\ Kept
<1>1. CASE Next
  BY <1>1, CollectorStep, BackupStepKeeps DEF Next
<1>2. CASE UNCHANGED vars
  <2>1. UNCHANGED <<dirs, writer, rows, faults, backup, catalog, started>>
    BY <1>2 DEF vars, storeVars, backupVars
  <2>2. SnapshotCovered'
    BY <2>1 DEF BackupInv, SnapshotCovered, exists
  <2>3. QED
    BY <2>1, <2>2, OwnStep DEF BackupInv, TypeOK, StoreTypeOK
<1>3. QED
  BY <1>1, <1>2

-----------------------------------------------------------------------------
(* Theorems *)

(* The inductive invariant of the store and its backup. *)
THEOREM Invariance == Spec => []BackupInv
<1>1. BackupInv /\ [Next]_vars => BackupInv'
  BY NextKeeps
<1>2. QED
  BY InitBackup, <1>1, PTL DEF Spec

(* Writers, rows, the backup and the catalog have their types. *)
THEOREM TypeCorrect == Spec => []TypeOK
<1>1. BackupInv => TypeOK
  BY DEF BackupInv
<1>2. QED
  BY <1>1, Invariance, PTL

(* Whatever is interrupted and whoever races, a record with its final name *)
(* is complete (raw_store.py: the payload, then the metadata, then a       *)
(* rename).                                                                *)
THEOREM RecordsAreWhole == Spec => []PublishedWhole
<1>1. BackupInv => PublishedWhole
  BY DEF BackupInv, StoreInv
<1>2. QED
  BY <1>1, Invariance, PTL

(* A committed row points to a readable record: the sinks of both          *)
(* collectors write Raw first and never after the row.                     *)
THEOREM RawFirst == Spec => []RowsHaveRaw
<1>1. BackupInv => RowsHaveRaw
  BY DEF BackupInv, StoreInv
<1>2. QED
  BY <1>1, Invariance, PTL

(* A backup that is created while collectors are active holds the record   *)
(* of every row in its database dump: snapshot first, immutable copy next. *)
THEOREM BackupsCover == Spec => []PublishedCovers
<1>1. BackupInv => PublishedCovers
  BY DEF BackupInv
<1>2. QED
  BY <1>1, Invariance, PTL

(* The verdict pass means exactly the records of the rows, and a restore   *)
(* that passes the full integrity check.                                   *)
THEOREM PassMeansExact == Spec => []PassRestores
<1>1. BackupInv => PassRestores
  BY DEF BackupInv
<1>2. QED
  BY <1>1, Invariance, PTL

(* No step of the program changes or removes a published record. *)
THEOREM RecordsStay == Spec => PublishedForever
<1>1. BackupInv /\ [Next]_vars => [\A k \in Keys : exists(k) => dirs'[k] = dirs[k]]_dirs
  BY NextKeeps DEF Kept
<1>2. QED
  BY <1>1, Invariance, PTL DEF Spec, PublishedForever

=============================================================================
