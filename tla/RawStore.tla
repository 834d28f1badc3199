------------------------------ MODULE RawStore ------------------------------
(***************************************************************************)
(* The Raw store (collector_core raw_store.py) and the two collectors'     *)
(* sinks that write to it: an answer is first written as a record, then a  *)
(* database row that points to the record is committed.                    *)
(*                                                                         *)
(* A record is a directory.  It is built under a temporary name beside its *)
(* final place and published by a rename; its final name is a function of  *)
(* the observation, so it stands for the observation here.  A process that *)
(* is killed leaves its temporary directory behind.                        *)
(***************************************************************************)
EXTENDS Naturals, FiniteSets

CONSTANTS
  Keys,         \* observations, named by the directory of their record
  Temporaries,  \* bound: names that mkdtemp may return
  Writers,      \* collecting processes: the worker, a command line
  MaxFaults,    \* bound: faults injected in one behaviour
  Faults,       \* kinds of fault the environment may inject
  NoDirectory   \* a name that no directory has

FaultKinds == {"crash", "io_error"}

FileStates == {"none", "torn", "whole"}
Directory  == [payload : FileStates, metadata : FileStates]

ASSUME StoreAssumption ==
  /\ NoDirectory \notin Directory
  /\ IsFiniteSet(Keys) /\ IsFiniteSet(Temporaries) /\ Keys \cap Temporaries = {}
  /\ MaxFaults \in Nat /\ Faults \subseteq FaultKinds

VARIABLES
  dirs,    \* dirs[n]: the directory n of the store, NoDirectory if there is none
  writer,  \* writer[w]: what process w does with the answer it has received
  rows,    \* the observations that a committed database row points to
  faults   \* number of faults injected so far

storeVars == <<dirs, writer, rows, faults>>

-----------------------------------------------------------------------------
(* Types *)

Names == Keys \cup Temporaries
Empty == [payload |-> "none", metadata |-> "none"]
Whole == [payload |-> "whole", metadata |-> "whole"]

Building == {"payload", "metadata", "closing", "rename"}
Idle     == [pc |-> "idle"]
Writer   ==
  {Idle} \cup [pc : Building, key : Keys, name : Names]
         \cup [pc : {"verify", "row"}, key : Keys]

StoreTypeOK ==
  /\ dirs \in [Names -> Directory \cup {NoDirectory}]
  /\ writer \in [Writers -> Writer]
  /\ rows \subseteq Keys
  /\ faults \in 0..MaxFaults

-----------------------------------------------------------------------------
(* Helpers *)

exists(n) == dirs[n] # NoDirectory

(* iter_records finds every directory that has a metadata file: also one   *)
(* that still has its temporary name, for the pattern matches hidden names. *)
iter_records == {n \in Names : exists(n) /\ dirs[n].metadata # "none"}

(* load and read: the metadata parses, the payload has the checksum. *)
Readable(n) == exists(n) /\ dirs[n] = Whole

(* A writer goes on to step pc. *)
Goto(w, pc) == writer' = [writer EXCEPT ![w].pc = pc]

Fault(kind) == kind \in Faults /\ faults < MaxFaults /\ faults' = faults + 1

-----------------------------------------------------------------------------
(* The steps of write, for an answer that process w has received *)

StoreInit ==
  /\ dirs   = [n \in Names |-> NoDirectory]
  /\ writer = [w \in Writers |-> Idle]
  /\ rows   = {}
  /\ faults = 0

(* The answer is already stored: its record is verified and returned. *)
FindExisting(w, k) ==
  /\ writer[w] = Idle
  /\ exists(k)
  /\ writer' = [writer EXCEPT ![w] = [pc |-> "verify", key |-> k]]
  /\ UNCHANGED <<dirs, rows, faults>>

(* Where a new record is built: a fresh temporary name.  The names in used *)
(* are remembered by somebody, so mkdtemp does not return them again.      *)
BuildPlace_final(k, used) == {k}
BuildPlace(k, used) == {t \in Temporaries : ~ exists(t) /\ t \notin used}

(* mkdtemp beside the final place of an answer that is not stored yet. *)
MakeTemporary(w, k, used) ==
  LET free == BuildPlace(k, used) IN
  /\ writer[w] = Idle
  /\ ~ exists(k)
  /\ free # {}
  /\ LET t == CHOOSE n \in free : TRUE IN
       /\ dirs' = [dirs EXCEPT ![t] = Empty]
       /\ writer' = [writer EXCEPT ![w] = [pc |-> "payload", key |-> k, name |-> t]]
  /\ UNCHANGED <<rows, faults>>

(* The payload is written and synchronised before the metadata exists. *)
WritePayload(w) ==
  /\ writer[w].pc = "payload"
  /\ dirs' = [dirs EXCEPT ![writer[w].name].payload = "whole"]
  /\ Goto(w, "metadata")
  /\ UNCHANGED <<rows, faults>>

(* The metadata file is opened, filled and synchronised: two steps, since  *)
(* it can be seen, or be left by a crash, before its text is complete.     *)
WriteMetadata(w) ==
  \/ /\ writer[w].pc = "metadata"
     /\ dirs' = [dirs EXCEPT ![writer[w].name].metadata = "torn"]
     /\ Goto(w, "closing")
     /\ UNCHANGED <<rows, faults>>
  \/ /\ writer[w].pc = "closing"
     /\ dirs' = [dirs EXCEPT ![writer[w].name].metadata = "whole"]
     /\ Goto(w, "rename")
     /\ UNCHANGED <<rows, faults>>

(* What remains of a write whose record is published. *)
Published(w) == [pc |-> "verify", key |-> writer[w].key]

(* The rename publishes the record. *)
Publish(w) ==
  LET k == writer[w].key
      t == writer[w].name
  IN
  /\ writer[w].pc = "rename"
  /\ ~ exists(k)
  /\ dirs' = [dirs EXCEPT ![k] = dirs[t], ![t] = NoDirectory]
  /\ writer' = [writer EXCEPT ![w] = Published(w)]
  /\ UNCHANGED <<rows, faults>>

(* What the loser of a race removes: its own temporary directory. *)
Discarded_final(w) == writer[w].key
Discarded(w) == writer[w].name

(* Another process published the same observation meanwhile, and a rename  *)
(* onto a directory with files is refused.  Where the system reports this  *)
(* as FileExistsError the writer goes on with the existing record; Linux   *)
(* reports that the target is not empty, an error that ends the write.     *)
RenameRefused(w) ==
  /\ writer[w].pc = "rename"
  /\ exists(writer[w].key)
  /\ dirs' = [dirs EXCEPT ![Discarded(w)] = NoDirectory]
  /\ writer' \in {[writer EXCEPT ![w] = Idle],
                  [writer EXCEPT ![w] = Published(w)]}
  /\ UNCHANGED <<rows, faults>>

(* The published record is loaded and read before it is returned. *)
Verify(w) ==
  /\ writer[w].pc = "verify"
  /\ writer' = IF Readable(writer[w].key)
                 THEN [writer EXCEPT ![w].pc = "row"]
                 ELSE [writer EXCEPT ![w] = Idle]
  /\ UNCHANGED <<dirs, rows, faults>>

(* The states of a writer in which its answer may be entered as a row. *)
RowReady_early(w) == writer[w].pc \in {"rename", "row"}
RowReady(w) == writer[w].pc = "row"

(* record_raw_response and the commit: one row per record, found again if  *)
(* it is there already.                                                    *)
CommitRow(w) ==
  /\ RowReady(w)
  /\ rows' = rows \cup {writer[w].key}
  /\ writer' = [writer EXCEPT ![w] = Idle]
  /\ UNCHANGED <<dirs, faults>>

-----------------------------------------------------------------------------
(* Faults *)

(* An error while the record is built, or a cancelled task: the temporary  *)
(* directory is removed and the error goes on.  Later errors - the record  *)
(* cannot be read, the database is away - leave the record without a row.  *)
WriteFails(w) ==
  /\ writer[w] # Idle
  /\ Fault("io_error")
  /\ dirs' = IF writer[w].pc \in Building
               THEN [dirs EXCEPT ![writer[w].name] = NoDirectory]
               ELSE dirs
  /\ writer' = [writer EXCEPT ![w] = Idle]
  /\ UNCHANGED rows

(* The process is killed; what it has written stays. *)
Crash(w) ==
  /\ writer[w] # Idle
  /\ Fault("crash")
  /\ writer' = [writer EXCEPT ![w] = Idle]
  /\ UNCHANGED <<dirs, rows>>

Write(w) ==
  \/ WritePayload(w) \/ WriteMetadata(w) \/ Publish(w) \/ RenameRefused(w)
  \/ Verify(w) \/ CommitRow(w) \/ WriteFails(w) \/ Crash(w)

StoreNext(used) ==
  \/ \E w \in Writers : Write(w)
  \/ \E w \in Writers, k \in Keys : FindExisting(w, k) \/ MakeTemporary(w, k, used)

StoreSpec == StoreInit /\ [][StoreNext({})]_storeVars

-----------------------------------------------------------------------------
(* Properties *)

(* A record that has its final name is complete, whatever was interrupted  *)
(* and whoever raced for it.                                               *)
PublishedWhole == \A k \in Keys : exists(k) => dirs[k] = Whole

(* A committed row points to a record that can be read: Raw first, row     *)
(* second, on every path.                                                  *)
RowsHaveRaw == \A k \in rows : Readable(k)

(* A published record is never changed or removed by the program, not even *)
(* by the loser of a race or by the clean-up after an error.               *)
PublishedForever == [][\A k \in Keys : exists(k) => dirs'[k] = dirs[k]]_dirs
=============================================================================
