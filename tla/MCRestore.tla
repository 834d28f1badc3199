----------------------------- MODULE MCRestore -----------------------------
(* BackupRestore for TLC: records, backups, operators and drills are       *)
(* interchangeable.                                                        *)
EXTENDS BackupRestore, TLC

CONSTANTS r1, r2

Sound(rows, records) ==
  [rows |-> rows, records |-> records, unsampled |-> FALSE, answers |-> TRUE]

(* No observation yet; every row with its record; one record more than     *)
(* rows; numbers that agree although the row's record is missing; and a    *)
(* young database, with matches but no observation and few topics.         *)
MCManifests ==
  {Sound({}, {}), Sound({r1}, {r1}), Sound({r2}, {r1, r2}), Sound({r2}, {r1}),
   [Sound({r2}, {r2}) EXCEPT !.unsampled = TRUE, !.answers = FALSE]}

Symmetry ==
  Permutations(Backups) \cup Permutations(Operators) \cup Permutations(Drills)
=============================================================================
