----------------------------- MODULE MCBackfill -----------------------------
(***************************************************************************)
(* Constants of the backfill runs: a range of two windows, the first of    *)
(* which holds too much for one query, as does its first half.             *)
(***************************************************************************)
EXTENDS CoverageLedger

CONSTANTS a1, a2, a3, a4

Dates  == [a \in Articles |-> CASE a = a1 -> 0 [] a = a2 -> 2 [] a = a3 -> 3 [] a = a4 -> 6]
Early    == [from |-> 0, until |-> 2]
Late     == [from |-> 6, until |-> 8]
Whole    == [from |-> 0, until |-> 8]
Apart    == {Early, Late, Whole}
Nested   == {Early, Whole}
OnlyWhole == {Whole}
=============================================================================
