------------------------------ MODULE MCArxiv ------------------------------
(***************************************************************************)
(* Constants of the arXiv runs: a handful of articles, some of which are   *)
(* found by queries only a tick or two after their submission.             *)
(***************************************************************************)
EXTENDS ArxivIncremental

CONSTANTS a1, a2, a3

Dates   == [a \in Articles |-> CASE a = a1 -> 1 [] a = a2 -> 2 [] a = a3 -> 3]
Delayed == [a \in Articles |-> CASE a = a1 -> 3 [] a = a2 -> 2 [] a = a3 -> 3]
=============================================================================
