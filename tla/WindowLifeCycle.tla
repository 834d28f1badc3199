-------------------------- MODULE WindowLifeCycle --------------------------
(***************************************************************************)
(* What the scheduler ledger promises about one expected window: a window  *)
(* is planned, claimed no earlier than its due time, and settled exactly   *)
(* once.  A settled window keeps its verdict for ever.  Nothing is said    *)
(* about who moves a window: hosts, locks and restarts belong to the       *)
(* detailed module Scheduler, which implements this one.                   *)
(***************************************************************************)
EXTENDS Naturals

CONSTANTS Jobs,       \* names of the scheduled jobs
          Instants    \* the due times a window may have

VARIABLES clock,      \* wall clock
          status      \* status[j][w]: status of the row (j, w), or "absent"

vars == <<clock, status>>

Terminal == {"succeeded", "partial", "failed", "missed", "interrupted"}
Statuses == {"absent", "scheduled", "running"} \cup Terminal

(* The moves of one window.  Claiming a window and recording it as missed  *)
(* both need the window to be due.                                         *)
Planned(old, new)     == old = "absent" /\ new = "scheduled"
Claimed(w, old, new)  == old = "scheduled" /\ new = "running" /\ w <= clock
Missed(w, old, new)   == old = "scheduled" /\ new = "missed" /\ w <= clock
(* Gap windows are planned after their due time, so planning and missing   *)
(* are two moves even when one reconciliation does both.                   *)
Settled(old, new)     == old = "running" /\ new \in Terminal \ {"missed"}

LegalMove(w, old, new) ==
  \/ new = old
  \/ Planned(old, new)
  \/ Claimed(w, old, new)
  \/ Missed(w, old, new)
  \/ Settled(old, new)

Init == clock \in Nat /\ status = [j \in Jobs |-> [w \in Instants |-> "absent"]]

Next ==
  /\ clock' \in Nat /\ clock' >= clock
  /\ status' \in [Jobs -> [Instants -> Statuses]]
  /\ \A j \in Jobs, w \in Instants : LegalMove(w, status[j][w], status'[j][w])

Spec == Init /\ [][Next]_vars
=============================================================================
