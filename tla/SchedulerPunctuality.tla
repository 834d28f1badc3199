------------------------ MODULE SchedulerPunctuality ------------------------
(***************************************************************************)
(* The read-only verifier over the scheduler ledger: scheduler_timing and  *)
(* SchedulerPunctualityVerifier of observatory_operations scheduler.py.    *)
(***************************************************************************)
EXTENDS Scheduler

CONSTANTS Threshold,   \* ticks of delay a dispatch may have and still be on time
          Qualifying,  \* consecutive contract windows the gate asks for
          Continuing   \* windows up to the latest due one that may not fail

ASSUME GateAssumption ==
  /\ Threshold \in Nat
  /\ Qualifying \in Nat \ {0} /\ Continuing \in Nat \ {0}

(* Faulty variant: a due row that nobody claimed is still to come.          *)
Timing_lenient(j, w) ==
  LET row == ledger[j][w] IN
  IF row.status \in {"missed", "interrupted"} THEN row.status
  ELSE IF row.started = NotStarted THEN "pending"
  ELSE IF row.started - w <= Threshold THEN "on_time" ELSE "late"

(* scheduler_timing: dispatch timing of the row (j, w) as seen at the clock.*)
Timing(j, w) ==
  LET row == ledger[j][w] IN
  IF row.status \in {"missed", "interrupted"} THEN row.status
  ELSE IF row.started = NotStarted THEN IF w <= clock THEN "missed" ELSE "pending"
  ELSE IF row.started - w <= Threshold THEN "on_time" ELSE "late"

Tagged(j) == {w \in materialized_windows(j) : ledger[j][w].tagged}

(* The windows that qualify: the first one tagged and its successors.       *)
QualificationStart(j) == CHOOSE w \in Tagged(j) : \A v \in Tagged(j) : w <= v
Qualification(j) ==
  {QualificationStart(j) + Period[j] * i : i \in 0..(Qualifying - 1)}
Due(j) == {w \in Qualification(j) : w <= clock}

Disqualified(j) ==
  \E w \in Due(j) :
    \/ w \notin Tagged(j)
    \/ Timing(j, w) \in {"late", "missed", "interrupted"}

Completed(j) == {w \in Due(j) \cap Tagged(j) : ledger[j][w].status \in Terminal}

(* SchedulerPunctualityVerifier.status: the state of the punctuality gate.  *)
Gate(j) ==
  IF Tagged(j) = {} THEN "pending"
  ELSE IF Disqualified(j) THEN "failed"
  ELSE IF Cardinality(Completed(j)) >= Qualifying THEN "passed"
  ELSE "pending"

(* The last windows the schedule expects up to now, rows or not.            *)
latest_due_window(j) == clock - ((clock - Offset[j]) % Period[j])
continuity_windows(j) ==
  {latest_due_window(j) - Period[j] * i : i \in 0..(Continuing - 1)}

continuity_missing(j) == continuity_windows(j) \ materialized_windows(j)
continuity_bad(j) ==
  {w \in continuity_windows(j) \cap materialized_windows(j) :
     Timing(j, w) \in {"missed", "interrupted"}}

(* SchedulerPunctualityVerifier.status: the state of the continuity gate.   *)
Continuity(j) ==
  IF materialized_windows(j) = {} THEN "pending"
  ELSE IF continuity_missing(j) \cup continuity_bad(j) # {} THEN "failed"
  ELSE "passed"

-----------------------------------------------------------------------------
(* Properties *)

(* A gate that has passed stays passed: no later restart, gap or            *)
(* reconciliation takes the evidence back.                                  *)
PassedIsFinal ==
  [][\A j \in Contract : Gate(j) = "passed" => Gate(j)' = "passed"]_vars

(* A gate that reports a failure takes it back for one reason only: a due   *)
(* window nobody had claimed was claimed after all, for punctuality within  *)
(* the threshold.  The continuity gate also passes again when a day is over *)
(* and the bad window has left its horizon.  No gap that a restart fills in *)
(* and no reconciliation turns a failure into success.                      *)
ClaimedNow(j) ==
  {w \in Rows(j, {"scheduled"}) : w <= clock /\ ledger'[j][w].status = "running"}

FailureIsOutlived ==
  [][\A j \in Contract :
       /\ Gate(j) = "failed" /\ Gate(j)' # "failed" =>
            \E w \in ClaimedNow(j) : clock - w <= Threshold
       /\ Continuity(j) = "failed" /\ Continuity(j)' # "failed" =>
            clock' > clock \/ ClaimedNow(j) # {}]_vars
=============================================================================
