---------------------------- MODULE MCScheduler ----------------------------
(***************************************************************************)
(* Constants of the scheduler's TLC runs.  The coroutine is one function   *)
(* for every job, so two jobs stand for the three of scheduler_host: a     *)
(* daily one, which carries the contract tag as arxiv_daily does and       *)
(* shares its source lock as github_daily_snapshot does, and a slower one, *)
(* github_weekly_discovery.                                                *)
(***************************************************************************)
EXTENDS SchedulerPunctuality, TLC

CONSTANTS daily, weekly

RunSource == [j \in Jobs |-> "github"]
RunPeriod == [j \in Jobs |-> IF j = daily THEN 1 ELSE 2]
RunOffset == [j \in Jobs |-> 0]
=============================================================================
