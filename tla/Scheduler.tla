----------------------------- MODULE Scheduler -----------------------------
(***************************************************************************)
(* The durable scheduler: worker hosts (apps/worker main.py) that dispatch *)
(* the jobs of a ledger of expected windows (observatory_operations        *)
(* scheduler.py, class SchedulerLedger).                                   *)
(*                                                                         *)
(* A host takes the database leadership lock, runs one coroutine per job,  *)
(* and the coroutine of a job repairs the ledger at startup, then plans,   *)
(* waits for, claims, runs and settles one window after another.  Jobs of  *)
(* one source share an in-process lock.  Time is counted in ticks.         *)
(***************************************************************************)
EXTENDS Integers, FiniteSets

CONSTANTS Hosts,      \* worker processes that may be started
          NoHost,     \* nobody holds the leadership lock
          Jobs,       \* arxiv_daily, github_daily_snapshot, github_weekly_discovery
          Source,     \* Source[j]: the source whose execution lock job j takes
          Period,     \* Period[j]: ticks between two windows of job j
          Offset,     \* Offset[j]: tick of the first window of job j
          Contract,   \* jobs planned with the punctuality contract tag
          MaxClock,   \* bound: last tick of the wall clock
          MaxFaults,  \* bound: faults injected in one behaviour
          Faults      \* the kinds of fault the environment may inject

FaultKinds == {"crash", "session_loss", "db_error"}

ASSUME HostAssumption  == NoHost \notin Hosts
ASSUME CronAssumption  ==
  /\ Period \in [Jobs -> Nat \ {0}]
  /\ Offset \in [Jobs -> Nat]
ASSUME BoundAssumption == MaxClock \in Nat /\ MaxFaults \in Nat
ASSUME FaultAssumption == Faults \subseteq FaultKinds /\ Contract \subseteq Jobs

(* Instants at which a window can be due: none is planned further ahead    *)
(* than one period after the last tick.                                    *)
Instants == UNION {0..(MaxClock + Period[j]) : j \in Jobs}

VARIABLES
  clock,    \* the wall clock, shared by all hosts
  ledger,   \* ledger[j][w]: row of table scheduler_executions, "absent" if none
  leader,   \* holder of the PostgreSQL advisory lock, or NoHost
  phase,    \* phase[h]: stage of the process of host h
  task,     \* task[h][j]: locals of coroutine scheduled_job(j) of host h
  faults    \* number of faults injected so far

vars == <<clock, ledger, leader, phase, task, faults>>

-----------------------------------------------------------------------------
(* Types *)

Outcomes == {"succeeded", "partial", "failed"}
Terminal == Outcomes \cup {"missed", "interrupted"}
Statuses == {"absent", "scheduled", "running"} \cup Terminal

NotStarted == -1
Row == [status : Statuses, started : Nat \cup {NotStarted}, tagged : BOOLEAN]
Absent == [status |-> "absent", started |-> NotStarted, tagged |-> FALSE]

(* "stopping": a signal set the stop event; "failing": a coroutine ended    *)
(* and the host set it; "unwinding": leadership was given back while some   *)
(* coroutines were still alive.                                             *)
Phases == {"down", "up", "stopping", "failing", "unwinding"}

Labels == {"off", "observe", "backfill", "reconcile", "loop", "waiting",
           "queued", "running", "done", "failed"}
Task == [pc : Labels, target : Instants, observed : Nat,
         gap : SUBSET Instants, miss : SUBSET Instants, lost : SUBSET Instants]
Idle(label) == [pc |-> label, target |-> 0, observed |-> 0,
                gap |-> {}, miss |-> {}, lost |-> {}]

Live(h)      == phase[h] # "down"
Stopped(h)   == phase[h] \notin {"down", "up"}
Dispatching  == {"loop", "waiting", "queued", "running"}
Ended        == {"done", "failed"}

-----------------------------------------------------------------------------
(* Cron windows *)

next_cron_run(j, t) == t + Period[j] - ((t - Offset[j]) % Period[j])

IsWindow(j, w) == (w - Offset[j]) % Period[j] = 0

-----------------------------------------------------------------------------
(* The ledger's statements.  Each is one transaction.                       *)

Rows(j, statuses) == {w \in Instants : ledger[j][w].status \in statuses}

materialized_windows(j) == {w \in Instants : ledger[j][w].status # "absent"}

(* The windows the cron expects from the oldest row on.                     *)
Expected(j) ==
  {w \in Instants : IsWindow(j, w) /\ \E v \in materialized_windows(j) : v <= w}

(* Faulty variant: the insert is an upsert.                                *)
plan_upsert(j, w, tagged) ==
  ledger' = [ledger EXCEPT ![j][w] =
               [status |-> "scheduled", started |-> NotStarted, tagged |-> tagged]]

(* INSERT of a plan.  On a duplicate the row stays as it is, except that a  *)
(* window still scheduled takes over the metadata it lacks.                 *)
plan(j, w, tagged) ==
  IF ledger[j][w].status = "absent"
  THEN ledger' = [ledger EXCEPT ![j][w] =
                    [status |-> "scheduled", started |-> NotStarted, tagged |-> tagged]]
  ELSE IF ledger[j][w].status = "scheduled" /\ tagged
  THEN ledger' = [ledger EXCEPT ![j][w].tagged = TRUE]
  ELSE UNCHANGED ledger

(* Faulty variant: the claim does not test the status.                     *)
start_unguarded(j, w) ==
  ledger' = [ledger EXCEPT ![j][w].status = "running", ![j][w].started = clock]

(* UPDATE ... SET status = running WHERE status = scheduled.               *)
start(j, w) ==
  /\ ledger[j][w].status = "scheduled"
  /\ ledger' = [ledger EXCEPT ![j][w].status = "running", ![j][w].started = clock]

(* UPDATE ... SET status = outcome WHERE status = running.                 *)
finish(j, w, outcome) ==
  /\ ledger[j][w].status = "running"
  /\ ledger' = [ledger EXCEPT ![j][w].status = outcome]

(* Faulty variants: abandoned rows are not selected; rows that succeeded    *)
(* are selected too.                                                        *)
reconcile_read_planned(j, now) ==
  [miss |-> {w \in Rows(j, {"scheduled"}) : w <= now}, lost |-> {}]
reconcile_read_claimed(j, now) ==
  [miss |-> {w \in Rows(j, {"scheduled"}) : w <= now},
   lost |-> Rows(j, {"running", "succeeded"})]

(* The two halves of reconcile: the SELECT, and the UPDATE by primary key   *)
(* of every row selected, whatever its status has become.                   *)
reconcile_read(j, now) ==
  [miss |-> {w \in Rows(j, {"scheduled"}) : w <= now}, lost |-> Rows(j, {"running"})]

reconcile_write(j, read) ==
  ledger' = [ledger EXCEPT ![j] = [w \in Instants |->
               IF w \in read.miss THEN [ledger[j][w] EXCEPT !.status = "missed"]
               ELSE IF w \in read.lost THEN [ledger[j][w] EXCEPT !.status = "interrupted"]
               ELSE ledger[j][w]]]

-----------------------------------------------------------------------------
(* The host process: scheduler_host inside serve.                           *)

Init ==
  /\ clock = 0
  /\ ledger = [j \in Jobs |-> [w \in Instants |-> Absent]]
  /\ leader = NoHost
  /\ phase = [h \in Hosts |-> "down"]
  /\ task = [h \in Hosts |-> [j \in Jobs |-> Idle("off")]]
  /\ faults = 0

(* pg_try_advisory_lock succeeds and one coroutine per job is created.  A   *)
(* host that finds the lock taken raises and stays down.                    *)
StartHost(h) ==
  /\ phase[h] = "down" /\ leader = NoHost
  /\ leader' = h
  /\ phase' = [phase EXCEPT ![h] = "up"]
  /\ task' = [task EXCEPT ![h] = [j \in Jobs |-> Idle("observe")]]
  /\ UNCHANGED <<clock, ledger, faults>>

(* SIGINT or SIGTERM sets the stop event.                                   *)
StopSignal(h) ==
  /\ phase[h] = "up"
  /\ phase' = [phase EXCEPT ![h] = "stopping"]
  /\ UNCHANGED <<clock, ledger, leader, task, faults>>

(* asyncio.wait returns because a coroutine ended: the host sets the stop   *)
(* event and gathers the others.                                            *)
TaskEnded(h) ==
  /\ phase[h] = "up"
  /\ \E j \in Jobs : task[h][j].pc = "failed"
  /\ phase' = [phase EXCEPT ![h] = "failing"]
  /\ UNCHANGED <<clock, ledger, leader, task, faults>>

Unlocked(h) == IF leader = h THEN NoHost ELSE leader

Leave(h) ==
  /\ phase' = [phase EXCEPT ![h] = "down"]
  /\ task' = [task EXCEPT ![h] = [j \in Jobs |-> Idle("off")]]
  /\ leader' = Unlocked(h)
  /\ UNCHANGED <<clock, ledger, faults>>

(* Every coroutine ended; the leadership context is left and the process    *)
(* exits.  After a failure the host gathers with return_exceptions.         *)
HostExit(h) ==
  /\ \/ phase[h] = "stopping" /\ \A j \in Jobs : task[h][j].pc = "done"
     \/ phase[h] = "failing" /\ \A j \in Jobs : task[h][j].pc \in Ended
  /\ Leave(h)

(* After a signal the host gathers without return_exceptions: the first     *)
(* exception leaves the leadership context while other coroutines run on.   *)
HostUnwind(h) ==
  /\ phase[h] = "stopping"
  /\ \E j \in Jobs : task[h][j].pc = "failed"
  /\ phase' = [phase EXCEPT ![h] = "unwinding"]
  /\ leader' = Unlocked(h)
  /\ UNCHANGED <<clock, ledger, task, faults>>

(* asyncio.run cancels what is left.  CancelledError is no Exception: a     *)
(* running row stays running.                                               *)
HostCancelled(h) == phase[h] = "unwinding" /\ Leave(h)

-----------------------------------------------------------------------------
(* Faults of the environment *)

Inject(kind) ==
  /\ kind \in Faults /\ faults < MaxFaults
  /\ faults' = faults + 1

(* The process dies.  Its database session outlives it until the server     *)
(* notices (DropDeadSession).                                               *)
Crash(h) ==
  /\ Inject("crash")
  /\ Live(h)
  /\ phase' = [phase EXCEPT ![h] = "down"]
  /\ task' = [task EXCEPT ![h] = [j \in Jobs |-> Idle("off")]]
  /\ UNCHANGED <<clock, ledger, leader>>

DropDeadSession(h) ==
  /\ leader = h /\ ~Live(h)
  /\ leader' = NoHost
  /\ UNCHANGED <<clock, ledger, phase, task, faults>>

(* The session that holds the advisory lock ends under a living host, which *)
(* does not look at it again before it leaves.                              *)
SessionLost(h) ==
  /\ Inject("session_loss")
  /\ leader = h /\ Live(h)
  /\ leader' = NoHost
  /\ UNCHANGED <<clock, ledger, phase, task>>

(* A ledger statement of a coroutine raises and changes nothing.            *)
DbError(h, j) ==
  /\ Inject("db_error")
  /\ \/ task[h][j].pc \in {"observe", "backfill", "reconcile", "running"}
     \/ task[h][j].pc \in {"loop", "queued"} /\ ~Stopped(h)
  /\ task' = [task EXCEPT ![h][j] = Idle("failed")]
  /\ UNCHANGED <<clock, ledger, leader, phase>>

(* MaxClock bounds the wall clock.                                          *)
Tick ==
  /\ clock < MaxClock
  /\ clock' = clock + 1
  /\ UNCHANGED <<ledger, leader, phase, task, faults>>

-----------------------------------------------------------------------------
(* The coroutine of one job: scheduled_job.                                 *)

At(h, j, label) == task[h][j].pc = label

(* Faulty variant: every job has a lock of its own.                        *)
LockFree_perJob(h, j) == ~At(h, j, "running")

(* The asyncio lock of a source is held from the claim to the end of a job. *)
LockFree(h, j) ==
  \A i \in Jobs : Source[i] = Source[j] => ~At(h, i, "running")

Goto(h, j, label) == task' = [task EXCEPT ![h][j].pc = label]
(* Back to the top of the loop, where the window's local is assigned anew.  *)
Again(h, j) == task' = [task EXCEPT ![h][j] = [@ EXCEPT !.pc = "loop", !.target = 0]]
End(h, j, label) == task' = [task EXCEPT ![h][j] = Idle(label)]

(* Faulty variant: only the windows after the newest row are materialized. *)
Gap_newest(j, now) ==
  {w \in Expected(j) : w <= now /\ \A v \in materialized_windows(j) : v < w}

(* Startup reads the clock and the materialized windows, and computes the   *)
(* elapsed windows that have no row.                                        *)
Gap(j, now) == {w \in Expected(j) \ materialized_windows(j) : w <= now}

Observe(h, j) ==
  /\ At(h, j, "observe")
  /\ task' = [task EXCEPT ![h][j] =
                [Idle("backfill") EXCEPT !.observed = clock, !.gap = Gap(j, clock)]]
  /\ UNCHANGED <<clock, ledger, leader, phase, faults>>

(* One gap window is planned, without metadata.                             *)
Backfill(h, j) ==
  /\ At(h, j, "backfill")
  /\ \E w \in task[h][j].gap :
       /\ \A v \in task[h][j].gap : w <= v
       /\ plan(j, w, FALSE)
       /\ task' = [task EXCEPT ![h][j].gap = @ \ {w}]
  /\ UNCHANGED <<clock, leader, phase, faults>>

ReconcileRead(h, j) ==
  /\ At(h, j, "backfill") /\ task[h][j].gap = {}
  /\ LET read == reconcile_read(j, task[h][j].observed) IN
     task' = [task EXCEPT ![h][j] =
       [@ EXCEPT !.pc = "reconcile", !.miss = read.miss, !.lost = read.lost]]
  /\ UNCHANGED <<clock, ledger, leader, phase, faults>>

ReconcileWrite(h, j) ==
  /\ At(h, j, "reconcile")
  /\ reconcile_write(j, [miss |-> task[h][j].miss, lost |-> task[h][j].lost])
  /\ task' = [task EXCEPT ![h][j] =
       [@ EXCEPT !.pc = "loop", !.miss = {}, !.lost = {}]]
  /\ UNCHANGED <<clock, leader, phase, faults>>

(* Top of the loop: stop, or plan the next window after the wall clock.     *)
LoopExit(h, j) ==
  /\ At(h, j, "loop") /\ Stopped(h)
  /\ End(h, j, "done")
  /\ UNCHANGED <<clock, ledger, leader, phase, faults>>

PlanNext(h, j) ==
  /\ At(h, j, "loop") /\ ~Stopped(h)
  /\ LET w == next_cron_run(j, clock) IN
       /\ plan(j, w, j \in Contract)
       /\ task' = [task EXCEPT ![h][j] = [@ EXCEPT !.pc = "waiting", !.target = w]]
  /\ UNCHANGED <<clock, leader, phase, faults>>

(* Faulty variant: one long sleep that does not look at the stop event.    *)
wait_until_due_deaf(h, j) ==
  /\ At(h, j, "waiting")
  /\ task[h][j].target <= clock /\ Goto(h, j, "queued")
  /\ UNCHANGED <<clock, ledger, leader, phase, faults>>

(* wait_until_due polls the wall clock and the stop event.                  *)
wait_until_due(h, j) ==
  /\ At(h, j, "waiting")
  /\ \/ Stopped(h) /\ End(h, j, "done")
     \/ ~Stopped(h) /\ task[h][j].target <= clock /\ Goto(h, j, "queued")
  /\ UNCHANGED <<clock, ledger, leader, phase, faults>>

(* The source lock is acquired: stop, claim the window, or find it taken.   *)
QueueExit(h, j) ==
  /\ At(h, j, "queued") /\ LockFree(h, j) /\ Stopped(h)
  /\ End(h, j, "done")
  /\ UNCHANGED <<clock, ledger, leader, phase, faults>>

Claim(h, j) ==
  /\ At(h, j, "queued") /\ LockFree(h, j) /\ ~Stopped(h)
  /\ start(j, task[h][j].target)
  /\ Goto(h, j, "running")
  /\ UNCHANGED <<clock, leader, phase, faults>>

ClaimRefused(h, j) ==
  /\ At(h, j, "queued") /\ LockFree(h, j) /\ ~Stopped(h)
  /\ ledger[j][task[h][j].target].status # "scheduled"
  /\ Again(h, j)
  /\ UNCHANGED <<clock, ledger, leader, phase, faults>>

(* The job ended, by return or by exception: its outcome settles the row.   *)
FinishJob(h, j) ==
  /\ At(h, j, "running")
  /\ \E outcome \in Outcomes : finish(j, task[h][j].target, outcome)
  /\ Again(h, j)
  /\ UNCHANGED <<clock, leader, phase, faults>>

(* finish found the row no longer running and raised.                       *)
FinishRefused(h, j) ==
  /\ At(h, j, "running")
  /\ ledger[j][task[h][j].target].status # "running"
  /\ End(h, j, "failed")
  /\ UNCHANGED <<clock, ledger, leader, phase, faults>>

Startup(h, j) ==
  Observe(h, j) \/ Backfill(h, j) \/ ReconcileRead(h, j) \/ ReconcileWrite(h, j)

Dispatch(h, j) ==
  \/ LoopExit(h, j) \/ PlanNext(h, j) \/ wait_until_due(h, j)
  \/ QueueExit(h, j) \/ Claim(h, j) \/ ClaimRefused(h, j)
  \/ FinishJob(h, j) \/ FinishRefused(h, j)

Leaving(h) == TaskEnded(h) \/ HostExit(h) \/ HostUnwind(h) \/ HostCancelled(h)

Next ==
  \/ Tick
  \/ \E h \in Hosts :
       \/ StartHost(h) \/ StopSignal(h) \/ Leaving(h)
       \/ Crash(h) \/ DropDeadSession(h) \/ SessionLost(h)
       \/ \E j \in Jobs : Startup(h, j) \/ Dispatch(h, j) \/ DbError(h, j)

(* The wall clock advances; a live coroutine and a leaving host go on; the  *)
(* server drops a dead session; and the container is restarted.  Nothing is *)
(* assumed about signals and faults.                                        *)
Fairness ==
  /\ WF_vars(Tick)
  /\ WF_vars(\E h \in Hosts : StartHost(h))
  /\ \A h \in Hosts :
       /\ WF_vars(Leaving(h)) /\ WF_vars(DropDeadSession(h))
       /\ \A j \in Jobs : WF_vars(Startup(h, j)) /\ WF_vars(Dispatch(h, j))

Spec == Init /\ [][Next]_vars
FairSpec == Spec /\ Fairness

-----------------------------------------------------------------------------
(* Properties *)

TypeOK ==
  /\ clock \in 0..MaxClock
  /\ ledger \in [Jobs -> [Instants -> Row]]
  /\ leader \in Hosts \cup {NoHost}
  /\ phase \in [Hosts -> Phases]
  /\ task \in [Hosts -> [Jobs -> Task]]
  /\ faults \in Nat

(* Evidence never moves backwards: a planned window is never forgotten, a   *)
(* claimed one never becomes claimable again, a settled one never runs      *)
(* again.  This rests on the status guards of start and finish and holds    *)
(* with any number of hosts that believe they lead.                         *)
Rank(status) ==
  IF status = "absent" THEN 0 ELSE IF status = "scheduled" THEN 1
  ELSE IF status = "running" THEN 2 ELSE 3

EvidenceMovesForward ==
  [][\A j \in Jobs, w \in Instants :
       Rank(ledger[j][w].status) <= Rank(ledger'[j][w].status)]_vars

(* One window is never executed by two hosts, even when two believe they    *)
(* lead: the claim is one conditional UPDATE.                               *)
NoDoubleExecution ==
  \A g, h \in Hosts, j \in Jobs :
    /\ g # h /\ At(g, j, "running") /\ At(h, j, "running")
    => task[g][j].target # task[h][j].target

(* Two jobs of one source never run at the same time, on one host or two:   *)
(* the asyncio lock orders the coroutines of a host, the leadership lock    *)
(* the hosts, across crashes, restarts and graceful stops.                  *)
SourceExclusion ==
  \A g, h \in Hosts, i, j \in Jobs :
    /\ Source[i] = Source[j] /\ At(g, i, "running") /\ At(h, j, "running")
    => g = h /\ i = j

(* Once a coroutine has finished its startup, every expected window from    *)
(* the first row on that was due when it started has a row, and that row is *)
(* settled: gaps are materialized before they are reconciled.               *)
StartupSettled ==
  \A h \in Hosts, j \in Jobs : task[h][j].pc \in Dispatching =>
    \A w \in Expected(j) :
      w <= task[h][j].observed => ledger[j][w].status \in Terminal

(* A running row is being executed by a coroutine, or it was left by a host *)
(* that died and no coroutine of the job has finished its startup since.    *)
RunningIsExecuted ==
  \A j \in Jobs : \A w \in Rows(j, {"running"}) :
    \/ \E h \in Hosts : At(h, j, "running") /\ task[h][j].target = w
    \/ \A h \in Hosts : task[h][j].pc \notin Dispatching

(* The ledger implements the life cycle of a window: one claim, not early,  *)
(* and one verdict that is never revised.                                   *)
LifeCycle == INSTANCE WindowLifeCycle WITH
  status <- [j \in Jobs |-> [w \in Instants |-> ledger[j][w].status]]
ImplementsLifeCycle == LifeCycle!Spec

(* A settled window keeps its verdict.                                      *)
VerdictIsFinal ==
  [][\A j \in Jobs, w \in Instants : ledger[j][w].status \in Terminal =>
       ledger'[j][w].status = ledger[j][w].status]_vars

(* A claimed window is settled, by its own job or by the reconciliation of  *)
(* a later host.                                                            *)
RunningSettles ==
  \A j \in Jobs, w \in Instants :
    ledger[j][w].status = "running" ~> ledger[j][w].status \in Terminal

(* A host told to stop, or one of whose coroutines ended, leaves.           *)
StopCompletes == \A h \in Hosts : Stopped(h) ~> phase[h] = "down"
=============================================================================
