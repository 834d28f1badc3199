-------------------------- MODULE Scheduler_proofs --------------------------
(***************************************************************************)
(* Theorems about the durable scheduler, for any hosts, jobs, cron tables, *)
(* bounds and kinds of fault.                                              *)
(***************************************************************************)
EXTENDS Scheduler, TLAPS

(* The next run of a cron lies after the given instant, by one period at    *)
(* most: it is an instant of the ledger.                                    *)
LEMMA NextRunIsInstant ==
  ASSUME NEW j \in Jobs, NEW t \in 0..MaxClock
  PROVE  next_cron_run(j, t) \in Instants /\ next_cron_run(j, t) > t
<1> DEFINE p == Period[j]
           r == (t - Offset[j]) % p
<1>1. p \in Nat /\ p > 0 /\ t - Offset[j] \in Int
  BY CronAssumption, BoundAssumption
<1>2. r \in 0..(p - 1)
  BY <1>1
<1>3. next_cron_run(j, t) = t + p - r
  BY DEF next_cron_run
<1>4. t + p - r \in 0..(MaxClock + p) /\ t + p - r > t
  BY <1>1, <1>2, BoundAssumption
<1>5. QED
  BY <1>3, <1>4 DEF Instants

LEMMA ZeroIsInstant == ASSUME NEW j \in Jobs PROVE 0 \in Instants
BY CronAssumption, BoundAssumption DEF Instants

LEMMA InstantsAreNatural == Instants \subseteq Nat
BY CronAssumption, BoundAssumption DEF Instants

(* What the ledger statements do to the rows: their type is kept, and no    *)
(* row moves backwards.                                                     *)
Forward(old, new) ==
  \A j \in Jobs, w \in Instants : Rank(old[j][w].status) <= Rank(new[j][w].status)

Ledgers == [Jobs -> [Instants -> Row]]

LEMMA RankIsOrder ==
  ASSUME NEW s \in Statuses
  PROVE  /\ Rank(s) \in 0..3
         /\ (Rank(s) = 0) <=> (s = "absent")
         /\ (Rank(s) = 1) <=> (s = "scheduled")
         /\ (Rank(s) = 2) <=> (s = "running")
         /\ (Rank(s) = 3) <=> (s \in Terminal)
BY DEF Rank, Statuses, Terminal, Outcomes

LEMMA SameIsForward ==
  ASSUME ledger \in Ledgers PROVE Forward(ledger, ledger)
BY RankIsOrder DEF Forward, Ledgers, Row

(* Writing one row that is not behind the old one.                          *)
LEMMA PutRow ==
  ASSUME ledger \in Ledgers, NEW j \in Jobs, NEW w \in Instants, NEW row \in Row,
         Rank(ledger[j][w].status) <= Rank(row.status),
         ledger' = [ledger EXCEPT ![j] = [ledger[j] EXCEPT ![w] = row]]
  PROVE  ledger' \in Ledgers /\ Forward(ledger, ledger')
<1>1. ledger' \in Ledgers
  BY DEF Ledgers
<1>2. ASSUME NEW i \in Jobs, NEW v \in Instants
      PROVE  Rank(ledger[i][v].status) <= Rank(ledger'[i][v].status)
  <2>1. CASE i = j /\ v = w
    BY <2>1 DEF Ledgers
  <2>2. CASE ~(i = j /\ v = w)
    <3>1. ledger'[i][v] = ledger[i][v]
      BY <2>2 DEF Ledgers
    <3>2. ledger[i][v].status \in Statuses
      BY DEF Ledgers, Row
    <3>3. QED
      BY <3>1, <3>2, RankIsOrder
  <2>3. QED
    BY <2>1, <2>2
<1>3. QED
  BY <1>1, <1>2 DEF Forward

LEMMA PlanStep ==
  ASSUME ledger \in Ledgers, NEW j \in Jobs, NEW w \in Instants,
         NEW tagged \in BOOLEAN, plan(j, w, tagged)
  PROVE  ledger' \in Ledgers /\ Forward(ledger, ledger')
<1> DEFINE old == ledger[j][w]
           fresh == [status |-> "scheduled", started |-> NotStarted, tagged |-> tagged]
           merged == [old EXCEPT !.tagged = TRUE]
<1>1. old \in Row
  BY DEF Ledgers
<1>2. CASE old.status = "absent"
  <2>1. fresh \in Row /\ Rank(old.status) <= Rank(fresh.status)
    BY <1>2 DEF Row, Statuses, Rank
  <2>2. ledger' = [ledger EXCEPT ![j] = [ledger[j] EXCEPT ![w] = fresh]]
    BY <1>2 DEF plan
  <2>3. QED
    BY <2>1, <2>2, PutRow
<1>3. CASE old.status = "scheduled" /\ tagged
  <2>1. merged \in Row /\ merged.status = old.status
    BY <1>1 DEF Row
  <2>2. Rank(old.status) <= Rank(merged.status)
    BY <2>1, <1>1, RankIsOrder DEF Row
  <2>3. ledger' = [ledger EXCEPT ![j] = [ledger[j] EXCEPT ![w] = merged]]
    BY <1>3 DEF plan
  <2>4. QED
    BY <2>1, <2>2, <2>3, PutRow
<1>4. CASE old.status # "absent" /\ ~(old.status = "scheduled" /\ tagged)
  <2>1. ledger' = ledger
    BY <1>4 DEF plan
  <2>2. QED
    BY <2>1, SameIsForward
<1>5. QED
  BY <1>2, <1>3, <1>4

LEMMA StartStep ==
  ASSUME ledger \in Ledgers, clock \in Nat, NEW j \in Jobs, NEW w \in Instants,
         start(j, w)
  PROVE  ledger' \in Ledgers /\ Forward(ledger, ledger')
<1> DEFINE claimed == [ledger[j][w] EXCEPT !.status = "running", !.started = clock]
<1>0. ledger[j][w] \in Row /\ "running" \in Statuses
  BY DEF Ledgers, Statuses
<1>1. claimed \in Row /\ claimed.status = "running"
  BY <1>0 DEF Row
<1>2. Rank(ledger[j][w].status) <= Rank(claimed.status)
  BY <1>1 DEF start, Rank
<1>3. ledger' = [ledger EXCEPT ![j] = [ledger[j] EXCEPT ![w] = claimed]]
  BY DEF start
<1>4. QED
  BY <1>1, <1>2, <1>3, PutRow

LEMMA FinishStep ==
  ASSUME ledger \in Ledgers, NEW j \in Jobs, NEW w \in Instants,
         NEW outcome \in Outcomes, finish(j, w, outcome)
  PROVE  ledger' \in Ledgers /\ Forward(ledger, ledger')
<1> DEFINE settled == [ledger[j][w] EXCEPT !.status = outcome]
<1>0. ledger[j][w] \in Row /\ outcome \in Statuses
  BY DEF Ledgers, Statuses, Terminal
<1>1. settled \in Row /\ settled.status = outcome
  BY <1>0 DEF Row
<1>2. Rank(ledger[j][w].status) <= Rank(settled.status)
  <2>1. Rank(ledger[j][w].status) = 2
    BY DEF finish, Rank
  <2>2. outcome \in Statuses /\ outcome \in Terminal
    BY DEF Statuses, Terminal
  <2>3. QED
    BY <1>1, <2>1, <2>2, RankIsOrder
<1>3. ledger' = [ledger EXCEPT ![j] = [ledger[j] EXCEPT ![w] = settled]]
  BY DEF finish
<1>4. QED
  BY <1>1, <1>2, <1>3, PutRow

(* The unguarded write of a reconciliation: it only writes settled states.  *)
LEMMA ReconcileStep ==
  ASSUME ledger \in Ledgers, NEW j \in Jobs, NEW read, reconcile_write(j, read)
  PROVE  ledger' \in Ledgers /\ Forward(ledger, ledger')
<1>1. ASSUME NEW v \in Instants
      PROVE  /\ ledger'[j][v] \in Row
             /\ \/ ledger'[j][v].status = ledger[j][v].status
                \/ ledger'[j][v].status \in Terminal
  <2> DEFINE old == ledger[j][v]
  <2>1. old \in Row
    BY DEF Ledgers
  <2>2. ledger'[j][v] = IF v \in read.miss THEN [old EXCEPT !.status = "missed"]
                        ELSE IF v \in read.lost THEN [old EXCEPT !.status = "interrupted"]
                        ELSE old
    BY DEF reconcile_write, Ledgers
  <2>3. "missed" \in Statuses \cap Terminal /\ "interrupted" \in Statuses \cap Terminal
    BY DEF Statuses, Terminal
  <2>4. QED
    BY <2>1, <2>2, <2>3 DEF Row
<1>2. ledger' \in Ledgers
  BY <1>1 DEF reconcile_write, Ledgers
<1>3. ASSUME NEW i \in Jobs, NEW v \in Instants
      PROVE  Rank(ledger[i][v].status) <= Rank(ledger'[i][v].status)
  <2>1. ledger[i][v].status \in Statuses /\ ledger'[i][v].status \in Statuses
    BY <1>2 DEF Ledgers, Row
  <2>2. ledger'[i][v].status = ledger[i][v].status \/ ledger'[i][v].status \in Terminal
    <3>1. CASE i = j
      BY <3>1, <1>1
    <3>2. CASE i # j
      BY <3>2 DEF reconcile_write, Ledgers
    <3>3. QED
      BY <3>1, <3>2
  <2>3. QED
    BY <2>1, <2>2, RankIsOrder
<1>4. QED
  BY <1>2, <1>3 DEF Forward

-----------------------------------------------------------------------------
(* Types of the coroutines' locals.                                         *)

Tasks == [Hosts -> [Jobs -> Task]]

LEMMA IdleIsTask ==
  ASSUME NEW j \in Jobs, NEW label \in Labels
  PROVE  Idle(label) \in Task /\ Idle(label).pc = label
BY ZeroIsInstant DEF Idle, Task

LEMMA PutTask ==
  ASSUME task \in Tasks, NEW h \in Hosts, NEW j \in Jobs, NEW t \in Task,
         task' = [task EXCEPT ![h] = [task[h] EXCEPT ![j] = t]]
  PROVE  task' \in Tasks
BY DEF Tasks

LEMMA PutHost ==
  ASSUME task \in Tasks, NEW h \in Hosts, NEW label \in Labels,
         task' = [task EXCEPT ![h] = [j \in Jobs |-> Idle(label)]]
  PROVE  task' \in Tasks
BY IdleIsTask DEF Tasks

LEMMA GotoStep ==
  ASSUME task \in Tasks, NEW h \in Hosts, NEW j \in Jobs, NEW label \in Labels,
         Goto(h, j, label)
  PROVE  task' \in Tasks
<1> DEFINE t == [task[h][j] EXCEPT !.pc = label]
<1>1. task[h][j] \in Task
  BY DEF Tasks
<1>2. t \in Task
  BY <1>1 DEF Task
<1>3. task' = [task EXCEPT ![h] = [task[h] EXCEPT ![j] = t]]
  BY DEF Goto
<1>4. QED
  BY <1>2, <1>3, PutTask

LEMMA AgainStep ==
  ASSUME task \in Tasks, NEW h \in Hosts, NEW j \in Jobs, Again(h, j)
  PROVE  task' \in Tasks
<1> DEFINE t == [task[h][j] EXCEPT !.pc = "loop", !.target = 0]
<1>1. task[h][j] \in Task /\ 0 \in Instants /\ "loop" \in Labels
  BY ZeroIsInstant DEF Tasks, Labels
<1>2. t \in Task
  BY <1>1 DEF Task
<1>3. task' = [task EXCEPT ![h] = [task[h] EXCEPT ![j] = t]]
  BY DEF Again
<1>4. QED
  BY <1>2, <1>3, PutTask

LEMMA EndStep ==
  ASSUME task \in Tasks, NEW h \in Hosts, NEW j \in Jobs, NEW label \in Labels,
         task' = [task EXCEPT ![h][j] = Idle(label)]
  PROVE  task' \in Tasks
BY IdleIsTask, PutTask

-----------------------------------------------------------------------------
(* One lemma per step of a coroutine: the types of what it writes.          *)

Typed == ledger' \in Ledgers /\ Forward(ledger, ledger') /\ task' \in Tasks

LEMMA StartupStep ==
  ASSUME TypeOK, NEW h \in Hosts, NEW j \in Jobs, Startup(h, j)
  PROVE  Typed
<1>0. /\ ledger \in Ledgers /\ task \in Tasks /\ clock \in Nat
      /\ task[h][j] \in Task
      /\ {"backfill", "reconcile", "loop"} \subseteq Labels
  BY BoundAssumption DEF TypeOK, Ledgers, Tasks, Labels
<1>1. CASE Observe(h, j)
  <2> DEFINE t == [Idle("backfill") EXCEPT !.observed = clock, !.gap = Gap(j, clock)]
  <2>1. Gap(j, clock) \subseteq Instants
    BY DEF Gap, Expected
  <2>2. Idle("backfill") \in Task
    BY <1>0, IdleIsTask
  <2>3. t \in Task
    BY <1>0, <2>1, <2>2 DEF Task
  <2>4. task' = [task EXCEPT ![h] = [task[h] EXCEPT ![j] = t]] /\ ledger' = ledger
    BY <1>1 DEF Observe
  <2>5. QED
    BY <1>0, <2>3, <2>4, PutTask, SameIsForward DEF Typed
<1>2. CASE Backfill(h, j)
  <2>1. PICK w \in task[h][j].gap :
          /\ plan(j, w, FALSE)
          /\ task' = [task EXCEPT ![h][j].gap = @ \ {w}]
    BY <1>2 DEF Backfill
  <2> DEFINE t == [task[h][j] EXCEPT !.gap = task[h][j].gap \ {w}]
  <2>2. w \in Instants /\ task[h][j].gap \subseteq Instants
    BY <1>0 DEF Task
  <2>3. t \in Task
    BY <1>0, <2>2 DEF Task
  <2>4. task' = [task EXCEPT ![h] = [task[h] EXCEPT ![j] = t]]
    BY <2>1
  <2>5. QED
    BY <1>0, <2>1, <2>2, <2>3, <2>4, PutTask, PlanStep DEF Typed
<1>3. CASE ReconcileRead(h, j)
  <2> DEFINE read == reconcile_read(j, task[h][j].observed)
             t == [task[h][j] EXCEPT !.pc = "reconcile", !.miss = read.miss, !.lost = read.lost]
  <2>1. read.miss \subseteq Instants /\ read.lost \subseteq Instants
    BY DEF reconcile_read, Rows
  <2>2. t \in Task
    BY <1>0, <2>1 DEF Task
  <2>3. task' = [task EXCEPT ![h] = [task[h] EXCEPT ![j] = t]] /\ ledger' = ledger
    BY <1>3 DEF ReconcileRead
  <2>4. QED
    BY <1>0, <2>2, <2>3, PutTask, SameIsForward DEF Typed
<1>4. CASE ReconcileWrite(h, j)
  <2> DEFINE t == [task[h][j] EXCEPT !.pc = "loop", !.miss = {}, !.lost = {}]
  <2>1. t \in Task
    BY <1>0 DEF Task
  <2>2. task' = [task EXCEPT ![h] = [task[h] EXCEPT ![j] = t]]
    BY <1>4 DEF ReconcileWrite
  <2>3. ledger' \in Ledgers /\ Forward(ledger, ledger')
    BY <1>0, <1>4, ReconcileStep DEF ReconcileWrite
  <2>4. QED
    BY <1>0, <2>1, <2>2, <2>3, PutTask DEF Typed
<1>5. QED
  BY <1>1, <1>2, <1>3, <1>4 DEF Startup

LEMMA DispatchStep ==
  ASSUME TypeOK, NEW h \in Hosts, NEW j \in Jobs, Dispatch(h, j)
  PROVE  Typed
<1>0. /\ ledger \in Ledgers /\ task \in Tasks /\ clock \in Nat /\ clock \in 0..MaxClock
      /\ task[h][j] \in Task /\ task[h][j].target \in Instants
      /\ {"waiting", "queued", "running", "done", "failed"} \subseteq Labels
  BY BoundAssumption DEF TypeOK, Ledgers, Tasks, Task, Labels
<1>1. CASE LoopExit(h, j) \/ QueueExit(h, j) \/ FinishRefused(h, j)
  <2>1. ledger' = ledger /\ (End(h, j, "done") \/ End(h, j, "failed"))
    BY <1>1 DEF LoopExit, QueueExit, FinishRefused
  <2>2. QED
    BY <1>0, <2>1, EndStep, SameIsForward DEF End, Typed
<1>2. CASE PlanNext(h, j)
  <2> DEFINE w == next_cron_run(j, clock)
             t == [task[h][j] EXCEPT !.pc = "waiting", !.target = w]
  <2>1. w \in Instants
    BY <1>0, NextRunIsInstant
  <2>2. t \in Task
    BY <1>0, <2>1 DEF Task
  <2>3. task' = [task EXCEPT ![h] = [task[h] EXCEPT ![j] = t]]
    BY <1>2 DEF PlanNext
  <2>4. plan(j, w, j \in Contract) /\ (j \in Contract) \in BOOLEAN
    BY <1>2 DEF PlanNext
  <2>5. QED
    BY <1>0, <2>1, <2>2, <2>3, <2>4, PutTask, PlanStep DEF Typed
<1>3. CASE wait_until_due(h, j)
  <2>1. ledger' = ledger /\ (End(h, j, "done") \/ Goto(h, j, "queued"))
    BY <1>3 DEF wait_until_due
  <2>2. QED
    BY <1>0, <2>1, EndStep, GotoStep, SameIsForward DEF End, Typed
<1>4. CASE Claim(h, j)
  BY <1>0, <1>4, StartStep, GotoStep DEF Claim, Typed
<1>5. CASE ClaimRefused(h, j)
  BY <1>0, <1>5, AgainStep, SameIsForward DEF ClaimRefused, Typed
<1>6. CASE FinishJob(h, j)
  BY <1>0, <1>6, FinishStep, AgainStep DEF FinishJob, Typed
<1>7. QED
  BY <1>1, <1>2, <1>3, <1>4, <1>5, <1>6 DEF Dispatch

HostStep(h) ==
  \/ StartHost(h) \/ StopSignal(h) \/ Leaving(h)
  \/ Crash(h) \/ DropDeadSession(h) \/ SessionLost(h)

LEMMA HostStepTyped ==
  ASSUME TypeOK, NEW h \in Hosts, HostStep(h)
  PROVE  Typed /\ ledger' = ledger
<1>0. ledger \in Ledgers /\ task \in Tasks /\ {"off", "observe"} \subseteq Labels
  BY DEF TypeOK, Ledgers, Tasks, Labels
<1>1. ledger' = ledger
  BY DEF HostStep, StartHost, StopSignal, Leaving, TaskEnded, HostExit, HostUnwind,
         HostCancelled, Leave, Crash, DropDeadSession, SessionLost
<1>2. \/ task' = task
      \/ task' = [task EXCEPT ![h] = [j \in Jobs |-> Idle("observe")]]
      \/ task' = [task EXCEPT ![h] = [j \in Jobs |-> Idle("off")]]
  BY DEF HostStep, StartHost, StopSignal, Leaving, TaskEnded, HostExit, HostUnwind,
         HostCancelled, Leave, Crash, DropDeadSession, SessionLost
<1>3. task' \in Tasks
  BY <1>0, <1>2, PutHost
<1>4. QED
  BY <1>0, <1>1, <1>3, SameIsForward DEF Typed

LEMMA ErrorStepTyped ==
  ASSUME TypeOK, NEW h \in Hosts, NEW j \in Jobs, DbError(h, j)
  PROVE  Typed /\ ledger' = ledger
<1>1. /\ ledger \in Ledgers /\ task \in Tasks /\ "failed" \in Labels
      /\ ledger' = ledger /\ task' = [task EXCEPT ![h][j] = Idle("failed")]
  BY DEF TypeOK, Ledgers, Tasks, Labels, DbError
<1>2. QED
  BY <1>1, EndStep, SameIsForward DEF Typed

(* Every step of the system keeps the rows typed and moves none backwards.  *)
LEMMA NextTyped ==
  ASSUME TypeOK, [Next]_vars
  PROVE  Typed
<1>0. ledger \in Ledgers /\ task \in Tasks
  BY DEF TypeOK, Ledgers, Tasks
<1>1. CASE Tick \/ UNCHANGED vars
  BY <1>0, <1>1, SameIsForward DEF Tick, vars, Typed
<1>2. ASSUME NEW h \in Hosts, HostStep(h)
      PROVE  Typed
  BY <1>2, HostStepTyped
<1>3. ASSUME NEW h \in Hosts, NEW j \in Jobs, Startup(h, j) \/ Dispatch(h, j) \/ DbError(h, j)
      PROVE  Typed
  BY <1>3, StartupStep, DispatchStep, ErrorStepTyped
<1>4. QED
  BY <1>1, <1>2, <1>3 DEF Next, HostStep

(* The clock, the lock, the phases and the fault counter.                   *)
Frame ==
  /\ clock \in 0..MaxClock
  /\ leader \in Hosts \cup {NoHost}
  /\ phase \in [Hosts -> Phases]
  /\ faults \in Nat

LEMMA NextFrame ==
  ASSUME TypeOK, [Next]_vars
  PROVE  Frame'
<1>0. Frame
  BY DEF TypeOK, Frame
<1>1. CASE Tick
  BY <1>0, <1>1, BoundAssumption DEF Tick, Frame
<1>2. CASE UNCHANGED vars
  BY <1>0, <1>2 DEF vars, Frame
<1>3. ASSUME NEW h \in Hosts, HostStep(h)
      PROVE  Frame'
  <2>1. /\ clock' = clock
        /\ faults' \in {faults, faults + 1}
        /\ leader' \in {leader, h, NoHost}
        /\ \/ phase' = phase
           \/ \E p \in Phases : phase' = [phase EXCEPT ![h] = p]
    BY <1>3 DEF HostStep, StartHost, StopSignal, Leaving, TaskEnded, HostExit, HostUnwind,
         HostCancelled, Leave, Unlocked, Crash, DropDeadSession, SessionLost, Inject, Phases
  <2>2. QED
    BY <1>0, <2>1 DEF Frame
<1>4. ASSUME NEW h \in Hosts, NEW j \in Jobs, Startup(h, j)
      PROVE  Frame'
  BY <1>0, <1>4 DEF Startup, Observe, Backfill, ReconcileRead, ReconcileWrite, Frame
<1>5. ASSUME NEW h \in Hosts, NEW j \in Jobs, Dispatch(h, j)
      PROVE  Frame'
  BY <1>0, <1>5 DEF Dispatch, LoopExit, PlanNext, wait_until_due, QueueExit, Claim,
         ClaimRefused, FinishJob, FinishRefused, Frame
<1>6. ASSUME NEW h \in Hosts, NEW j \in Jobs, DbError(h, j)
      PROVE  Frame'
  BY <1>0, <1>6 DEF DbError, Inject, Frame
<1>7. QED
  BY <1>1, <1>2, <1>3, <1>4, <1>5, <1>6 DEF Next, HostStep

LEMMA InitTyped == ASSUME Init PROVE TypeOK
<1>1. Absent \in Row
  BY DEF Absent, Row, Statuses, NotStarted
<1>2. ledger \in Ledgers
  BY <1>1 DEF Init, Ledgers
<1>3. task \in Tasks
  BY IdleIsTask DEF Init, Tasks, Labels
<1>4. QED
  BY <1>2, <1>3, BoundAssumption DEF Init, TypeOK, Ledgers, Tasks, Phases

(* Every variable keeps its type.                                           *)
THEOREM TypeCorrect == Spec => []TypeOK
<1>1. TypeOK /\ [Next]_vars => TypeOK'
  BY NextTyped, NextFrame DEF Typed, Frame, TypeOK, Ledgers, Tasks
<1>2. QED
  BY InitTyped, <1>1, PTL DEF Spec

(* No row of the ledger ever moves backwards, with any number of hosts that *)
(* believe they lead and under every kind of fault.                         *)
THEOREM EvidenceForward == Spec => EvidenceMovesForward
<1>1. TypeOK /\ [Next]_vars =>
        [\A j \in Jobs, w \in Instants :
           Rank(ledger[j][w].status) <= Rank(ledger'[j][w].status)]_vars
  BY NextTyped DEF Typed, Forward
<1>2. QED
  BY <1>1, TypeCorrect, PTL DEF Spec, EvidenceMovesForward

-----------------------------------------------------------------------------
(* Exclusive execution.  The window a coroutine runs was claimed, and a     *)
(* claimed window is never claimable again: a second claim cannot succeed.  *)

ClaimedRank == \A h \in Hosts, j \in Jobs :
  At(h, j, "running") => Rank(ledger[j][task[h][j].target].status) >= 2

ExclusionInv == TypeOK /\ ClaimedRank /\ NoDoubleExecution

(* A step makes at most one coroutine start to run, and it does so by       *)
(* claiming a window that was scheduled.                                    *)
Keeps(h, j) ==
  At(h, j, "running")' => At(h, j, "running") /\ task'[h][j].target = task[h][j].target

LEMMA RunningStep ==
  ASSUME TypeOK, [Next]_vars
  PROVE  \/ \A h \in Hosts, j \in Jobs : Keeps(h, j)
         \/ \E g \in Hosts, i \in Jobs :
              /\ ledger[i][task[g][i].target].status = "scheduled"
              /\ ledger'[i][task[g][i].target].status = "running"
              /\ task'[g][i].target = task[g][i].target
              /\ \A h \in Hosts, j \in Jobs :
                   ~(h = g /\ j = i) => task'[h][j] = task[h][j]
<1>0. task \in Tasks /\ ledger \in Ledgers
  BY DEF TypeOK, Tasks, Ledgers
<1>1. CASE Tick \/ UNCHANGED vars
  BY <1>1 DEF Tick, vars, Keeps, At
<1>2. ASSUME NEW g \in Hosts, HostStep(g)
      PROVE  \A h \in Hosts, j \in Jobs : Keeps(h, j)
  <2>1. \/ task' = task
        \/ \E label \in {"off", "observe"} :
             task' = [task EXCEPT ![g] = [j \in Jobs |-> Idle(label)]]
    BY <1>2 DEF HostStep, StartHost, StopSignal, Leaving, TaskEnded, HostExit, HostUnwind,
         HostCancelled, Leave, Crash, DropDeadSession, SessionLost
  <2>2. QED
    BY <1>0, <2>1 DEF Tasks, Keeps, At, Idle
<1>3. ASSUME NEW g \in Hosts, NEW i \in Jobs,
             Startup(g, i) \/ DbError(g, i) \/ (Dispatch(g, i) /\ ~Claim(g, i))
      PROVE  \A h \in Hosts, j \in Jobs : Keeps(h, j)
  <2>1. /\ \A h \in Hosts, j \in Jobs : ~(h = g /\ j = i) => task'[h][j] = task[h][j]
        /\ \/ task'[g][i] = task[g][i]
           \/ task'[g][i].pc # "running"
    <3>1. task[g][i] \in Task
      BY <1>0 DEF Tasks
    <3>2. CASE Startup(g, i)
      <4>1. CASE Observe(g, i)
        BY <1>0, <4>1 DEF Tasks, Observe, Idle
      <4>2. CASE Backfill(g, i)
        BY <1>0, <3>1, <4>2 DEF Tasks, Task, Backfill, At
      <4>3. CASE ReconcileRead(g, i)
        BY <1>0, <3>1, <4>3 DEF Tasks, Task, ReconcileRead
      <4>4. CASE ReconcileWrite(g, i)
        BY <1>0, <3>1, <4>4 DEF Tasks, Task, ReconcileWrite
      <4>5. QED
        BY <3>2, <4>1, <4>2, <4>3, <4>4 DEF Startup
    <3>3. CASE DbError(g, i)
      BY <1>0, <3>3 DEF Tasks, DbError, Idle
    <3>4. CASE Dispatch(g, i) /\ ~Claim(g, i)
      <4>1. \/ \E label \in {"done", "failed"} : End(g, i, label)
            \/ Goto(g, i, "queued")
            \/ Again(g, i)
            \/ PlanNext(g, i)
        BY <3>4 DEF Dispatch, LoopExit, wait_until_due, QueueExit, ClaimRefused,
           FinishJob, FinishRefused
      <4>2. CASE \E label \in {"done", "failed"} : End(g, i, label)
        BY <1>0, <4>2 DEF Tasks, End, Idle
      <4>3. CASE Goto(g, i, "queued")
        BY <1>0, <3>1, <4>3 DEF Tasks, Task, Goto
      <4>4. CASE Again(g, i)
        BY <1>0, <3>1, <4>4 DEF Tasks, Task, Again
      <4>5. CASE PlanNext(g, i)
        BY <1>0, <3>1, <4>5 DEF Tasks, Task, PlanNext
      <4>6. QED
        BY <4>1, <4>2, <4>3, <4>4, <4>5
    <3>5. QED
      BY <1>3, <3>2, <3>3, <3>4
  <2>2. QED
    BY <2>1 DEF Keeps, At
<1>4. ASSUME NEW g \in Hosts, NEW i \in Jobs, Claim(g, i)
      PROVE  /\ ledger[i][task[g][i].target].status = "scheduled"
             /\ ledger'[i][task[g][i].target].status = "running"
             /\ task'[g][i].target = task[g][i].target
             /\ \A h \in Hosts, j \in Jobs :
                  ~(h = g /\ j = i) => task'[h][j] = task[h][j]
  <2>1. task[g][i] \in Task /\ task[g][i].target \in Instants
    BY <1>0 DEF Tasks, Task
  <2>2. start(i, task[g][i].target) /\ Goto(g, i, "running")
    BY <1>4 DEF Claim
  <2>3. QED
    BY <1>0, <2>1, <2>2 DEF start, Goto, Tasks, Task, Ledgers, Row
<1>5. QED
  BY <1>1, <1>2, <1>3, <1>4 DEF Next, HostStep

(* One window is never executed by two hosts, under every kind of fault.    *)
THEOREM ExclusiveExecution == Spec => []NoDoubleExecution
<1>1. Init => ExclusionInv
  BY InitTyped DEF Init, ExclusionInv, ClaimedRank, NoDoubleExecution, At, Idle
<1>2. ExclusionInv /\ [Next]_vars => ExclusionInv'
  <2> SUFFICES ASSUME ExclusionInv, [Next]_vars PROVE ExclusionInv'
    OBVIOUS
  <2>0. TypeOK /\ TypeOK' /\ Forward(ledger, ledger')
    BY NextTyped, NextFrame DEF ExclusionInv, Typed, Frame, TypeOK, Ledgers, Tasks
  <2>1. ASSUME NEW h \in Hosts, NEW j \in Jobs
        PROVE  /\ task[h][j].target \in Instants
               /\ \A w \in Instants : /\ Rank(ledger[j][w].status) \in 0..3
                                      /\ Rank(ledger'[j][w].status) \in 0..3
                                      /\ Rank(ledger[j][w].status) <= Rank(ledger'[j][w].status)
    BY <2>0, RankIsOrder DEF TypeOK, Task, Row, Forward
  <2>2. CASE \A h \in Hosts, j \in Jobs : Keeps(h, j)
    <3>1. ClaimedRank'
      BY <2>1, <2>2 DEF ExclusionInv, ClaimedRank, Keeps, At
    <3>2. NoDoubleExecution'
      BY <2>2 DEF ExclusionInv, NoDoubleExecution, Keeps, At
    <3>3. QED
      BY <2>0, <3>1, <3>2 DEF ExclusionInv
  <2>3. ASSUME NEW g \in Hosts, NEW i \in Jobs,
               ledger[i][task[g][i].target].status = "scheduled",
               ledger'[i][task[g][i].target].status = "running",
               task'[g][i].target = task[g][i].target,
               \A h \in Hosts, j \in Jobs : ~(h = g /\ j = i) => task'[h][j] = task[h][j]
        PROVE  ExclusionInv'
    <3>1. Rank("running") = 2 /\ Rank("scheduled") = 1
      BY DEF Rank
    <3>2. ASSUME NEW h \in Hosts, h # g, At(h, i, "running")
          PROVE  task[h][i].target # task[g][i].target
      BY <2>3, <3>1, <3>2 DEF ExclusionInv, ClaimedRank
    <3>3. ClaimedRank'
      <4> SUFFICES ASSUME NEW h \in Hosts, NEW j \in Jobs, At(h, j, "running")'
                   PROVE  Rank(ledger'[j][task'[h][j].target].status) >= 2
        BY DEF ClaimedRank
      <4>1. CASE h = g /\ j = i
        BY <2>3, <3>1, <4>1
      <4>2. CASE ~(h = g /\ j = i)
        BY <2>1, <2>3, <4>2 DEF ExclusionInv, ClaimedRank, At
      <4>3. QED
        BY <4>1, <4>2
    <3>4. NoDoubleExecution'
      <4> SUFFICES ASSUME NEW f \in Hosts, NEW h \in Hosts, NEW j \in Jobs, f # h,
                          At(f, j, "running")', At(h, j, "running")'
                   PROVE  task'[f][j].target # task'[h][j].target
        BY DEF NoDoubleExecution
      <4>1. CASE j # i \/ (f # g /\ h # g)
        BY <2>3, <4>1 DEF ExclusionInv, NoDoubleExecution, At
      <4>2. CASE j = i /\ (f = g \/ h = g)
        BY <2>3, <3>2, <4>2 DEF At
      <4>3. QED
        BY <4>1, <4>2
    <3>5. QED
      BY <2>0, <3>3, <3>4 DEF ExclusionInv
  <2>4. QED
    BY <2>2, <2>3, RunningStep DEF ExclusionInv
<1>3. ExclusionInv => NoDoubleExecution
  BY DEF ExclusionInv
<1>4. QED
  BY <1>1, <1>2, <1>3, PTL DEF Spec
=============================================================================
