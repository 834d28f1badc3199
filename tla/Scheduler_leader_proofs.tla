----------------------- MODULE Scheduler_leader_proofs -----------------------
(***************************************************************************)
(* Theorems about the scheduler as long as the leadership session lives:   *)
(* processes may crash and restart, but no living host loses its advisory  *)
(* lock and no ledger statement raises.                                    *)
(***************************************************************************)
EXTENDS Scheduler_proofs, SchedulerPunctuality, FiniteSetTheorems, WellFoundedInduction

CrashesOnly == Faults \subseteq {"crash"}

(* The inductive invariant: a living host leads, the coroutines of others   *)
(* are gone, none has failed, and what a coroutine runs is a running row.   *)
LeaderInv ==
  /\ \A h \in Hosts : Live(h) => leader = h /\ phase[h] # "unwinding"
  /\ \A h \in Hosts, j \in Jobs :
       /\ task[h][j].pc # "failed"
       /\ task[h][j].pc # "off" => Live(h)
       /\ At(h, j, "running") => ledger[j][task[h][j].target].status = "running"
  /\ \A h \in Hosts, i, j \in Jobs :
       Source[i] = Source[j] /\ At(h, i, "running") /\ At(h, j, "running") => i = j

(* What one step of the coroutine (h, j) leaves alone, and how it may come  *)
(* to run a job.                                                            *)
Alone(h, j) ==
  /\ clock' = clock /\ leader' = leader /\ phase' = phase
  /\ \A g \in Hosts, i \in Jobs : g # h \/ i # j => task'[g][i] = task[g][i]
  /\ \A i \in Jobs \ {j} : ledger'[i] = ledger[i]

LEMMA StartupAlone ==
  ASSUME TypeOK, NEW h \in Hosts, NEW j \in Jobs, Startup(h, j)
  PROVE  /\ Alone(h, j)
         /\ task[h][j].pc \in {"observe", "backfill", "reconcile"}
         /\ task'[h][j].pc \in {"backfill", "reconcile", "loop"}
<1>0. ledger \in Ledgers /\ task \in Tasks /\ task[h][j] \in Task
  BY DEF TypeOK, Ledgers, Tasks
<1>1. CASE Observe(h, j)
  BY <1>0, <1>1 DEF Observe, At, Idle, Alone, Tasks, Task
<1>2. CASE Backfill(h, j)
  <2>1. PICK w \in task[h][j].gap :
          /\ plan(j, w, FALSE)
          /\ task' = [task EXCEPT ![h][j].gap = @ \ {w}]
    BY <1>2 DEF Backfill
  <2>2. \A i \in Jobs \ {j} : ledger'[i] = ledger[i]
    BY <1>0, <2>1 DEF plan, Ledgers
  <2>3. QED
    BY <1>0, <1>2, <2>1, <2>2 DEF Backfill, At, Alone, Tasks, Task
<1>3. CASE ReconcileRead(h, j)
  BY <1>0, <1>3 DEF ReconcileRead, At, Alone, Tasks, Task
<1>4. CASE ReconcileWrite(h, j)
  BY <1>0, <1>4 DEF ReconcileWrite, reconcile_write, At, Alone, Tasks, Task, Ledgers
<1>5. QED
  BY <1>1, <1>2, <1>3, <1>4 DEF Startup

LEMMA DispatchAlone ==
  ASSUME TypeOK, NEW h \in Hosts, NEW j \in Jobs, Dispatch(h, j)
  PROVE  /\ Alone(h, j)
         /\ task[h][j].pc \in Dispatching
         /\ task'[h][j].pc \in Dispatching \cup Ended
         /\ task'[h][j].pc = "failed" =>
              /\ At(h, j, "running")
              /\ ledger[j][task[h][j].target].status # "running"
         /\ task'[h][j].pc = "running" =>
              /\ LockFree(h, j) /\ start(j, task'[h][j].target)
<1>0. ledger \in Ledgers /\ task \in Tasks /\ task[h][j] \in Task
  BY DEF TypeOK, Ledgers, Tasks
<1> USE DEF At, Alone, Dispatching, Ended
<1>1. CASE LoopExit(h, j) \/ QueueExit(h, j) \/ FinishRefused(h, j)
  BY <1>0, <1>1 DEF LoopExit, QueueExit, FinishRefused, End, Idle, Tasks
<1>2. CASE PlanNext(h, j)
  <2> DEFINE w == next_cron_run(j, clock)
  <2>1. \A i \in Jobs \ {j} : ledger'[i] = ledger[i]
    BY <1>0, <1>2 DEF PlanNext, plan, Ledgers
  <2>2. task' = [task EXCEPT ![h][j] = [@ EXCEPT !.pc = "waiting", !.target = w]]
    BY <1>2 DEF PlanNext
  <2>3. QED
    BY <1>0, <1>2, <2>1, <2>2 DEF PlanNext, Tasks, Task
<1>3. CASE wait_until_due(h, j)
  BY <1>0, <1>3 DEF wait_until_due, End, Goto, Idle, Tasks, Task
<1>4. CASE Claim(h, j)
  BY <1>0, <1>4 DEF Claim, start, Goto, Tasks, Task, Ledgers
<1>5. CASE ClaimRefused(h, j)
  BY <1>0, <1>5 DEF ClaimRefused, Again, Tasks, Task
<1>6. CASE FinishJob(h, j)
  BY <1>0, <1>6 DEF FinishJob, finish, Again, Tasks, Task, Ledgers
<1>7. QED
  BY <1>1, <1>2, <1>3, <1>4, <1>5, <1>6 DEF Dispatch

LEMMA RunningClaim ==
  ASSUME TypeOK, NEW j \in Jobs, NEW w \in Instants, start(j, w)
  PROVE  ledger'[j][w].status = "running"
BY DEF start, TypeOK, Row

(* The coroutine that steps belongs to the leader, so no other coroutine of *)
(* its job exists.                                                          *)
LEMMA OnlyLeader ==
  ASSUME LeaderInv, NEW h \in Hosts, NEW j \in Jobs, task[h][j].pc # "off",
         NEW g \in Hosts, NEW i \in Jobs, task[g][i].pc # "off"
  PROVE  g = h /\ leader = h
BY DEF LeaderInv

LEMMA CoroutineLeads ==
  ASSUME TypeOK, LeaderInv, NEW h \in Hosts, NEW j \in Jobs,
         Startup(h, j) \/ Dispatch(h, j)
  PROVE  LeaderInv'
<1>1. /\ Alone(h, j)
      /\ task[h][j].pc # "off" /\ task'[h][j].pc # "off"
      /\ task'[h][j].pc = "failed" =>
           /\ At(h, j, "running")
           /\ ledger[j][task[h][j].target].status # "running"
      /\ task'[h][j].pc = "running" =>
           /\ LockFree(h, j) /\ start(j, task'[h][j].target)
  BY StartupAlone, DispatchAlone DEF Dispatching, Ended
<1>2. \A g \in Hosts : Live(g)' => leader' = g /\ phase'[g] # "unwinding"
  BY <1>1 DEF LeaderInv, Alone, Live
<1>3. ASSUME NEW g \in Hosts, NEW i \in Jobs
      PROVE  /\ task'[g][i].pc # "failed"
             /\ task'[g][i].pc # "off" => Live(g)'
             /\ At(g, i, "running")' => ledger'[i][task'[g][i].target].status = "running"
  <2>1. CASE g = h /\ i = j
    <3>1. task'[h][j].pc # "failed" /\ Live(h)'
      BY <1>1 DEF LeaderInv, Alone, Live
    <3>2. ASSUME task'[h][j].pc = "running"
          PROVE  ledger'[j][task'[h][j].target].status = "running"
      <4>1. task'[h][j].target \in Instants
        BY StartupStep, DispatchStep DEF Typed, Tasks, Task
      <4>2. start(j, task'[h][j].target)
        BY <1>1, <3>2
      <4>3. QED
        BY <4>1, <4>2, RunningClaim
    <3>3. QED
      BY <2>1, <3>1, <3>2 DEF At
  <2>2. CASE ~(g = h /\ i = j)
    <3>1. task'[g][i] = task[g][i] /\ (Live(g)' <=> Live(g))
      BY <1>1, <2>2 DEF Alone, Live
    <3>2. task[g][i].pc # "off" => i # j
      BY <1>1, <2>2, OnlyLeader
    <3>3. i # j => ledger'[i] = ledger[i]
      BY <1>1 DEF Alone
    <3>4. QED
      BY <3>1, <3>2, <3>3 DEF LeaderInv, At
  <2>3. QED
    BY <2>1, <2>2
<1>4. ASSUME NEW g \in Hosts, NEW i \in Jobs, NEW k \in Jobs,
             Source[i] = Source[k], At(g, i, "running")', At(g, k, "running")'
      PROVE  i = k
  <2>1. CASE g = h /\ (i = j \/ k = j)
    BY <1>1, <1>4, <2>1 DEF LockFree, At, Alone
  <2>2. CASE ~(g = h /\ (i = j \/ k = j))
    BY <1>1, <1>4, <2>2 DEF LeaderInv, At, Alone
  <2>3. QED
    BY <2>1, <2>2
<1>5. QED
  BY <1>2, <1>3, <1>4 DEF LeaderInv

LEMMA HostLeads ==
  ASSUME TypeOK, CrashesOnly, LeaderInv, NEW h \in Hosts, HostStep(h)
  PROVE  LeaderInv'
<1>0. /\ task \in Tasks /\ phase \in [Hosts -> Phases] /\ ledger' = ledger
      /\ leader \in Hosts \cup {NoHost}
  BY HostStepTyped DEF TypeOK, Tasks
<1>1. ~TaskEnded(h) /\ ~HostUnwind(h) /\ ~HostCancelled(h) /\ ~SessionLost(h)
  BY DEF LeaderInv, Live, CrashesOnly, TaskEnded, HostUnwind, HostCancelled, SessionLost, Inject
<1>2. CASE StartHost(h)
  <2>1. \A g \in Hosts : ~Live(g)
    BY <1>2, HostAssumption DEF StartHost, LeaderInv
  <2>2. /\ leader' = h /\ phase' = [phase EXCEPT ![h] = "up"]
        /\ task' = [task EXCEPT ![h] = [j \in Jobs |-> Idle("observe")]]
    BY <1>2 DEF StartHost
  <2>3. QED
    BY <1>0, <2>1, <2>2 DEF LeaderInv, Live, At, Idle, Tasks
<1>3. CASE StopSignal(h)
  BY <1>0, <1>3 DEF StopSignal, LeaderInv, Live, At
<1>4. CASE HostExit(h) \/ Crash(h)
  <2>1. /\ Live(h) /\ phase' = [phase EXCEPT ![h] = "down"]
        /\ task' = [task EXCEPT ![h] = [j \in Jobs |-> Idle("off")]]
        /\ leader' \in {leader, Unlocked(h)}
    BY <1>4 DEF HostExit, Leave, Crash, Live
  <2>2. \A g \in Hosts : Live(g) => g = h
    BY <2>1 DEF LeaderInv
  <2>3. QED
    BY <1>0, <2>1, <2>2 DEF LeaderInv, Live, At, Idle, Tasks
<1>5. CASE DropDeadSession(h)
  BY <1>0, <1>5 DEF DropDeadSession, LeaderInv, Live, At
<1>6. QED
  BY <1>1, <1>2, <1>3, <1>4, <1>5 DEF HostStep, Leaving

LEMMA NextLeads ==
  ASSUME TypeOK, CrashesOnly, LeaderInv, [Next]_vars
  PROVE  LeaderInv'
<1>1. CASE Tick \/ UNCHANGED vars
  BY <1>1 DEF Tick, vars, LeaderInv, Live, At
<1>2. ASSUME NEW h \in Hosts, NEW j \in Jobs PROVE ~DbError(h, j)
  BY DEF DbError, Inject, CrashesOnly
<1>3. QED
  BY <1>1, <1>2, CoroutineLeads, HostLeads DEF Next, HostStep

LEMMA TypePreserved == ASSUME TypeOK, [Next]_vars PROVE TypeOK'
BY NextTyped, NextFrame DEF Typed, Frame, TypeOK, Ledgers, Tasks

LEMMA InitLeads == ASSUME Init PROVE LeaderInv
BY DEF Init, LeaderInv, Live, At, Idle

(* While crashes are the only fault, two jobs of one source never run at    *)
(* the same time, on any number of hosts, across crashes and restarts.      *)
THEOREM SourcesExclude ==
  ASSUME CrashesOnly
  PROVE  Spec => []SourceExclusion
<1>1. Init => TypeOK /\ LeaderInv
  BY InitTyped, InitLeads
<1>2. TypeOK /\ LeaderInv /\ [Next]_vars => (TypeOK /\ LeaderInv)'
  BY TypePreserved, NextLeads
<1>3. TypeOK /\ LeaderInv => SourceExclusion
  BY DEF LeaderInv, SourceExclusion, At
<1>4. QED
  BY <1>1, <1>2, <1>3, PTL DEF Spec

-----------------------------------------------------------------------------
(* What a coroutine knows of its job's rows: those of its startup cover the *)
(* windows that had elapsed when it read the clock, and from the            *)
(* reconciliation on they are settled.  What it has read for reconciling is *)
(* still so when it writes, and the window it queues for is due.            *)
Elapsed(j, L, now) ==
  {w \in Instants : IsWindow(j, w) /\ w <= now
                      /\ \E v \in Instants : L[v].status # "absent" /\ v <= w}

Knows(j, L, t, now) ==
  /\ t.pc \in {"backfill", "reconcile"} \cup Dispatching => t.observed <= now
  /\ t.pc = "backfill" =>
       /\ t.gap \subseteq Elapsed(j, L, t.observed)
       /\ \A w \in Elapsed(j, L, t.observed) : L[w].status # "absent" \/ w \in t.gap
  /\ t.pc = "reconcile" =>
       /\ \A w \in Elapsed(j, L, t.observed) :
            L[w].status \in Terminal \/ w \in t.miss \cup t.lost
       /\ \A w \in Instants : L[w].status = "running" => w \in t.lost
       /\ \A w \in t.miss : L[w].status = "scheduled" /\ w <= t.observed
       /\ \A w \in t.lost : L[w].status = "running"
  /\ t.pc \in Dispatching => \A w \in Elapsed(j, L, t.observed) : L[w].status \in Terminal
  /\ t.pc = "queued" => t.target <= now

(* A running row of a job has a coroutine that runs it, or none of the      *)
(* coroutines of the job has finished its startup.                          *)
Executed(j) ==
  \A w \in Instants : ledger[j][w].status = "running" =>
    \/ \E h \in Hosts : At(h, j, "running") /\ task[h][j].target = w
    \/ \A h \in Hosts : task[h][j].pc \notin Dispatching

SettleInv ==
  /\ \A h \in Hosts, j \in Jobs : Knows(j, ledger[j], task[h][j], clock)
  /\ \A j \in Jobs : Executed(j)

(* A row that is new does not make earlier windows expected, if it lies in  *)
(* the future or is itself expected.                                        *)
LEMMA ElapsedStays ==
  ASSUME NEW j \in Jobs, NEW L, NEW K, NEW now \in Int,
         \A v \in Instants : K[v].status # "absent" =>
            v > now \/ \E u \in Instants : L[u].status # "absent" /\ u <= v
  PROVE  Elapsed(j, K, now) \subseteq Elapsed(j, L, now)
<1>1. ASSUME NEW w \in Instants, w <= now,
             NEW v \in Instants, K[v].status # "absent", v <= w
      PROVE  \E u \in Instants : L[u].status # "absent" /\ u <= w
  <2>1. v \in Int /\ w \in Int /\ ~(v > now)
    BY <1>1, InstantsAreNatural
  <2>2. PICK u \in Instants : L[u].status # "absent" /\ u <= v
    BY <1>1, <2>1
  <2>3. u \in Int /\ u <= w
    BY <1>1, <2>1, <2>2, InstantsAreNatural
  <2>4. QED
    BY <2>2, <2>3
<1>2. QED
  BY <1>1 DEF Elapsed

(* What a step that moves a job's rows forward leaves of them.              *)
LEMMA ForwardKeeps ==
  ASSUME ledger \in Ledgers, ledger' \in Ledgers, Forward(ledger, ledger'),
         NEW j \in Jobs, NEW w \in Instants
  PROVE  /\ ledger[j][w].status # "absent" => ledger'[j][w].status # "absent"
         /\ ledger[j][w].status \in Terminal => ledger'[j][w].status \in Terminal
<1>1. ledger[j][w].status \in Statuses /\ ledger'[j][w].status \in Statuses
  BY DEF Ledgers, Row
<1>2. Rank(ledger[j][w].status) <= Rank(ledger'[j][w].status)
  BY DEF Forward
<1>3. QED
  BY <1>1, <1>2, RankIsOrder

(* The coroutines of other jobs, and those that do not exist, know what     *)
(* they knew.                                                               *)
LEMMA OthersKnow ==
  ASSUME LeaderInv, SettleInv, NEW h \in Hosts, NEW j \in Jobs, Alone(h, j),
         task[h][j].pc # "off", NEW g \in Hosts, NEW i \in Jobs, g # h \/ i # j
  PROVE  Knows(i, ledger'[i], task'[g][i], clock')
<1>1. task'[g][i] = task[g][i] /\ clock' = clock
  BY DEF Alone
<1>2. CASE i = j
  <2>1. task[g][i].pc = "off"
    BY <1>2, OnlyLeader
  <2>2. QED
    BY <1>1, <2>1 DEF Knows, Dispatching
<1>3. CASE i # j
  <2>1. ledger'[i] = ledger[i]
    BY <1>3 DEF Alone
  <2>2. QED
    BY <1>1, <2>1 DEF SettleInv
<1>4. QED
  BY <1>2, <1>3

LEMMA OthersExecuted ==
  ASSUME SettleInv, NEW h \in Hosts, NEW j \in Jobs, Alone(h, j), NEW i \in Jobs, i # j
  PROVE  Executed(i)'
BY DEF Alone, SettleInv, Executed, At

(* Startup *)

LEMMA ObserveKnows ==
  ASSUME TypeOK, NEW h \in Hosts, NEW j \in Jobs, Observe(h, j)
  PROVE  Knows(j, ledger'[j], task'[h][j], clock')
<1>1. /\ task'[h][j].pc = "backfill" /\ task'[h][j].observed = clock
      /\ task'[h][j].gap = Gap(j, clock)
      /\ ledger' = ledger /\ clock' = clock
  BY DEF Observe, Idle, TypeOK
<1>2. Gap(j, clock) \subseteq Elapsed(j, ledger[j], clock)
  BY DEF Gap, Expected, Elapsed, materialized_windows
<1>3. \A w \in Elapsed(j, ledger[j], clock) :
        ledger[j][w].status # "absent" \/ w \in Gap(j, clock)
  BY DEF Gap, Expected, Elapsed, materialized_windows
<1>4. clock \in Nat
  BY BoundAssumption DEF TypeOK
<1>5. QED
  BY <1>1, <1>2, <1>3, <1>4 DEF Knows, Dispatching

LEMMA BackfillKnows ==
  ASSUME TypeOK, NEW h \in Hosts, NEW j \in Jobs, Backfill(h, j),
         Knows(j, ledger[j], task[h][j], clock)
  PROVE  Knows(j, ledger'[j], task'[h][j], clock')
<1> DEFINE t == task[h][j]
<1>0. ledger \in Ledgers /\ t \in Task /\ t.pc = "backfill" /\ t.observed \in Nat
  BY DEF TypeOK, Ledgers, Backfill, At, Task
<1>1. PICK w \in t.gap : /\ plan(j, w, FALSE)
                         /\ task' = [task EXCEPT ![h][j].gap = @ \ {w}]
  BY DEF Backfill
<1>2. /\ task'[h][j].pc = "backfill" /\ task'[h][j].observed = t.observed
      /\ task'[h][j].gap = t.gap \ {w} /\ clock' = clock
  BY <1>0, <1>1 DEF Backfill, TypeOK, Task
<1>3. w \in Elapsed(j, ledger[j], t.observed) /\ w \in Instants
  BY <1>0, <1>1 DEF Knows, Elapsed
<1>4. /\ ledger'[j][w].status # "absent"
      /\ \A v \in Instants : v # w => ledger'[j][v] = ledger[j][v]
  BY <1>0, <1>1, <1>3 DEF plan, Ledgers, Row
<1>5. Elapsed(j, ledger'[j], t.observed) \subseteq Elapsed(j, ledger[j], t.observed)
  <2>1. \A v \in Instants : ledger'[j][v].status # "absent" =>
          \E u \in Instants : ledger[j][u].status # "absent" /\ u <= v
    BY <1>3, <1>4, InstantsAreNatural DEF Elapsed
  <2>2. QED
    BY <1>0, <2>1, ElapsedStays
<1>6. Elapsed(j, ledger[j], t.observed) \subseteq Elapsed(j, ledger'[j], t.observed)
  <2>1. \A v \in Instants : ledger[j][v].status # "absent" => ledger'[j][v].status # "absent"
    BY <1>4
  <2>2. QED
    BY <2>1 DEF Elapsed
<1>7. QED
  BY <1>0, <1>2, <1>3, <1>4, <1>5, <1>6 DEF Knows, Dispatching, Elapsed

LEMMA ReconcileReadKnows ==
  ASSUME TypeOK, NEW h \in Hosts, NEW j \in Jobs, ReconcileRead(h, j),
         Knows(j, ledger[j], task[h][j], clock)
  PROVE  Knows(j, ledger'[j], task'[h][j], clock')
<1> DEFINE t == task[h][j]
           read == reconcile_read(j, t.observed)
<1>0. ledger \in Ledgers /\ t \in Task /\ t.pc = "backfill" /\ t.gap = {}
  BY DEF TypeOK, Ledgers, ReconcileRead, At
<1>1. /\ task'[h][j].pc = "reconcile" /\ task'[h][j].observed = t.observed
      /\ task'[h][j].miss = read.miss /\ task'[h][j].lost = read.lost
      /\ ledger' = ledger /\ clock' = clock
  BY DEF ReconcileRead, TypeOK, Task
<1>2. \A w \in Instants : ledger[j][w].status \in Statuses
  BY <1>0 DEF Ledgers, Row
<1>3. ASSUME NEW w \in Elapsed(j, ledger[j], t.observed)
      PROVE  ledger[j][w].status \in Terminal \/ w \in read.miss \cup read.lost
  <2>1. w \in Instants /\ w <= t.observed /\ ledger[j][w].status # "absent"
    BY <1>0 DEF Knows, Elapsed
  <2>2. QED
    BY <1>2, <2>1 DEF reconcile_read, Rows, Statuses
<1>4. /\ \A w \in Instants : ledger[j][w].status = "running" => w \in read.lost
      /\ \A w \in read.miss : ledger[j][w].status = "scheduled" /\ w <= t.observed
      /\ \A w \in read.lost : ledger[j][w].status = "running"
  BY DEF reconcile_read, Rows
<1>5. t.observed <= clock
  BY <1>0 DEF Knows
<1>6. QED
  BY <1>1, <1>3, <1>4, <1>5 DEF Knows, Dispatching

LEMMA ReconcileWriteKnows ==
  ASSUME TypeOK, NEW h \in Hosts, NEW j \in Jobs, ReconcileWrite(h, j),
         Knows(j, ledger[j], task[h][j], clock)
  PROVE  /\ Knows(j, ledger'[j], task'[h][j], clock')
         /\ \A w \in Instants : ledger'[j][w].status # "running"
<1> DEFINE t == task[h][j]
<1>0. ledger \in Ledgers /\ t \in Task /\ t.pc = "reconcile" /\ t.observed \in Nat
  BY DEF TypeOK, Ledgers, ReconcileWrite, At, Task
<1>1. /\ task'[h][j].pc = "loop" /\ task'[h][j].observed = t.observed /\ clock' = clock
  BY DEF ReconcileWrite, TypeOK, Task
<1>2. ASSUME NEW w \in Instants
      PROVE  /\ w \in t.miss \cup t.lost => ledger'[j][w].status \in Terminal
             /\ w \notin t.miss \cup t.lost => ledger'[j][w] = ledger[j][w]
  <2>1. ledger'[j][w] = IF w \in t.miss THEN [ledger[j][w] EXCEPT !.status = "missed"]
                        ELSE IF w \in t.lost THEN [ledger[j][w] EXCEPT !.status = "interrupted"]
                        ELSE ledger[j][w]
    BY <1>0 DEF ReconcileWrite, reconcile_write, Ledgers
  <2>2. ledger[j][w] \in Row /\ {"missed", "interrupted"} \subseteq Terminal
    BY <1>0 DEF Ledgers, Terminal
  <2>3. QED
    BY <2>1, <2>2 DEF Row
<1>3. /\ \A w \in Elapsed(j, ledger[j], t.observed) :
           ledger[j][w].status \in Terminal \/ w \in t.miss \cup t.lost
      /\ \A w \in Instants : ledger[j][w].status = "running" => w \in t.lost
      /\ \A w \in t.miss : ledger[j][w].status = "scheduled"
      /\ \A w \in t.lost : ledger[j][w].status = "running"
      /\ t.observed <= clock
  BY <1>0 DEF Knows
<1>4. Elapsed(j, ledger'[j], t.observed) \subseteq Elapsed(j, ledger[j], t.observed)
  <2>1. \A v \in Instants : ledger'[j][v].status # "absent" => ledger[j][v].status # "absent"
    BY <1>2, <1>3
  <2>2. QED
    BY <2>1 DEF Elapsed
<1>5. \A w \in Elapsed(j, ledger'[j], t.observed) : ledger'[j][w].status \in Terminal
  <2>1. \A w \in Elapsed(j, ledger[j], t.observed) : w \in Instants
    BY DEF Elapsed
  <2>2. QED
    BY <1>2, <1>3, <1>4, <2>1
<1>6. \A w \in Instants : ledger'[j][w].status # "running"
  BY <1>2, <1>3 DEF Terminal, Outcomes
<1>7. QED
  BY <1>1, <1>3, <1>5, <1>6 DEF Knows, Dispatching

(* The dispatch loop: the rows it adds lie in the future, and a settled row *)
(* stays settled.                                                           *)

(* What a dispatch step does to the rows of its job.                        *)
LEMMA DispatchRows ==
  ASSUME TypeOK, NEW h \in Hosts, NEW j \in Jobs, Dispatch(h, j)
  PROVE  /\ task'[h][j].pc \in Dispatching => task'[h][j].observed = task[h][j].observed
         /\ \A v \in Instants :
              \/ ledger'[j][v].status = ledger[j][v].status
              \/ /\ v > clock /\ ledger[j][v].status = "absent"
                 /\ ledger'[j][v].status = "scheduled"
              \/ /\ At(h, j, "queued") /\ ledger[j][v].status = "scheduled"
                 /\ At(h, j, "running")' /\ task'[h][j].target = v
              \/ /\ At(h, j, "running") /\ ledger[j][v].status = "running"
                 /\ ledger'[j][v].status \in Outcomes
<1>0. ledger \in Ledgers /\ task \in Tasks /\ task[h][j] \in Task /\ clock \in 0..MaxClock
  BY DEF TypeOK, Ledgers, Tasks
<1> USE DEF At
<1>1. CASE LoopExit(h, j) \/ QueueExit(h, j) \/ FinishRefused(h, j)
  BY <1>0, <1>1 DEF LoopExit, QueueExit, FinishRefused, End, Idle, Tasks, Dispatching
<1>2. CASE PlanNext(h, j)
  <2> DEFINE w == next_cron_run(j, clock)
  <2>1. /\ plan(j, w, j \in Contract) /\ At(h, j, "loop")
        /\ task' = [task EXCEPT ![h][j] = [@ EXCEPT !.pc = "waiting", !.target = w]]
    BY <1>2 DEF PlanNext
  <2>2. w \in Instants /\ w > clock
    BY <1>0, NextRunIsInstant
  <2>3. \A v \in Instants :
          \/ ledger'[j][v].status = ledger[j][v].status
          \/ v = w /\ ledger[j][v].status = "absent" /\ ledger'[j][v].status = "scheduled"
    BY <1>0, <2>1, <2>2 DEF plan, Ledgers, Row
  <2>4. task'[h][j].observed = task[h][j].observed
    BY <1>0, <2>1 DEF Tasks, Task
  <2>5. QED
    BY <2>1, <2>2, <2>3, <2>4
<1>3. CASE wait_until_due(h, j)
  BY <1>0, <1>3 DEF wait_until_due, End, Goto, Idle, Tasks, Task, Dispatching
<1>4. CASE Claim(h, j)
  <2> DEFINE w == task[h][j].target
  <2>1. /\ task'[h][j].pc = "running" /\ task'[h][j].target = w
        /\ task'[h][j].observed = task[h][j].observed
    BY <1>0, <1>4 DEF Claim, Goto, Tasks, Task
  <2>2. \A v \in Instants : v = w \/ ledger'[j][v] = ledger[j][v]
    BY <1>0, <1>4 DEF Claim, start, Ledgers
  <2>3. QED
    BY <1>4, <2>1, <2>2 DEF Claim, start
<1>5. CASE ClaimRefused(h, j)
  BY <1>0, <1>5 DEF ClaimRefused, Again, Tasks, Task
<1>6. CASE FinishJob(h, j)
  <2> DEFINE w == task[h][j].target
  <2>1. PICK outcome \in Outcomes : finish(j, w, outcome)
    BY <1>6 DEF FinishJob
  <2>2. \A v \in Instants :
          \/ v # w /\ ledger'[j][v] = ledger[j][v]
          \/ v = w /\ ledger'[j][v].status = outcome
    BY <1>0, <2>1 DEF finish, Ledgers, Row
  <2>3. task'[h][j].observed = task[h][j].observed
    BY <1>0, <1>6 DEF FinishJob, Again, Tasks, Task
  <2>4. QED
    BY <1>6, <2>1, <2>2, <2>3 DEF FinishJob, finish
<1>7. QED
  BY <1>1, <1>2, <1>3, <1>4, <1>5, <1>6 DEF Dispatch

LEMMA DispatchQueues ==
  ASSUME TypeOK, NEW h \in Hosts, NEW j \in Jobs, Dispatch(h, j),
         task'[h][j].pc = "queued"
  PROVE  task'[h][j].target <= clock
<1>0. task \in Tasks /\ task[h][j] \in Task
  BY DEF TypeOK, Tasks
<1>1. CASE LoopExit(h, j) \/ QueueExit(h, j) \/ FinishRefused(h, j)
  BY <1>0, <1>1 DEF LoopExit, QueueExit, FinishRefused, End, Idle, Tasks
<1>2. CASE PlanNext(h, j)
  <2>1. task' = [task EXCEPT ![h][j] =
                   [@ EXCEPT !.pc = "waiting", !.target = next_cron_run(j, clock)]]
    BY <1>2 DEF PlanNext
  <2>2. QED
    BY <1>0, <2>1 DEF Tasks, Task
<1>3. CASE Claim(h, j)
  BY <1>0, <1>3 DEF Claim, Goto, Tasks, Task
<1>4. CASE ClaimRefused(h, j) \/ FinishJob(h, j)
  <2>1. task' = [task EXCEPT ![h][j] = [@ EXCEPT !.pc = "loop", !.target = 0]]
    BY <1>4 DEF ClaimRefused, FinishJob, Again
  <2>2. QED
    BY <1>0, <2>1 DEF Tasks, Task
<1>5. CASE wait_until_due(h, j)
  <2>1. CASE End(h, j, "done")
    BY <1>0, <2>1 DEF End, Idle, Tasks
  <2>2. CASE task[h][j].target <= clock /\ Goto(h, j, "queued")
    <3>1. task'[h][j].target = task[h][j].target
      BY <1>0, <2>2 DEF Goto, Tasks, Task
    <3>2. QED
      BY <2>2, <3>1
  <2>3. QED
    BY <1>5, <2>1, <2>2 DEF wait_until_due
<1>6. QED
  BY <1>1, <1>2, <1>3, <1>4, <1>5 DEF Dispatch

LEMMA DispatchKnows ==
  ASSUME TypeOK, NEW h \in Hosts, NEW j \in Jobs, Dispatch(h, j),
         Knows(j, ledger[j], task[h][j], clock)
  PROVE  Knows(j, ledger'[j], task'[h][j], clock')
<1> DEFINE now == task[h][j].observed
<1>0. /\ ledger \in Ledgers /\ ledger' \in Ledgers /\ Forward(ledger, ledger')
      /\ now \in Nat /\ clock \in Nat
  BY DispatchStep, BoundAssumption DEF TypeOK, Typed, Ledgers, Task
<1>1. /\ clock' = clock /\ task[h][j].pc \in Dispatching
      /\ task'[h][j].pc \in Dispatching \cup Ended
  BY DispatchAlone DEF Alone
<1>2. /\ now <= clock
      /\ \A w \in Elapsed(j, ledger[j], now) : ledger[j][w].status \in Terminal
  BY <1>1 DEF Knows, Dispatching
<1>3. ASSUME NEW v \in Instants, ledger'[j][v].status # "absent"
      PROVE  v > now \/ ledger[j][v].status # "absent"
  <2>1. v \in Nat
    BY InstantsAreNatural
  <2>2. ledger[j][v].status # "absent" \/ v > clock
    BY <1>3, DispatchRows
  <2>3. QED
    BY <1>0, <1>2, <2>1, <2>2
<1>4. Elapsed(j, ledger'[j], now) \subseteq Elapsed(j, ledger[j], now)
  <2>1. \A v \in Instants : ledger'[j][v].status # "absent" =>
          v > now \/ \E u \in Instants : ledger[j][u].status # "absent" /\ u <= v
    BY <1>3, InstantsAreNatural
  <2>2. QED
    BY <1>0, <2>1, ElapsedStays
<1>5. \A w \in Elapsed(j, ledger'[j], now) : ledger'[j][w].status \in Terminal
  <2>1. \A w \in Elapsed(j, ledger[j], now) : w \in Instants
    BY DEF Elapsed
  <2>2. QED
    BY <1>0, <1>2, <1>4, <2>1, ForwardKeeps
<1>6. task'[h][j].pc \in Dispatching => task'[h][j].observed = now
  BY DispatchRows
<1>7. QED
  BY <1>1, <1>2, <1>5, <1>6, DispatchQueues DEF Knows, Dispatching, Ended

(* A coroutine past its startup is the only one of its job, so it runs      *)
(* every row of the job that is running.                                    *)
LEMMA OwnRows ==
  ASSUME LeaderInv, SettleInv, NEW h \in Hosts, NEW j \in Jobs,
         task[h][j].pc \in Dispatching, NEW w \in Instants,
         ledger[j][w].status = "running"
  PROVE  At(h, j, "running") /\ task[h][j].target = w
<1>1. PICK g \in Hosts : At(g, j, "running") /\ task[g][j].target = w
  BY DEF SettleInv, Executed
<1>2. g = h
  BY <1>1, OnlyLeader DEF At, Dispatching
<1>3. QED
  BY <1>1, <1>2

LEMMA StartupExecuted ==
  ASSUME TypeOK, LeaderInv, SettleInv, NEW h \in Hosts, NEW j \in Jobs, Startup(h, j)
  PROVE  Executed(j)'
<1>1. CASE ReconcileWrite(h, j)
  BY <1>1, ReconcileWriteKnows DEF SettleInv, Executed
<1>2. CASE Observe(h, j) \/ Backfill(h, j) \/ ReconcileRead(h, j)
  <2>1. Alone(h, j) /\ task[h][j].pc # "off"
    BY StartupAlone
  <2>2. task'[h][j].pc \notin Dispatching
    <3>0. task \in Tasks /\ task[h][j] \in Task
      BY DEF TypeOK, Tasks
    <3>1. CASE Observe(h, j)
      BY <3>0, <3>1 DEF Observe, Idle, Tasks, Dispatching
    <3>2. CASE Backfill(h, j)
      <4>1. PICK v \in task[h][j].gap : task' = [task EXCEPT ![h][j].gap = @ \ {v}]
        BY <3>2 DEF Backfill
      <4>2. task'[h][j].pc = "backfill"
        BY <3>0, <3>2, <4>1 DEF Backfill, At, Tasks, Task
      <4>3. QED
        BY <4>2 DEF Dispatching
    <3>3. CASE ReconcileRead(h, j)
      BY <3>0, <3>3 DEF ReconcileRead, Tasks, Task, Dispatching
    <3>4. QED
      BY <1>2, <3>1, <3>2, <3>3
  <2>3. \A g \in Hosts \ {h} : task'[g][j].pc = "off"
    BY <2>1, OnlyLeader DEF Alone
  <2>4. QED
    BY <2>2, <2>3 DEF Executed, Dispatching
<1>3. QED
  BY <1>1, <1>2 DEF Startup

LEMMA DispatchExecuted ==
  ASSUME TypeOK, LeaderInv, SettleInv, NEW h \in Hosts, NEW j \in Jobs, Dispatch(h, j)
  PROVE  Executed(j)'
<1>1. task[h][j].pc \in Dispatching
  BY DispatchAlone
<1>2. SUFFICES ASSUME NEW w \in Instants, ledger'[j][w].status = "running"
               PROVE  At(h, j, "running")' /\ task'[h][j].target = w
  BY DEF Executed
<1>3. CASE ledger[j][w].status # "running"
  BY <1>2, <1>3, DispatchRows DEF Outcomes
<1>4. CASE ledger[j][w].status = "running"
  <2>1. At(h, j, "running") /\ task[h][j].target = w
    BY <1>1, <1>4, OwnRows
  <2>2. ~FinishRefused(h, j)
    BY <1>4, <2>1 DEF FinishRefused
  <2>3. ~FinishJob(h, j)
    <3>1. ASSUME NEW outcome \in Outcomes, finish(j, w, outcome) PROVE FALSE
      <4>1. ledger'[j][w].status = outcome
        BY <3>1 DEF finish, TypeOK, Row
      <4>2. QED
        BY <1>2, <4>1 DEF Outcomes
    <3>2. QED
      BY <2>1, <3>1 DEF FinishJob
  <2>4. QED
    BY <2>1, <2>2, <2>3 DEF Dispatch, LoopExit, PlanNext, wait_until_due, QueueExit,
       Claim, ClaimRefused, At
<1>5. QED
  BY <1>3, <1>4

LEMMA CoroutineSettles ==
  ASSUME TypeOK, LeaderInv, SettleInv, NEW h \in Hosts, NEW j \in Jobs,
         Startup(h, j) \/ Dispatch(h, j)
  PROVE  SettleInv'
<1>1. Alone(h, j) /\ task[h][j].pc # "off"
  BY StartupAlone, DispatchAlone DEF Dispatching
<1>2. Knows(j, ledger'[j], task'[h][j], clock')
  BY ObserveKnows, BackfillKnows, ReconcileReadKnows, ReconcileWriteKnows, DispatchKnows
     DEF SettleInv, Startup
<1>3. \A g \in Hosts, i \in Jobs : Knows(i, ledger'[i], task'[g][i], clock')
  BY <1>1, <1>2, OthersKnow
<1>4. Executed(j)'
  BY StartupExecuted, DispatchExecuted
<1>5. \A i \in Jobs : Executed(i)'
  BY <1>1, <1>4, OthersExecuted
<1>6. QED
  BY <1>3, <1>5 DEF SettleInv

(* A host that starts knows nothing yet; when one leaves or crashes none    *)
(* is left past its startup.                                                *)
LEMMA HostSettles ==
  ASSUME TypeOK, CrashesOnly, LeaderInv, SettleInv, NEW h \in Hosts, HostStep(h)
  PROVE  SettleInv'
<1>0. task \in Tasks /\ ledger' = ledger
  BY HostStepTyped DEF TypeOK, Tasks
<1>1. ~TaskEnded(h) /\ ~HostUnwind(h) /\ ~HostCancelled(h) /\ ~SessionLost(h)
  BY DEF LeaderInv, Live, CrashesOnly, TaskEnded, HostUnwind, HostCancelled, SessionLost, Inject
<1>2. clock' = clock
  BY DEF HostStep, StartHost, StopSignal, Leaving, TaskEnded, HostExit, HostUnwind,
         HostCancelled, Leave, Crash, DropDeadSession, SessionLost
<1>3. CASE StopSignal(h) \/ DropDeadSession(h)
  BY <1>0, <1>2, <1>3 DEF StopSignal, DropDeadSession, SettleInv, Executed, At
<1>4. CASE StartHost(h) \/ HostExit(h) \/ Crash(h)
  <2>1. PICK label \in {"off", "observe"} :
          task' = [task EXCEPT ![h] = [j \in Jobs |-> Idle(label)]]
    BY <1>4 DEF StartHost, HostExit, Leave, Crash
  <2>2. \A g \in Hosts \ {h}, j \in Jobs : task[g][j].pc = "off"
    BY <1>4, HostAssumption DEF StartHost, HostExit, Crash, LeaderInv, Live
  <2>3. \A g \in Hosts, j \in Jobs : task'[g][j].pc \in {"off", "observe"}
    BY <1>0, <2>1, <2>2 DEF Idle, Tasks
  <2>4. QED
    BY <2>3 DEF SettleInv, Executed, Knows, Dispatching
<1>5. QED
  BY <1>1, <1>3, <1>4 DEF HostStep, Leaving

LEMMA TickSettles == ASSUME TypeOK, SettleInv, Tick PROVE SettleInv'
<1>1. /\ clock' = clock + 1 /\ ledger' = ledger /\ task' = task /\ clock \in Int
  BY BoundAssumption DEF Tick, TypeOK
<1>2. ASSUME NEW h \in Hosts, NEW j \in Jobs
      PROVE  Knows(j, ledger'[j], task'[h][j], clock')
  <2>0. task[h][j] \in Task
    BY DEF TypeOK
  <2>1. Knows(j, ledger[j], task[h][j], clock)
    BY DEF SettleInv
  <2>2. /\ task[h][j].observed <= clock => task[h][j].observed <= clock + 1
        /\ task[h][j].target <= clock => task[h][j].target <= clock + 1
    <3>1. task[h][j].observed \in Nat /\ task[h][j].target \in Instants
      BY <2>0 DEF Task
    <3>2. \A n \in Nat : n <= clock => n <= clock + 1
      BY <1>1
    <3>3. task[h][j].target \in Nat
      BY <3>1, InstantsAreNatural
    <3>4. QED
      BY <3>1, <3>2, <3>3
  <2>3. QED
    BY <1>1, <2>1, <2>2 DEF Knows
<1>3. \A j \in Jobs : Executed(j)'
  BY <1>1 DEF SettleInv, Executed, At
<1>4. QED
  BY <1>2, <1>3 DEF SettleInv

LEMMA NextSettles ==
  ASSUME TypeOK, CrashesOnly, LeaderInv, SettleInv, [Next]_vars
  PROVE  SettleInv'
<1>1. CASE UNCHANGED vars
  BY <1>1 DEF vars, SettleInv, Executed, At
<1>2. ASSUME NEW h \in Hosts, NEW j \in Jobs PROVE ~DbError(h, j)
  BY DEF DbError, Inject, CrashesOnly
<1>3. QED
  BY <1>1, <1>2, TickSettles, CoroutineSettles, HostSettles DEF Next, HostStep

LEMMA InitSettles == ASSUME Init PROVE SettleInv
BY DEF Init, SettleInv, Knows, Executed, Dispatching, Absent, Idle

LEMMA SettleAlways ==
  ASSUME CrashesOnly
  PROVE  Spec => [](TypeOK /\ LeaderInv /\ SettleInv)
<1>1. Init => TypeOK /\ LeaderInv /\ SettleInv
  BY InitTyped, InitLeads, InitSettles
<1>2. TypeOK /\ LeaderInv /\ SettleInv /\ [Next]_vars => (TypeOK /\ LeaderInv /\ SettleInv)'
  BY TypePreserved, NextLeads, NextSettles
<1>3. QED
  BY <1>1, <1>2, PTL DEF Spec

(* A row is never left running behind a coroutine that dispatches: it has   *)
(* an executor, or the startup that will settle it is still to be done.     *)
THEOREM RunningExecuted ==
  ASSUME CrashesOnly
  PROVE  Spec => []RunningIsExecuted
<1>1. SettleInv => RunningIsExecuted
  BY DEF SettleInv, Executed, RunningIsExecuted, Rows
<1>2. QED
  BY <1>1, SettleAlways, PTL

(* A finished startup left no window that was due unplanned or unsettled,   *)
(* and the windows planned since do not undo that.                          *)
THEOREM StartupSettles ==
  ASSUME CrashesOnly
  PROVE  Spec => []StartupSettled
<1>1. ASSUME TypeOK, SettleInv, NEW h \in Hosts, NEW j \in Jobs,
             task[h][j].pc \in Dispatching, NEW w \in Expected(j), w <= task[h][j].observed
      PROVE  ledger[j][w].status \in Terminal
  <2>1. w \in Elapsed(j, ledger[j], task[h][j].observed)
    BY <1>1 DEF Expected, materialized_windows, Elapsed
  <2>2. QED
    BY <1>1, <2>1 DEF SettleInv, Knows
<1>2. TypeOK /\ SettleInv => StartupSettled
  BY <1>1 DEF StartupSettled
<1>3. QED
  BY <1>2, SettleAlways, PTL

-----------------------------------------------------------------------------
(* The refinement of WindowLifeCycle.                                       *)

StatusOf(j, w) == ledger[j][w].status

Legal(j) ==
  \A w \in Instants : LifeCycle!LegalMove(w, StatusOf(j, w), StatusOf(j, w)')

LEMMA StartupLegal ==
  ASSUME TypeOK, NEW h \in Hosts, NEW j \in Jobs, Startup(h, j),
         Knows(j, ledger[j], task[h][j], clock)
  PROVE  Legal(j)
<1> DEFINE t == task[h][j]
<1>0. ledger \in Ledgers /\ t \in Task /\ t.observed \in Nat /\ clock \in Nat
  BY BoundAssumption DEF TypeOK, Ledgers, Task
<1> USE DEF Legal, StatusOf, LifeCycle!LegalMove
<1>1. CASE Observe(h, j) \/ ReconcileRead(h, j)
  BY <1>1 DEF Observe, ReconcileRead
<1>2. CASE Backfill(h, j)
  <2>1. PICK w \in t.gap : plan(j, w, FALSE)
    BY <1>2 DEF Backfill
  <2>2. \A v \in Instants :
          \/ ledger'[j][v] = ledger[j][v]
          \/ ledger[j][v].status = "absent" /\ ledger'[j][v].status = "scheduled"
    BY <1>0, <2>1 DEF plan, Ledgers, Row
  <2>3. QED
    BY <2>2 DEF LifeCycle!Planned
<1>3. CASE ReconcileWrite(h, j)
  <2>1. /\ t.observed <= clock
        /\ \A w \in t.miss : ledger[j][w].status = "scheduled" /\ w <= t.observed
        /\ \A w \in t.lost : ledger[j][w].status = "running"
    BY <1>3 DEF ReconcileWrite, At, Knows
  <2>2. ASSUME NEW w \in Instants
        PROVE  /\ w \in t.miss => ledger'[j][w].status = "missed"
               /\ w \notin t.miss /\ w \in t.lost => ledger'[j][w].status = "interrupted"
               /\ w \notin t.miss \cup t.lost => ledger'[j][w] = ledger[j][w]
    <3>1. ledger[j][w] \in Row
      BY <1>0 DEF Ledgers
    <3>2. ledger'[j][w] = IF w \in t.miss THEN [ledger[j][w] EXCEPT !.status = "missed"]
                          ELSE IF w \in t.lost THEN [ledger[j][w] EXCEPT !.status = "interrupted"]
                          ELSE ledger[j][w]
      BY <1>0, <1>3 DEF ReconcileWrite, reconcile_write, Ledgers
    <3>3. QED
      BY <3>1, <3>2 DEF Row
  <2>3. ASSUME NEW w \in Instants, w \in t.miss PROVE w <= clock
    <3>1. w \in Nat /\ w <= t.observed
      BY <2>1, <2>3, InstantsAreNatural
    <3>2. QED
      BY <1>0, <2>1, <3>1
  <2>4. QED
    BY <2>1, <2>2, <2>3 DEF LifeCycle!Missed, LifeCycle!Settled, LifeCycle!Terminal
<1>4. QED
  BY <1>1, <1>2, <1>3 DEF Startup

LEMMA DispatchLegal ==
  ASSUME TypeOK, NEW h \in Hosts, NEW j \in Jobs, Dispatch(h, j),
         Knows(j, ledger[j], task[h][j], clock)
  PROVE  Legal(j)
<1>1. SUFFICES ASSUME NEW v \in Instants
               PROVE  LifeCycle!LegalMove(v, ledger[j][v].status, ledger'[j][v].status)
  BY DEF Legal, StatusOf
<1> USE DEF LifeCycle!LegalMove
<1>2. CASE ledger'[j][v].status = ledger[j][v].status
  BY <1>2
<1>3. CASE ledger[j][v].status = "absent" /\ ledger'[j][v].status = "scheduled"
  BY <1>3 DEF LifeCycle!Planned
<1>4. CASE ledger[j][v].status = "running" /\ ledger'[j][v].status \in Outcomes
  BY <1>4 DEF LifeCycle!Settled, LifeCycle!Terminal, Outcomes
<1>5. CASE /\ At(h, j, "queued") /\ ledger[j][v].status = "scheduled"
           /\ At(h, j, "running")' /\ task'[h][j].target = v
  <2>1. Claim(h, j)
    <3>1. task \in Tasks /\ task[h][j] \in Task
      BY DEF TypeOK, Tasks
    <3>2. CASE ClaimRefused(h, j) \/ QueueExit(h, j)
      <4>1. CASE task' = [task EXCEPT ![h][j] = [@ EXCEPT !.pc = "loop", !.target = 0]]
        BY <1>5, <3>1, <4>1 DEF Tasks, Task, At
      <4>2. CASE task' = [task EXCEPT ![h][j] = Idle("done")]
        BY <1>5, <3>1, <4>2 DEF Tasks, Idle, At
      <4>3. QED
        BY <3>2, <4>1, <4>2 DEF ClaimRefused, QueueExit, Again, End
    <3>3. QED
      BY <1>5, <3>2 DEF Dispatch, LoopExit, PlanNext, wait_until_due, FinishJob,
         FinishRefused, At
  <2>2. v = task[h][j].target
    <3>1. task \in Tasks /\ task[h][j] \in Task
      BY DEF TypeOK, Tasks
    <3>2. task'[h][j].target = task[h][j].target
      BY <2>1, <3>1 DEF Claim, Goto, Tasks, Task
    <3>3. QED
      BY <1>5, <3>2
  <2>3. v <= clock
    BY <1>5, <2>2 DEF Knows, At
  <2>4. ledger'[j][v].status = "running"
    BY <2>1, <2>2, RunningClaim DEF Claim
  <2>5. QED
    BY <1>5, <2>3, <2>4 DEF LifeCycle!Claimed
<1>6. QED
  BY <1>2, <1>3, <1>4, <1>5, DispatchRows

LEMMA NextLegal ==
  ASSUME TypeOK, CrashesOnly, LeaderInv, SettleInv, [Next]_vars, NEW j \in Jobs
  PROVE  Legal(j)
<1>1. CASE ledger'[j] = ledger[j]
  BY <1>1 DEF Legal, StatusOf, LifeCycle!LegalMove
<1>2. CASE Tick \/ UNCHANGED vars \/ \E h \in Hosts : HostStep(h)
  BY <1>1, <1>2, HostStepTyped DEF Tick, vars
<1>3. ASSUME NEW h \in Hosts, NEW i \in Jobs, Startup(h, i) \/ Dispatch(h, i)
      PROVE  Legal(j)
  <2>1. CASE i = j
    BY <1>3, <2>1, StartupLegal, DispatchLegal DEF SettleInv
  <2>2. CASE i # j
    BY <1>1, <1>3, <2>2, StartupAlone, DispatchAlone DEF Alone
  <2>3. QED
    BY <2>1, <2>2
<1>4. ASSUME NEW h \in Hosts, NEW i \in Jobs PROVE ~DbError(h, i)
  BY DEF DbError, Inject, CrashesOnly
<1>5. QED
  BY <1>2, <1>3, <1>4 DEF Next, HostStep

LEMMA NextClock ==
  ASSUME TypeOK, [Next]_vars PROVE clock \in Nat /\ clock' \in Nat /\ clock' >= clock
<1>1. clock \in Nat /\ clock' \in Nat
  BY NextFrame, BoundAssumption DEF TypeOK, Frame
<1>2. ASSUME NEW h \in Hosts, HostStep(h) PROVE clock' = clock
  BY <1>2 DEF HostStep, StartHost, StopSignal, Leaving, TaskEnded, HostExit, HostUnwind,
     HostCancelled, Leave, Crash, DropDeadSession, SessionLost
<1>3. ASSUME NEW h \in Hosts, NEW j \in Jobs,
             Startup(h, j) \/ Dispatch(h, j) \/ DbError(h, j)
      PROVE  clock' = clock
  BY <1>3, StartupAlone, DispatchAlone DEF Alone, DbError
<1>4. CASE Tick \/ UNCHANGED vars
  BY <1>1, <1>4 DEF Tick, vars
<1>5. QED
  BY <1>1, <1>2, <1>3, <1>4 DEF Next, HostStep

(* The ledger of any number of hosts, crashing and restarting, is a ledger  *)
(* in which each window is claimed once, not before it is due, and settled  *)
(* once.                                                                    *)
THEOREM LedgerImplements ==
  ASSUME CrashesOnly
  PROVE  Spec => ImplementsLifeCycle
<1>1. Init => LifeCycle!Init
  BY BoundAssumption DEF Init, LifeCycle!Init, Absent
<1>2. TypeOK /\ LeaderInv /\ SettleInv /\ [Next]_vars => LifeCycle!Next
  <2> SUFFICES ASSUME TypeOK, LeaderInv, SettleInv, [Next]_vars PROVE LifeCycle!Next
    OBVIOUS
  <2>1. \A j \in Jobs, w \in Instants : ledger'[j][w].status \in Statuses
    BY TypePreserved DEF TypeOK, Row
  <2>2. \A j \in Jobs : Legal(j)
    BY NextLegal
  <2>3. QED
    BY <2>1, <2>2, NextClock DEF LifeCycle!Next, LifeCycle!Statuses, LifeCycle!Terminal,
       Statuses, Terminal, Outcomes, Legal, StatusOf
<1>3. QED
  BY <1>1, <1>2, SettleAlways, PTL DEF Spec, ImplementsLifeCycle, LifeCycle!Spec

-----------------------------------------------------------------------------
(* What the gates of the punctuality verifier rest on: how one step may     *)
(* change a row, started instant and contract tag included.  A row changes  *)
(* only while it is open, its tag is never taken away, and a tag is new     *)
(* only on a window that still lies ahead.                                  *)
RowMove(w, old, new, now) ==
  \/ new = old
  \/ /\ old.status = "absent" /\ new.status = "scheduled"
     /\ new.started = NotStarted
     /\ new.tagged => w > now
  \/ /\ old.status = "scheduled" /\ new.status = "scheduled"
     /\ new.started = old.started /\ w > now
     /\ new.tagged
  \/ /\ old.status = "scheduled" /\ new.status = "running"
     /\ new.started = now /\ new.tagged = old.tagged
  \/ /\ old.status = "scheduled" /\ new.status = "missed"
     /\ new.started = old.started /\ new.tagged = old.tagged
  \/ /\ old.status = "running" /\ new.status \in Terminal
     /\ new.started = old.started /\ new.tagged = old.tagged

RowsMove(j) == \A w \in Instants : RowMove(w, ledger[j][w], ledger'[j][w], clock)

LEMMA PlanMoves ==
  ASSUME ledger \in Ledgers, NEW j \in Jobs, NEW w \in Instants,
         NEW tagged \in BOOLEAN, plan(j, w, tagged), tagged => w > clock
  PROVE  RowsMove(j)
<1>1. ASSUME NEW v \in Instants, v # w PROVE ledger'[j][v] = ledger[j][v]
  BY <1>1 DEF plan, Ledgers
<1>2. RowMove(w, ledger[j][w], ledger'[j][w], clock)
  <2>1. CASE ledger[j][w].status = "absent"
    BY <2>1 DEF plan, Ledgers, RowMove
  <2>2. CASE ledger[j][w].status = "scheduled" /\ tagged
    BY <2>2 DEF plan, Ledgers, Row, RowMove
  <2>3. CASE ledger[j][w].status # "absent" /\ ~(ledger[j][w].status = "scheduled" /\ tagged)
    BY <2>3 DEF plan, RowMove
  <2>4. QED
    BY <2>1, <2>2, <2>3
<1>3. QED
  BY <1>1, <1>2 DEF RowsMove, RowMove

LEMMA StartupMoves ==
  ASSUME TypeOK, NEW h \in Hosts, NEW j \in Jobs, Startup(h, j),
         Knows(j, ledger[j], task[h][j], clock)
  PROVE  RowsMove(j)
<1> DEFINE t == task[h][j]
<1>0. ledger \in Ledgers /\ t \in Task
  BY DEF TypeOK, Ledgers
<1>1. CASE Observe(h, j) \/ ReconcileRead(h, j)
  BY <1>1 DEF Observe, ReconcileRead, RowsMove, RowMove
<1>2. CASE Backfill(h, j)
  <2>1. PICK w \in t.gap : plan(j, w, FALSE)
    BY <1>2 DEF Backfill
  <2>2. w \in Instants
    BY <1>0, <2>1 DEF Task
  <2>3. QED
    BY <1>0, <2>1, <2>2, PlanMoves
<1>3. CASE ReconcileWrite(h, j)
  <2>1. /\ \A w \in t.miss : ledger[j][w].status = "scheduled"
        /\ \A w \in t.lost : ledger[j][w].status = "running"
    BY <1>3 DEF ReconcileWrite, At, Knows
  <2>2. ASSUME NEW w \in Instants PROVE RowMove(w, ledger[j][w], ledger'[j][w], clock)
    <3>1. ledger'[j][w] = IF w \in t.miss THEN [ledger[j][w] EXCEPT !.status = "missed"]
                          ELSE IF w \in t.lost THEN [ledger[j][w] EXCEPT !.status = "interrupted"]
                          ELSE ledger[j][w]
      BY <1>0, <1>3 DEF ReconcileWrite, reconcile_write, Ledgers
    <3>2. ledger[j][w] \in Row
      BY <1>0 DEF Ledgers
    <3>3. CASE w \in t.miss
      BY <2>1, <3>1, <3>2, <3>3 DEF Row, RowMove
    <3>4. CASE w \notin t.miss /\ w \in t.lost
      BY <2>1, <3>1, <3>2, <3>4 DEF Row, RowMove, Terminal
    <3>5. CASE w \notin t.miss /\ w \notin t.lost
      BY <3>1, <3>5 DEF RowMove
    <3>6. QED
      BY <3>3, <3>4, <3>5
  <2>3. QED
    BY <2>2 DEF RowsMove
<1>4. QED
  BY <1>1, <1>2, <1>3 DEF Startup

LEMMA DispatchMoves ==
  ASSUME TypeOK, NEW h \in Hosts, NEW j \in Jobs, Dispatch(h, j)
  PROVE  RowsMove(j)
<1>0. /\ ledger \in Ledgers /\ task[h][j] \in Task /\ clock \in 0..MaxClock
      /\ task[h][j].target \in Instants
  BY DEF TypeOK, Ledgers, Task
<1>1. CASE ledger' = ledger
  BY <1>1 DEF RowsMove, RowMove
<1>2. CASE PlanNext(h, j)
  <2> DEFINE w == next_cron_run(j, clock)
  <2>1. plan(j, w, j \in Contract)
    BY <1>2 DEF PlanNext
  <2>2. w \in Instants /\ w > clock
    BY <1>0, NextRunIsInstant
  <2>3. (j \in Contract) \in BOOLEAN
    OBVIOUS
  <2> HIDE DEF w
  <2>4. QED
    BY <1>0, <2>1, <2>2, <2>3, PlanMoves
<1>3. CASE Claim(h, j)
  <2> DEFINE w == task[h][j].target
  <2>1. ledger[j][w].status = "scheduled" /\ ledger[j][w] \in Row
    BY <1>0, <1>3 DEF Claim, start, Ledgers
  <2>2. ledger'[j][w] = [ledger[j][w] EXCEPT !.status = "running", !.started = clock]
    BY <1>0, <1>3 DEF Claim, start, Ledgers
  <2>3. \A v \in Instants : v = w \/ ledger'[j][v] = ledger[j][v]
    BY <1>0, <1>3 DEF Claim, start, Ledgers
  <2>4. RowMove(w, ledger[j][w], ledger'[j][w], clock)
    BY <2>1, <2>2 DEF Row, RowMove
  <2>5. QED
    BY <2>3, <2>4 DEF RowsMove, RowMove
<1>4. CASE FinishJob(h, j)
  <2> DEFINE w == task[h][j].target
  <2>1. PICK outcome \in Outcomes : finish(j, w, outcome)
    BY <1>4 DEF FinishJob
  <2>2. ledger[j][w].status = "running" /\ ledger[j][w] \in Row
    BY <1>0, <2>1 DEF finish, Ledgers
  <2>3. ledger'[j][w] = [ledger[j][w] EXCEPT !.status = outcome]
    BY <1>0, <2>1 DEF finish, Ledgers
  <2>4. \A v \in Instants : v = w \/ ledger'[j][v] = ledger[j][v]
    BY <1>0, <2>1 DEF finish, Ledgers
  <2>5. RowMove(w, ledger[j][w], ledger'[j][w], clock)
    BY <2>2, <2>3 DEF Row, RowMove, Terminal
  <2>6. QED
    BY <2>4, <2>5 DEF RowsMove, RowMove
<1>5. QED
  BY <1>1, <1>2, <1>3, <1>4 DEF Dispatch, LoopExit, wait_until_due, QueueExit, ClaimRefused,
     FinishRefused

(* One step: the clock ticks and the rows stay, or the rows move and the    *)
(* clock stays.                                                             *)
JobStep(j) ==
  \/ ledger'[j] = ledger[j] /\ clock' \in {clock, clock + 1}
  \/ RowsMove(j) /\ clock' = clock

LEMMA NextMoves ==
  ASSUME TypeOK, CrashesOnly, LeaderInv, SettleInv, [Next]_vars, NEW j \in Jobs
  PROVE  JobStep(j)
<1>1. CASE Tick \/ UNCHANGED vars
  BY <1>1 DEF Tick, vars, JobStep
<1>2. ASSUME NEW h \in Hosts, HostStep(h) PROVE JobStep(j)
  <2>1. clock' = clock
    BY <1>2 DEF HostStep, StartHost, StopSignal, Leaving, TaskEnded, HostExit, HostUnwind,
       HostCancelled, Leave, Crash, DropDeadSession, SessionLost
  <2>2. QED
    BY <1>2, <2>1, HostStepTyped DEF JobStep
<1>3. ASSUME NEW h \in Hosts, NEW i \in Jobs, Startup(h, i) \/ Dispatch(h, i)
      PROVE  JobStep(j)
  <2>1. clock' = clock /\ (i # j => ledger'[j] = ledger[j])
    BY <1>3, StartupAlone, DispatchAlone DEF Alone
  <2>2. CASE i = j
    BY <1>3, <2>1, <2>2, StartupMoves, DispatchMoves DEF SettleInv, JobStep
  <2>3. QED
    BY <2>1, <2>2 DEF JobStep
<1>4. ASSUME NEW h \in Hosts, NEW i \in Jobs PROVE ~DbError(h, i)
  BY DEF DbError, Inject, CrashesOnly
<1>5. QED
  BY <1>1, <1>2, <1>3, <1>4 DEF Next, HostStep

(* A verdict, once given, is never revised.                                 *)
THEOREM VerdictsAreFinal ==
  ASSUME CrashesOnly
  PROVE  Spec => VerdictIsFinal
<1>1. ASSUME TypeOK, LeaderInv, SettleInv, [Next]_vars, NEW j \in Jobs, NEW w \in Instants,
             ledger[j][w].status \in Terminal
      PROVE  ledger'[j][w].status = ledger[j][w].status
  <2>1. JobStep(j)
    BY <1>1, NextMoves
  <2>2. QED
    BY <1>1, <2>1 DEF JobStep, RowsMove, RowMove, Terminal, Outcomes
<1>2. TypeOK /\ LeaderInv /\ SettleInv /\ [Next]_vars =>
        \A j \in Jobs, w \in Instants : ledger[j][w].status \in Terminal =>
           ledger'[j][w].status = ledger[j][w].status
  BY <1>1
<1>3. QED
  BY <1>2, SettleAlways, PTL DEF Spec, VerdictIsFinal

-----------------------------------------------------------------------------
(* The gates of the punctuality verifier.                                   *)

(* The verdict on a row, as a predicate of the row: it was given up, or     *)
(* nobody has claimed it in time, or it was claimed too late.               *)
Lost(row, w, now) ==
  row.status \in {"missed", "interrupted"} \/ (row.started = NotStarted /\ w <= now)

Late(row, w) == row.started # NotStarted /\ row.started - w > Threshold

Bad(row, w, now) == Lost(row, w, now) \/ Late(row, w)

LEMMA TimingIsBad ==
  ASSUME TypeOK, TypeOK', NEW j \in Jobs, NEW w \in Instants
  PROVE  /\ Timing(j, w) \in {"missed", "interrupted"} <=> Lost(ledger[j][w], w, clock)
         /\ Timing(j, w) \in {"late", "missed", "interrupted"} <=> Bad(ledger[j][w], w, clock)
         /\ Timing(j, w)' \in {"missed", "interrupted"} <=> Lost(ledger'[j][w], w, clock')
         /\ Timing(j, w)' \in {"late", "missed", "interrupted"}
              <=> Bad(ledger'[j][w], w, clock')
<1>1. /\ ledger[j][w].started \in Nat \cup {NotStarted}
      /\ ledger'[j][w].started \in Nat \cup {NotStarted}
      /\ clock \in Nat /\ clock' \in Nat /\ w \in Nat /\ Threshold \in Nat
  BY InstantsAreNatural, BoundAssumption, GateAssumption DEF TypeOK, Row
<1>2. /\ Timing(j, w) \in {"missed", "interrupted"} <=> Lost(ledger[j][w], w, clock)
      /\ Timing(j, w) \in {"late", "missed", "interrupted"} <=> Bad(ledger[j][w], w, clock)
  BY <1>1 DEF Timing, Lost, Late, Bad
<1>3. /\ Timing(j, w)' \in {"missed", "interrupted"} <=> Lost(ledger'[j][w], w, clock')
      /\ Timing(j, w)' \in {"late", "missed", "interrupted"}
           <=> Bad(ledger'[j][w], w, clock')
  BY <1>1 DEF Timing, Lost, Late, Bad
<1>4. QED
  BY <1>2, <1>3

(* A due window that counts against the gate goes on doing so, unless it is *)
(* claimed now.                                                             *)
LEMMA BadStays ==
  ASSUME TypeOK, TypeOK', NEW j \in Jobs, JobStep(j), NEW w \in Instants, w <= clock,
         ledger[j][w].status # "absent"
  PROVE  /\ Bad(ledger[j][w], w, clock) =>
              \/ Bad(ledger'[j][w], w, clock')
              \/ w \in ClaimedNow(j) /\ clock - w <= Threshold
         /\ Lost(ledger[j][w], w, clock) =>
              Lost(ledger'[j][w], w, clock') \/ w \in ClaimedNow(j)
<1>0. /\ clock \in Nat /\ w \in Nat /\ Threshold \in Nat
      /\ ledger[j][w].started \in Nat \cup {NotStarted}
      /\ ledger'[j][w].started \in Nat \cup {NotStarted}
  BY InstantsAreNatural, BoundAssumption, GateAssumption DEF TypeOK, Row
<1>1. CASE ledger'[j] = ledger[j] /\ clock' \in {clock, clock + 1}
  BY <1>0, <1>1 DEF Bad, Lost, Late
<1>2. CASE RowMove(w, ledger[j][w], ledger'[j][w], clock) /\ clock' = clock
  <2>1. CASE ledger[j][w].status = "scheduled" /\ ledger'[j][w].status = "running"
    <3>1. ledger'[j][w].started = clock /\ w \in ClaimedNow(j)
      BY <1>2, <2>1 DEF RowMove, Terminal, Outcomes, ClaimedNow, Rows
    <3>2. clock - w > Threshold => Late(ledger'[j][w], w)
      BY <1>0, <3>1 DEF Late, NotStarted
    <3>3. clock - w <= Threshold \/ clock - w > Threshold
      BY <1>0
    <3>4. QED
      BY <3>1, <3>2, <3>3 DEF Bad
  <2>2. CASE ~(ledger[j][w].status = "scheduled" /\ ledger'[j][w].status = "running")
    <3>1. /\ ledger'[j][w].started = ledger[j][w].started
          /\ ledger[j][w].status \in {"missed", "interrupted"} =>
               ledger'[j][w].status \in {"missed", "interrupted"}
      <4>1. ~(w > clock)
        BY <1>0
      <4>2. QED
        BY <1>2, <2>2, <4>1 DEF RowMove, Terminal, Outcomes
    <3>2. QED
      BY <1>2, <3>1 DEF Bad, Lost, Late
  <2>3. QED
    BY <2>1, <2>2
<1>3. QED
  BY <1>1, <1>2 DEF JobStep, RowsMove

(* The rows of a ledger stay, and so do their tags; a tag that is new is on *)
(* a window that lies ahead.                                                *)
LEMMA TagsStay ==
  ASSUME TypeOK, TypeOK', NEW j \in Jobs, JobStep(j)
  PROVE  /\ materialized_windows(j) \subseteq materialized_windows(j)'
         /\ Tagged(j) \subseteq Tagged(j)'
         /\ \A w \in Tagged(j)' : w \in Tagged(j) \/ w > clock
<1>1. ASSUME NEW w \in Instants
      PROVE  /\ ledger[j][w].status # "absent" =>
                  /\ ledger'[j][w].status # "absent"
                  /\ ledger[j][w].tagged => ledger'[j][w].tagged
             /\ ledger'[j][w].tagged /\ ledger'[j][w].status # "absent" =>
                  \/ ledger[j][w].tagged /\ ledger[j][w].status # "absent"
                  \/ w > clock
  <2>1. CASE ledger'[j] = ledger[j]
    BY <2>1
  <2>2. CASE RowMove(w, ledger[j][w], ledger'[j][w], clock)
    <3>1. ledger[j][w].tagged \in BOOLEAN /\ ledger'[j][w].tagged \in BOOLEAN
      BY DEF TypeOK, Row
    <3>2. QED
      BY <2>2, <3>1 DEF RowMove, Terminal, Outcomes
  <2>3. QED
    BY <2>1, <2>2 DEF JobStep, RowsMove
<1>2. QED
  BY <1>1 DEF materialized_windows, Tagged

LEMMA LeastInstant ==
  ASSUME NEW S, S \subseteq Nat, S # {}
  PROVE  LET m == CHOOSE w \in S : \A v \in S : w <= v
         IN  m \in S /\ \A v \in S : m <= v
<1> DEFINE below == {ss \in Nat \X Nat : ss[1] < ss[2]}
<1>1. below = OpToRel(<, Nat)
  BY Zenon DEF OpToRel
<1>2. IsWellFoundedOn(below, Nat)
  BY <1>1, NatLessThanWellFounded
<1>3. PICK n \in S : \A k \in S : <<k, n>> \notin below
  <2> HIDE DEF below
  <2> QED
    BY <1>2, WFMin
<1>4. ASSUME NEW k \in S PROVE n <= k
  <2>1. <<k, n>> \in Nat \X Nat /\ <<k, n>> \notin below
    BY <1>3
  <2>2. ~(k < n)
    BY <2>1
  <2>3. QED
    BY <2>2
<1>5. QED
  BY <1>4

(* Once the first tagged window has come, the windows that qualify are      *)
(* fixed.                                                                   *)
LEMMA QualificationStays ==
  ASSUME TypeOK, TypeOK', NEW j \in Jobs, JobStep(j), Tagged(j) # {},
         QualificationStart(j) <= clock
  PROVE  /\ QualificationStart(j)' = QualificationStart(j)
         /\ Qualification(j)' = Qualification(j)
<1> DEFINE a == QualificationStart(j)
           b == QualificationStart(j)'
<1>0. clock \in Nat /\ Tagged(j) \subseteq Nat /\ Tagged(j)' \subseteq Nat
  <2>1. clock \in Nat
    BY BoundAssumption DEF TypeOK
  <2>2. Tagged(j) \subseteq Instants /\ Tagged(j)' \subseteq Instants
    BY DEF Tagged, materialized_windows
  <2>3. QED
    BY <2>1, <2>2, InstantsAreNatural
<1>1. a \in Tagged(j) /\ \A v \in Tagged(j) : a <= v
  BY <1>0, LeastInstant DEF QualificationStart
<1>2. b \in Tagged(j)' /\ \A v \in Tagged(j)' : b <= v
  <2>1. Tagged(j)' # {}
    BY TagsStay
  <2>2. QED
    BY <1>0, <2>1, LeastInstant DEF QualificationStart
<1>3. a \in Tagged(j)' /\ (b \in Tagged(j) \/ b > clock)
  BY <1>1, <1>2, TagsStay
<1>4. a \in Nat /\ b \in Nat
  BY <1>0, <1>1, <1>2
<1>5. a = b
  <2> HIDE DEF a, b
  <2>1. b <= a
    BY <1>2, <1>3
  <2>2. a <= clock
    BY DEF a
  <2>3. b \in Tagged(j)
    BY <1>0, <1>3, <1>4, <2>1, <2>2
  <2>4. a <= b
    BY <1>1, <2>3
  <2>5. QED
    BY <1>4, <2>1, <2>4
<1>6. QED
  BY <1>5 DEF Qualification

(* A gate passes only when every window that qualifies has been settled.    *)
LEMMA PassedIsComplete ==
  ASSUME NEW j \in Jobs, Gate(j) = "passed"
  PROVE  Tagged(j) # {} /\ ~Disqualified(j) /\ Completed(j) = Qualification(j)
<1> DEFINE I == 0..(Qualifying - 1)
           f == [i \in I |-> QualificationStart(j) + Period[j] * i]
<1>1. Tagged(j) # {} /\ ~Disqualified(j) /\ Cardinality(Completed(j)) >= Qualifying
  BY DEF Gate
<1>2. f \in Surjection(I, Qualification(j))
  BY DEF Surjection, Qualification
<1>3. IsFiniteSet(I) /\ Cardinality(I) = Qualifying
  BY GateAssumption, FS_Interval
<1>4. Completed(j) \in SUBSET Qualification(j)
  BY DEF Completed, Due
<1>5. IsFiniteSet(Qualification(j)) /\ Cardinality(Qualification(j)) <= Qualifying
  <2> HIDE DEF f, I
  <2> QED
    BY <1>2, <1>3, FS_Surjection
<1>6. /\ Cardinality(Completed(j)) <= Cardinality(Qualification(j))
      /\ IsFiniteSet(Completed(j))
      /\ Cardinality(Qualification(j)) = Cardinality(Completed(j)) =>
           Qualification(j) = Completed(j)
  BY <1>4, <1>5, FS_Subset
<1>7. /\ Cardinality(Completed(j)) \in Nat /\ Cardinality(Qualification(j)) \in Nat
      /\ Qualifying \in Nat
  BY <1>5, <1>6, FS_CardinalityType, GateAssumption
<1>8. QED
  BY <1>1, <1>5, <1>6, <1>7

LEMMA PassedStays ==
  ASSUME TypeOK, TypeOK', NEW j \in Jobs, JobStep(j), Gate(j) = "passed"
  PROVE  Gate(j)' = "passed"
<1> DEFINE a == QualificationStart(j)
<1>1. Tagged(j) # {} /\ ~Disqualified(j) /\ Completed(j) = Qualification(j)
  BY PassedIsComplete
<1>2. ASSUME NEW w \in Qualification(j)
      PROVE  /\ w \in Instants /\ w \in Tagged(j) /\ w \in Due(j) /\ w <= clock
             /\ ledger[j][w].status \in Terminal
             /\ ~Bad(ledger[j][w], w, clock)
  <2>1. w \in Due(j) /\ w \in Tagged(j) /\ ledger[j][w].status \in Terminal
    BY <1>1 DEF Completed
  <2>2. w \in Instants /\ w <= clock
    BY <2>1 DEF Tagged, materialized_windows, Due
  <2>3. Timing(j, w) \notin {"late", "missed", "interrupted"}
    BY <1>1, <2>1 DEF Disqualified
  <2>4. QED
    BY <2>1, <2>2, <2>3, TimingIsBad
<1>3. a <= clock
  <2>1. a \in Nat
    <3>1. Tagged(j) \subseteq Nat
      BY InstantsAreNatural DEF Tagged, materialized_windows
    <3>2. QED
      BY <1>1, <3>1, LeastInstant DEF QualificationStart
  <2>2. Period[j] \in Nat /\ 0 \in 0..(Qualifying - 1)
    BY CronAssumption, GateAssumption
  <2>3. a + Period[j] * 0 = a
    <3> HIDE DEF a
    <3> QED
      BY <2>1, <2>2
  <2>4. a \in Qualification(j)
    BY <2>2, <2>3 DEF Qualification
  <2>5. QED
    BY <1>2, <2>4
<1>4. Qualification(j)' = Qualification(j) /\ Tagged(j)' # {}
  BY <1>1, <1>3, QualificationStays, TagsStay
<1>5. ASSUME NEW w \in Qualification(j)
      PROVE  /\ w \in Tagged(j)' /\ w \in Due(j)'
             /\ ledger'[j][w].status \in Terminal
             /\ Timing(j, w)' \notin {"late", "missed", "interrupted"}
  <2>0. /\ w \in Instants /\ w \in Tagged(j) /\ w <= clock /\ ledger[j][w].status \in Terminal
        /\ ~Bad(ledger[j][w], w, clock)
    BY <1>2
  <2>1. ledger'[j][w] = ledger[j][w]
    BY <2>0 DEF JobStep, RowsMove, RowMove, Terminal, Outcomes
  <2>2. w <= clock'
    <3>1. w \in Nat /\ clock \in Nat /\ clock' \in {clock, clock + 1}
      BY <2>0, InstantsAreNatural, BoundAssumption DEF TypeOK, JobStep
    <3>2. QED
      BY <2>0, <3>1
  <2>3. ~Bad(ledger'[j][w], w, clock')
    BY <2>0, <2>1 DEF Bad, Lost, Late
  <2>4. w \in Tagged(j)' /\ w \in Due(j)'
    BY <1>4, <2>0, <2>2, TagsStay DEF Due
  <2>5. QED
    BY <2>0, <2>1, <2>3, <2>4, TimingIsBad
<1>6. ~Disqualified(j)'
  BY <1>4, <1>5 DEF Disqualified, Due
<1>7. Completed(j)' = Completed(j)
  BY <1>1, <1>4, <1>5 DEF Completed, Due
<1>8. Cardinality(Completed(j)') >= Qualifying
  BY <1>7 DEF Gate
<1>9. QED
  BY <1>4, <1>6, <1>8 DEF Gate

(* A gate that passed at the end of its qualification stays passed, across  *)
(* restarts, gaps and reconciliations.                                      *)
THEOREM PassedGatesStay ==
  ASSUME CrashesOnly
  PROVE  Spec => PassedIsFinal
<1>1. TypeOK /\ LeaderInv /\ SettleInv /\ [Next]_vars =>
        \A j \in Contract : Gate(j) = "passed" => Gate(j)' = "passed"
  BY TypePreserved, NextMoves, PassedStays, FaultAssumption
<1>2. QED
  BY <1>1, SettleAlways, PTL DEF Spec, PassedIsFinal

LEMMA FailureStays ==
  ASSUME TypeOK, TypeOK', NEW j \in Jobs, JobStep(j), Gate(j) = "failed",
         Gate(j)' # "failed"
  PROVE  \E w \in ClaimedNow(j) : clock - w <= Threshold
<1> DEFINE a == QualificationStart(j)
<1>1. Tagged(j) # {} /\ Disqualified(j)
  BY DEF Gate
<1>2. PICK w \in Due(j) : w \notin Tagged(j)
                            \/ Timing(j, w) \in {"late", "missed", "interrupted"}
  BY <1>1 DEF Disqualified
<1>3. a \in Nat /\ clock \in Nat /\ clock' \in {clock, clock + 1}
  <2>1. Tagged(j) \subseteq Nat
    BY InstantsAreNatural DEF Tagged, materialized_windows
  <2>2. a \in Nat
    BY <1>1, <2>1, LeastInstant DEF QualificationStart
  <2>3. QED
    BY <2>2, BoundAssumption DEF TypeOK, JobStep
<1>4. w \in Nat /\ w <= clock /\ a <= w
  <2>1. PICK i \in 0..(Qualifying - 1) : w = a + Period[j] * i
    BY <1>2 DEF Due, Qualification
  <2>2. Period[j] \in Nat /\ i \in Nat
    BY CronAssumption, GateAssumption
  <2>3. Period[j] * i \in Nat
    BY <2>2
  <2>4. w <= clock
    BY <1>2 DEF Due
  <2> HIDE DEF a
  <2>5. QED
    BY <1>3, <2>1, <2>3, <2>4
<1>5. Tagged(j)' # {} /\ w \in Due(j)'
  <2>1. a <= clock /\ w <= clock'
    <3> HIDE DEF a
    <3> QED
      BY <1>3, <1>4
  <2>2. Qualification(j)' = Qualification(j) /\ Tagged(j)' # {}
    BY <1>1, <2>1, QualificationStays, TagsStay
  <2>3. QED
    BY <1>2, <2>1, <2>2 DEF Due
<1>6. ~Disqualified(j)'
  BY <1>5 DEF Gate
<1>7. w \in Tagged(j)' /\ Timing(j, w)' \notin {"late", "missed", "interrupted"}
  BY <1>5, <1>6 DEF Disqualified
<1>8. w \in Tagged(j)
  <2>1. ~(w > clock)
    BY <1>3, <1>4
  <2>2. QED
    BY <1>7, <2>1, TagsStay
<1>9. w \in Instants /\ ledger[j][w].status # "absent"
  BY <1>8 DEF Tagged, materialized_windows
<1>10. Bad(ledger[j][w], w, clock) /\ ~Bad(ledger'[j][w], w, clock')
  BY <1>2, <1>7, <1>8, <1>9, TimingIsBad
<1>11. QED
  BY <1>4, <1>9, <1>10, BadStays

LEMMA ContinuityStays ==
  ASSUME TypeOK, TypeOK', NEW j \in Jobs, JobStep(j), Continuity(j) = "failed",
         Continuity(j)' # "failed"
  PROVE  clock' > clock \/ ClaimedNow(j) # {}
<1> SUFFICES ASSUME ~(clock' > clock) PROVE ClaimedNow(j) # {}
  OBVIOUS
<1>1. clock \in Nat /\ clock' = clock
  BY BoundAssumption DEF TypeOK, JobStep
<1>2. /\ materialized_windows(j) # {}
      /\ continuity_missing(j) \cup continuity_bad(j) # {}
  BY DEF Continuity
<1>3. continuity_windows(j)' = continuity_windows(j)
  BY <1>1 DEF continuity_windows, latest_due_window
<1>4. PICK w \in continuity_windows(j) :
        \/ w \notin materialized_windows(j)
        \/ Timing(j, w) \in {"missed", "interrupted"}
  BY <1>2 DEF continuity_missing, continuity_bad
<1>5. w \in Int /\ w <= clock
  <2> DEFINE p == Period[j]
             r == (clock - Offset[j]) % p
  <2>1. p \in Nat /\ p > 0 /\ Offset[j] \in Nat
    BY CronAssumption
  <2>2. r \in 0..(p - 1)
    BY <1>1, <2>1
  <2>3. PICK i \in 0..(Continuing - 1) : w = (clock - r) - p * i
    BY <1>4 DEF continuity_windows, latest_due_window
  <2>4. i \in Nat /\ p * i \in Nat
    BY <2>1, GateAssumption
  <2> HIDE DEF p, r
  <2>5. QED
    BY <1>1, <2>1, <2>2, <2>3, <2>4
<1>6. /\ w \in materialized_windows(j)'
      /\ Timing(j, w)' \notin {"missed", "interrupted"}
  <2>1. materialized_windows(j)' # {}
    BY <1>2, TagsStay
  <2>2. continuity_missing(j)' \cup continuity_bad(j)' = {}
    BY <2>1 DEF Continuity
  <2>3. QED
    BY <1>3, <1>4, <2>2 DEF continuity_missing, continuity_bad
<1>7. w \in Instants /\ ~Lost(ledger'[j][w], w, clock)
  <2>1. w \in Instants
    BY <1>6 DEF materialized_windows
  <2>2. QED
    BY <1>1, <1>6, <2>1, TimingIsBad
<1>8. ledger[j][w].status # "absent"
  <2>1. ASSUME ledger[j][w].status = "absent"
        PROVE  FALSE
    <3>1. ledger'[j][w] # ledger[j][w]
      BY <1>6, <2>1 DEF materialized_windows
    <3>2. RowMove(w, ledger[j][w], ledger'[j][w], clock)
      BY <1>7, <3>1 DEF JobStep, RowsMove
    <3>3. ledger'[j][w].started = NotStarted
      BY <2>1, <3>1, <3>2 DEF RowMove
    <3>4. QED
      BY <1>5, <1>7, <3>3 DEF Lost
  <2>2. QED
    BY <2>1
<1>9. Lost(ledger[j][w], w, clock)
  BY <1>4, <1>7, <1>8, TimingIsBad DEF materialized_windows
<1>10. QED
  BY <1>1, <1>5, <1>7, <1>8, <1>9, BadStays

(* A failed gate is mended by a claim within the threshold, or outlived: by *)
(* nothing that a restart, a gap or a reconciliation writes.                *)
THEOREM FailuresAreOutlived ==
  ASSUME CrashesOnly
  PROVE  Spec => FailureIsOutlived
<1>1. TypeOK /\ LeaderInv /\ SettleInv /\ [Next]_vars =>
        \A j \in Contract :
          /\ Gate(j) = "failed" /\ Gate(j)' # "failed" =>
               \E w \in ClaimedNow(j) : clock - w <= Threshold
          /\ Continuity(j) = "failed" /\ Continuity(j)' # "failed" =>
               clock' > clock \/ ClaimedNow(j) # {}
  <2> SUFFICES ASSUME TypeOK, LeaderInv, SettleInv, [Next]_vars, NEW j \in Contract
               PROVE  /\ Gate(j) = "failed" /\ Gate(j)' # "failed" =>
                           \E w \in ClaimedNow(j) : clock - w <= Threshold
                      /\ Continuity(j) = "failed" /\ Continuity(j)' # "failed" =>
                           clock' > clock \/ ClaimedNow(j) # {}
    OBVIOUS
  <2>1. j \in Jobs /\ TypeOK' /\ JobStep(j)
    BY TypePreserved, NextMoves, FaultAssumption
  <2>2. QED
    BY <2>1, FailureStays, ContinuityStays
<1>2. QED
  BY <1>1, SettleAlways, PTL DEF Spec, FailureIsOutlived
=============================================================================
