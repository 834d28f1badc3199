------------------------- MODULE ArxivIncremental -------------------------
(***************************************************************************)
(* Incremental collection of the arXiv collector: collect, its mapping     *)
(* loop, the recursive date partition and the page loop of                 *)
(* arxiv_collector/service.py, over the durable cursors of a mapping.      *)
(*                                                                         *)
(* A run queries, per mapping, the window from the last successful query   *)
(* (less an overlap) to now, page by page.  A window too large is split in *)
(* two, recursively; the parent cursor keeps the ordered pending children. *)
(* Every stop - a limit, an error, a crash - leaves cursors from which a   *)
(* later run resumes.  Every action below ends with one commit.            *)
(*                                                                         *)
(* arXiv itself is the function Visible: an article submitted at one tick  *)
(* is found by queries from a later tick on.  The overlap exists for that  *)
(* delay.                                                                  *)
(***************************************************************************)
EXTENDS ArxivWindow

CONSTANTS
  Runs,           \* processes that may collect: the worker, an operator's CLI
  Visible,        \* Visible[a]: tick from which queries find article a
  Overlap,        \* arxiv_incremental_overlap_hours
  MaxClock,       \* bound: last tick of the wall clock
  MaxFaults,      \* bound: faults injected in one behaviour
  Faults          \* kinds of fault the environment may inject

FaultKinds ==
  {"crash", "slow", "transient", "error", "forbidden", "empty_page", "short_page"}

ASSUME DelayAssumption ==
  /\ Overlap \in Nat \ {0} /\ Visible \in [Articles -> Nat]
  /\ \A a \in Articles : Visible[a] \in Submitted[a]..(Submitted[a] + Overlap)
ASSUME BoundAssumption ==
  MaxClock \in Nat /\ MaxFaults \in Nat /\ Faults \subseteq FaultKinds

Ticks    == (-Overlap)..MaxClock
Windows  == {w \in [from : Ticks, until : Ticks] : w.from < w.until}
Never    == -Overlap - 1     \* last_query_until of a cursor that never succeeded

VARIABLES
  clock,      \* the wall clock
  parent,     \* parent[m]: the cursor "incremental" of mapping m
  child,      \* child[m]: its "incremental-part" cursors, by root and window
  persisted,  \* persisted[m]: articles in Silver, matched to mapping m
  origin,     \* origin[m]: start of the first window m ever queried (history)
  run,        \* run[r]: the locals of a collect call
  verdict,    \* verdict[r]: status of the last ingestion run of r
  faults      \* number of faults injected so far

vars == <<clock, parent, child, persisted, origin, run, verdict, faults>>

-----------------------------------------------------------------------------
(* Types *)

Partition == [root : Windows \cup {NoWindow}, pending : Seq(Windows)]
NoPartition == [root |-> NoWindow, pending |-> <<>>]
Parent == [status : CursorStatuses, window : Windows \cup {NoWindow}, next : Nat,
           until : Ticks \cup {Never}, partition : Partition]
NewParent == [status |-> "pending", window |-> NoWindow, next |-> 0,
              until |-> Never, partition |-> NoPartition]
Child == [status : CursorStatuses, next : Nat]
NewChild == [status |-> "pending", next |-> 0]

Labels == {"idle", "mapping", "child", "page", "waiting", "outcome", "finish"}
Outcomes == {"none", "succeeded", "partial", "split"}
(* m: the mapping; now: observed_until; root: its window; target: the       *)
(* window being queried; halves: the split of the target; start and size:   *)
(* the request in flight; errors, succeeded, safety: the accumulator.       *)
Locals == [pc : Labels, m : 1..(MappingCount + 1), now : Nat,
           root : Windows \cup {NoWindow}, target : Windows \cup {NoWindow},
           pending : Seq(Windows), outcome : Outcomes, halves : Seq(Windows),
           start : Nat, requests : 0..MaxRequests,
           errors : BOOLEAN, succeeded : BOOLEAN, safety : BOOLEAN]
Idle == [pc |-> "idle", m |-> 1, now |-> 0, root |-> NoWindow, target |-> NoWindow,
         pending |-> <<>>, outcome |-> "none", halves |-> <<>>, start |-> 0,
         requests |-> 0, errors |-> FALSE, succeeded |-> FALSE, safety |-> FALSE]

-----------------------------------------------------------------------------
(* Query windows *)

(* What arXiv answers to a window's query now.                              *)
Found(w) == Matching(w, {a \in Articles : Visible[a] <= clock})

(* Faulty variants: a window abuts on the last one, without the overlap; a  *)
(* cursor that never succeeded is not told apart.                           *)
fresh_window_abutting(m, now) ==
  [from |-> IF parent[m].until = Never THEN now - Overlap ELSE parent[m].until, until |-> now]
fresh_window_unset(m, now) == [from |-> parent[m].until - Overlap, until |-> now]

fresh_window(m, now) ==
  [from  |-> IF parent[m].until = Never THEN now - Overlap ELSE parent[m].until - Overlap,
   until |-> now]

(* Faulty variant: a window that failed is not resumed.                    *)
Resumable_paused(m) ==
  parent[m].status \in {"running", "partial"} /\ parent[m].window # NoWindow

Resumable(m) ==
  parent[m].status \in {"running", "partial", "failed"} /\ parent[m].window # NoWindow

incremental_window(m, now) ==
  IF Resumable(m) THEN parent[m].window ELSE fresh_window(m, now)

-----------------------------------------------------------------------------
(* Cursors.  A run's target is its root window, whose cursor is the parent, *)
(* or a child of it.                                                        *)

IsRoot(r) == run[r].target = run[r].root
Key(r)    == <<run[r].root, run[r].target>>
M(r)      == run[r].m

ChildAt(m, key) == IF key \in DOMAIN child[m] THEN child[m][key] ELSE NewChild
PutChild(m, key, row) ==
  [child EXCEPT ![m] = [k \in DOMAIN @ \cup {key} |-> IF k = key THEN row ELSE @[k]]]

NextStart(r) == IF IsRoot(r) THEN parent[M(r)].next ELSE ChildAt(M(r), Key(r)).next

(* The target's cursor takes a status and a next_start; a parent that       *)
(* succeeds takes the window's end as its last_query_until.                 *)
Save(r, status, next) ==
  IF IsRoot(r)
  THEN /\ parent' = [parent EXCEPT ![M(r)] =
            [@ EXCEPT !.status = status, !.next = next,
                      !.until = IF status = "succeeded" THEN run[r].root.until
                                ELSE parent[M(r)].until]]
       /\ UNCHANGED child
  ELSE /\ child' = PutChild(M(r), Key(r), [status |-> status, next |-> next])
       /\ UNCHANGED parent

(* _save_partition_parent.                                                  *)
SavePartition(r, pending) ==
  parent' = [parent EXCEPT ![M(r)] =
    [@ EXCEPT !.status = "partial",
              !.partition = [root |-> run[r].root, pending |-> pending]]]

At(r, label) == run[r].pc = label
Set(r, locals) == run' = [run EXCEPT ![r] = locals]

Inject(kind) ==
  /\ kind \in Faults /\ faults < MaxFaults
  /\ faults' = faults + 1

-----------------------------------------------------------------------------
(* collect *)

Init ==
  /\ clock = 0
  /\ parent = [m \in Mappings |-> NewParent]
  /\ child = [m \in Mappings |-> <<>>]
  /\ persisted = [m \in Mappings |-> {}]
  /\ origin = [m \in Mappings |-> Never]
  /\ run = [r \in Runs |-> Idle]
  /\ verdict = [r \in Runs |-> "none"]
  /\ faults = 0

StartRun(r) ==
  /\ At(r, "idle")
  /\ Set(r, [Idle EXCEPT !.pc = "mapping", !.now = clock])
  /\ verdict' = [verdict EXCEPT ![r] = "running"]
  /\ UNCHANGED <<clock, parent, child, persisted, origin, faults>>

(* The locals at the next mapping, or at the end of the loop.               *)
Advance(locals) ==
  IF locals.m = MappingCount THEN [locals EXCEPT !.pc = "finish"]
  ELSE [locals EXCEPT !.pc = "mapping", !.m = @ + 1]

(* After an outcome the loop ends early when no request is left.            *)
AfterOutcome(locals) ==
  IF locals.requests >= MaxRequests
  THEN [locals EXCEPT !.pc = "finish", !.safety = TRUE] ELSE Advance(locals)

(* The runtime limit is exceeded before a mapping.                          *)
RunTooSlow(r) ==
  /\ At(r, "mapping") /\ Inject("slow")
  /\ Set(r, [run[r] EXCEPT !.pc = "finish", !.safety = TRUE])
  /\ UNCHANGED <<clock, parent, child, persisted, origin, verdict>>

(* A mapping whose partition is checkpointed goes on with its children.     *)
ResumePartition(r) ==
  LET m == M(r) IN
  /\ At(r, "mapping")
  /\ Resumable(m) /\ parent[m].partition.root = parent[m].window
  /\ Set(r, [run[r] EXCEPT !.pc = "child", !.root = parent[m].window,
                           !.pending = parent[m].partition.pending])
  /\ UNCHANGED <<clock, parent, child, persisted, origin, verdict, faults>>

(* Another mapping queries its window: the old one where it stopped, or a   *)
(* new one, whose checkpoint starts afresh.  Instants are microseconds in   *)
(* the program, so a new root has no children yet.                          *)
OpenRoot(r) ==
  LET m == M(r)
      fresh == ~Resumable(m)
      root == incremental_window(m, run[r].now) IN
  /\ At(r, "mapping")
  /\ fresh \/ parent[m].partition.root # root
  /\ parent' = [parent EXCEPT ![m] =
       [@ EXCEPT !.status = "running", !.window = root,
                 !.next = IF fresh THEN 0 ELSE parent[m].next,
                 !.partition = IF fresh THEN NoPartition ELSE parent[m].partition]]
  /\ child' = [child EXCEPT ![m] =
       [k \in {k \in DOMAIN @ : fresh => k[1] # root} |-> @[k]]]
  /\ origin' = [origin EXCEPT ![m] =
       IF parent[m].window = NoWindow THEN root.from ELSE @]
  /\ Set(r, [run[r] EXCEPT !.pc = "page", !.root = root, !.target = root])
  /\ UNCHANGED <<clock, persisted, verdict, faults>>

(* Faulty variant: a child that succeeded is queried again.                *)
ChildDone_never(r, w) == FALSE

ChildDone(r, w) == ChildAt(M(r), <<run[r].root, w>>).status = "succeeded"

(* A pending child that a crashed run had completed is struck off.          *)
SkipChild(r) ==
  /\ At(r, "child") /\ run[r].pending # <<>> /\ ChildDone(r, Head(run[r].pending))
  /\ SavePartition(r, Tail(run[r].pending))
  /\ Set(r, [run[r] EXCEPT !.pending = Tail(@)])
  /\ UNCHANGED <<clock, child, persisted, origin, verdict, faults>>

OpenChild(r) ==
  LET w == Head(run[r].pending)
      key == <<run[r].root, w>> IN
  /\ At(r, "child") /\ run[r].pending # <<>> /\ ~ChildDone(r, w)
  /\ child' = PutChild(M(r), key, [ChildAt(M(r), key) EXCEPT !.status = "running"])
  /\ Set(r, [run[r] EXCEPT !.pc = "page", !.target = w])
  /\ UNCHANGED <<clock, parent, persisted, origin, verdict, faults>>

(* No child is pending: the parent succeeds.                                *)
CompletePartition(r) ==
  /\ At(r, "child") /\ run[r].pending = <<>>
  /\ parent' = [parent EXCEPT ![M(r)] =
       [@ EXCEPT !.status = "succeeded", !.next = 0, !.until = run[r].root.until]]
  /\ Set(r, AfterOutcome([run[r] EXCEPT !.succeeded = TRUE]))
  /\ UNCHANGED <<clock, child, persisted, origin, verdict, faults>>

-----------------------------------------------------------------------------
(* _collect_window: the page loop *)

Status(r) == IF IsRoot(r) THEN parent[M(r)].status ELSE ChildAt(M(r), Key(r)).status

EndWindow(r, outcome) ==
  Set(r, [run[r] EXCEPT !.pc = "outcome", !.outcome = outcome,
                        !.safety = @ \/ outcome = "partial"])

(* _pause_cursor.                                                           *)
Pause(r) == Save(r, "partial", NextStart(r)) /\ EndWindow(r, "partial")

(* The top of the loop: a limit on the requests, the runtime, the pages or  *)
(* the topic's results stops the window.                                    *)
LimitReached(r) ==
  /\ At(r, "page")
  /\ \/ run[r].requests >= MaxRequests /\ UNCHANGED faults
     \/ Inject("slow")
  /\ Pause(r)
  /\ UNCHANGED <<clock, persisted, origin, verdict>>

(* A commit expires the row: next_start is read again for every request.    *)
Send(r) ==
  /\ At(r, "page") /\ run[r].requests < MaxRequests
  /\ Set(r, [run[r] EXCEPT !.pc = "waiting", !.start = NextStart(r), !.requests = @ + 1])
  /\ UNCHANGED <<clock, parent, child, persisted, origin, verdict, faults>>

(* An attempt fails for a passing reason and is repeated.                   *)
Retry(r) ==
  /\ At(r, "waiting") /\ run[r].requests < MaxRequests /\ Inject("transient")
  /\ Set(r, [run[r] EXCEPT !.requests = @ + 1])
  /\ UNCHANGED <<clock, parent, child, persisted, origin, verdict>>

TooLarge(r) == run[r].start = 0 /\ Cardinality(Found(run[r].target)) > Threshold

(* The first answer tells that the window holds too much: it is split, or   *)
(* given up when it is too short.                                           *)
SplitWindow(r) ==
  /\ At(r, "waiting") /\ TooLarge(r)
  /\ LET halves == split_window(run[r].target) IN
       \/ /\ halves = <<>>
          /\ Pause(r)
       \/ /\ halves # <<>>
          /\ Save(r, "partial", NextStart(r))
          /\ Set(r, [run[r] EXCEPT !.pc = "outcome", !.outcome = "split",
                                   !.halves = halves])
  /\ UNCHANGED <<clock, persisted, origin, verdict, faults>>

(* The page is persisted and the cursor moves on in the same commit.        *)
PersistPage(r, page, next) ==
  /\ persisted' = persist_feed(persisted, M(r), page)
  /\ IF next >= Cardinality(Found(run[r].target))
     THEN Save(r, "succeeded", next) /\ EndWindow(r, "succeeded")
     ELSE Save(r, Status(r), next) /\ Set(r, [run[r] EXCEPT !.pc = "page"])

(* A page of the size requested: the page size, or what the topic's result  *)
(* limit leaves of it.  The answer's itemsPerPage repeats that size.        *)
ReceivePage(r) ==
  /\ At(r, "waiting") /\ ~TooLarge(r)
  /\ \E size \in 1..PageSize :
       LET page == Page(Found(run[r].target), run[r].start, size) IN
       \/ /\ PersistPage(r, page, run[r].start + size)
          /\ UNCHANGED faults
       \/ /\ Inject("short_page")
          /\ \E some \in (SUBSET page) \ {page} : PersistPage(r, some, run[r].start + size)
  /\ UNCHANGED <<clock, origin, verdict>>

(* An answer without entries and with itemsPerPage 0: the end of the        *)
(* result, or a window that is paused.                                      *)
ReceiveEmpty(r) ==
  LET total == Cardinality(Found(run[r].target)) IN
  /\ At(r, "waiting") /\ ~TooLarge(r)
  /\ \/ /\ run[r].start >= total
        /\ PersistPage(r, {}, total)
        /\ UNCHANGED faults
     \/ /\ run[r].start < total /\ Inject("empty_page")
        /\ Pause(r)
        /\ UNCHANGED persisted
  /\ UNCHANGED <<clock, origin, verdict>>

(* The cursors a raising window leaves: the child fails, then the parent,   *)
(* which is then also the cursor _record_error finds.                       *)
FailChild(r) ==
  IF IsRoot(r) THEN UNCHANGED child
  ELSE child' = PutChild(M(r), Key(r),
                         [ChildAt(M(r), Key(r)) EXCEPT !.status = "failed"])

FailCursors(r) == FailChild(r) /\ parent' = [parent EXCEPT ![M(r)].status = "failed"]

(* The request, the parser or the pagination check raises; so does a retry  *)
(* beyond the request limit.  The other mappings still get their turn.      *)
WindowFails(r) ==
  /\ At(r, "waiting")
  /\ Inject("error") \/ (run[r].requests >= MaxRequests /\ Inject("transient"))
  /\ FailCursors(r)
  /\ Set(r, Advance([run[r] EXCEPT !.errors = TRUE]))
  /\ UNCHANGED <<clock, persisted, origin, verdict>>

(* A 403 ends the run.                                                      *)
Forbidden(r) ==
  /\ At(r, "waiting") /\ Inject("forbidden")
  /\ FailCursors(r)
  /\ Set(r, [run[r] EXCEPT !.pc = "finish", !.errors = TRUE])
  /\ UNCHANGED <<clock, persisted, origin, verdict>>

-----------------------------------------------------------------------------
(* _collect_incremental_mapping: what follows a window *)

(* Faulty variant: only the first half is queued.                          *)
requeue_first(pending, halves) == <<Head(halves)>> \o Tail(pending)

(* pending[0:1] = halves                                                    *)
requeue(pending, halves) == halves \o Tail(pending)

RootOutcome(r) ==
  /\ At(r, "outcome") /\ IsRoot(r)
  /\ \/ /\ run[r].outcome = "split"
        /\ SavePartition(r, run[r].halves)
        /\ Set(r, [run[r] EXCEPT !.pc = "child", !.pending = run[r].halves])
     \/ /\ run[r].outcome # "split"
        /\ Set(r, AfterOutcome([run[r] EXCEPT
                   !.succeeded = @ \/ run[r].outcome = "succeeded"]))
        /\ UNCHANGED parent
  /\ UNCHANGED <<clock, child, persisted, origin, verdict, faults>>

ChildOutcome(r) ==
  /\ At(r, "outcome") /\ ~IsRoot(r)
  /\ LET pending == run[r].pending
         rest == CASE run[r].outcome = "split"     -> requeue(pending, run[r].halves)
                   [] run[r].outcome = "succeeded" -> Tail(pending)
                   [] run[r].outcome = "partial"   -> pending
     IN /\ SavePartition(r, rest)
        /\ Set(r, IF run[r].outcome = "partial" THEN AfterOutcome(run[r])
                  ELSE [run[r] EXCEPT !.pc = "child", !.pending = rest])
  /\ UNCHANGED <<clock, child, persisted, origin, verdict, faults>>

FinishRun(r) ==
  /\ At(r, "finish")
  /\ verdict' = [verdict EXCEPT ![r] = terminal_status(run[r])]
  /\ Set(r, Idle)
  /\ UNCHANGED <<clock, parent, child, persisted, origin, faults>>

(* The process dies: its ingestion run stays running.                       *)
Crash(r) ==
  /\ ~At(r, "idle") /\ Inject("crash")
  /\ Set(r, Idle)
  /\ UNCHANGED <<clock, parent, child, persisted, origin, verdict>>

Tick ==
  /\ clock < MaxClock
  /\ clock' = clock + 1
  /\ UNCHANGED <<parent, child, persisted, origin, run, verdict, faults>>

Collect(r) ==
  \/ ResumePartition(r) \/ OpenRoot(r) \/ SkipChild(r) \/ OpenChild(r)
  \/ CompletePartition(r) \/ LimitReached(r) \/ Send(r) \/ SplitWindow(r)
  \/ ReceivePage(r) \/ ReceiveEmpty(r) \/ RootOutcome(r) \/ ChildOutcome(r)
  \/ FinishRun(r)

Fails(r) == RunTooSlow(r) \/ Retry(r) \/ WindowFails(r) \/ Forbidden(r) \/ Crash(r)

Next == Tick \/ \E r \in Runs : StartRun(r) \/ Collect(r) \/ Fails(r)

(* Time passes, a started run goes on, and a run is started again and again *)
(* by the daily schedule.  Faults are bounded, never forced.                *)
Fairness ==
  /\ WF_vars(Tick)
  /\ \A r \in Runs : WF_vars(StartRun(r)) /\ WF_vars(Collect(r))

Spec == Init /\ [][Next]_vars
FairSpec == Spec /\ Fairness

-----------------------------------------------------------------------------
(* Properties *)

TypeOK ==
  /\ clock \in 0..MaxClock
  /\ DOMAIN parent = Mappings
  /\ \A m \in Mappings :
       /\ parent[m].status \in CursorStatuses
       /\ parent[m].window \in Windows \cup {NoWindow}
       /\ parent[m].next \in Nat
       /\ parent[m].until \in Ticks \cup {Never}
       /\ \A i \in DOMAIN parent[m].partition.pending :
            parent[m].partition.pending[i] \in Windows
       /\ DOMAIN child[m] \subseteq Windows \X Windows
       /\ \A k \in DOMAIN child[m] : child[m][k] \in Child
  /\ persisted \in [Mappings -> SUBSET Articles]
  /\ verdict \in [Runs -> Verdicts]

(* The cursor never passes unpersisted work: once a mapping has been        *)
(* collected up to an instant, every article of its history that a query    *)
(* could find by then is in Silver - whatever the splits, pages, limits,    *)
(* errors and crashes on the way, and however late articles appear within   *)
(* the overlap.                                                             *)
NoGap ==
  \A m \in Mappings : parent[m].until # Never =>
    \A a \in Articles :
      /\ Written(origin[m]) <= Submitted[a] /\ Submitted[a] <= Written(parent[m].until)
      /\ Visible[a] <= parent[m].until
      => a \in persisted[m]

(* The checkpoint of a partitioned parent belongs to the window the parent  *)
(* is collecting, and no instant of that window is lost: each lies in a     *)
(* child still pending or in one that succeeded.                            *)
PartitionCovers ==
  \A m \in Mappings :
    LET root == parent[m].partition.root
        pending == parent[m].partition.pending IN
    root # NoWindow =>
      /\ root = parent[m].window
      /\ \A t \in root.from..root.until :
           \/ \E i \in DOMAIN pending : t \in pending[i].from..pending[i].until
           \/ \E k \in DOMAIN child[m] :
                k[1] = root /\ child[m][k].status = "succeeded" /\ t \in k[2].from..k[2].until

(* A child committed as succeeded is never queried again, even when the run *)
(* dies before the parent strikes it off.                                   *)
ChildrenStayDone ==
  [][\A m \in Mappings : \A k \in DOMAIN child[m] \cap DOMAIN child'[m] :
       child[m][k].status = "succeeded" => child'[m][k] = child[m][k]]_vars

(* An unfinished window is resumed, never abandoned, and its pages are not  *)
(* requested again from the start.                                          *)
UnfinishedIsResumed ==
  [][\A m \in Mappings :
       parent[m].status \in {"running", "partial", "failed"} =>
         /\ parent'[m].window = parent[m].window
         /\ parent'[m].next >= parent[m].next \/ parent'[m].status = "succeeded"]_vars

(* A run reported as succeeded has brought every mapping's cursor there.    *)
HonestVerdict ==
  [][\A r \in Runs : verdict[r] = "running" /\ verdict'[r] = "succeeded" =>
       \A m \in Mappings : parent[m].status = "succeeded"]_vars

(* Every article from the first window on reaches Silver, although limits,  *)
(* errors and crashes cut runs short.  This is promised to the mapping of   *)
(* highest priority only: each run starts with it, and it may use up the    *)
(* requests of every run.                                                   *)
EventuallyCollected ==
  <>[](\A a \in Articles :
    Written(origin[1]) <= Submitted[a] /\ Submitted[a] <= Written(MaxClock)
    => a \in persisted[1])
=============================================================================
