--------------------------- MODULE ArxivBackfill ---------------------------
(***************************************************************************)
(* Backfill of the arXiv collector: backfill and the page loop             *)
(* _collect_window of arxiv_collector/service.py, over the durable cursor  *)
(* of each date window.                                                    *)
(*                                                                         *)
(* An operator asks for a range of dates.  It is cut into windows, and for *)
(* every mapping each window is collected page by page unless its cursor   *)
(* already succeeded.  A window too large is replaced by its halves, which *)
(* have cursors of their own.  After a limit the loop goes on: the windows *)
(* that follow are opened and paused at once.  The operator runs the       *)
(* command again until the range is done.  Every action ends with one      *)
(* commit.  The range lies in the past: no article appears meanwhile.      *)
(***************************************************************************)
EXTENDS ArxivWindow, FiniteSetsExt

CONSTANTS
  Runs,           \* processes that may run a backfill
  Ranges,         \* ranges of dates an operator asks for
  WindowDays,     \* arxiv_backfill_window_days, in ticks
  MaxFaults,      \* bound: faults injected in one behaviour
  Faults          \* kinds of fault the environment may inject

FaultKinds == {"crash", "limit", "transient", "error", "garbled", "forbidden",
               "empty_page", "disable"}

ASSUME BackfillAssumption ==
  /\ WindowDays \in Nat \ {0}
  /\ IsFiniteSet(Ranges)
  /\ \A range \in Ranges : range \in [from : Int, until : Int] /\ range.from < range.until
  /\ MaxFaults \in Nat /\ Faults \subseteq FaultKinds

VARIABLES
  enabled,    \* enabled mappings of active topics, as the registry has them
  cursor,     \* cursor[m]: the "backfill" cursors of mapping m, by window
  latest,     \* latest[m]: the window whose row has the newest updated_at
  persisted,  \* persisted[m]: articles in Silver, matched to mapping m
  run,        \* run[r]: the locals of a backfill call
  verdict,    \* verdict[r]: range, mappings and status of the last run of r
  faults      \* number of faults injected so far

vars == <<enabled, cursor, latest, persisted, run, verdict, faults>>

-----------------------------------------------------------------------------
(* Types *)

Labels == {"idle", "mapping", "window", "page", "waiting", "finish", "rebuild"}
(* range: the range asked for; todo: the mappings still to do, with the     *)
(* current one; pending: its windows still to do; target: the window being  *)
(* queried; start: the position of the request in flight.                   *)
Idle == [pc |-> "idle", range |-> NoWindow, todo |-> {}, pending |-> <<>>,
         target |-> NoWindow, start |-> 0, requests |-> 0,
         errors |-> FALSE, succeeded |-> FALSE, safety |-> FALSE]
NoVerdict == [range |-> NoWindow, mappings |-> {}, status |-> "none"]

At(r, label) == run[r].pc = label
Set(r, locals) == run' = [run EXCEPT ![r] = locals]

(* _enabled_mappings: the mappings have their turns in order of priority.   *)
M(r) == Min(run[r].todo)

Inject(kind) ==
  /\ kind \in Faults /\ faults < MaxFaults
  /\ faults' = faults + 1

-----------------------------------------------------------------------------
(* Windows and cursors *)

window_count(range) == (range.until - range.from + WindowDays - 1) \div WindowDays

(* partition_windows: consecutive windows of WindowDays, the last cut off.  *)
partition_windows(range) ==
  LET from(i) == range.from + (i - 1) * WindowDays
      least(a, b) == IF a < b THEN a ELSE b IN
  [i \in 1..window_count(range) |->
     [from |-> from(i), until |-> least(from(i) + WindowDays, range.until)]]

NewCursor == [status |-> "pending", next |-> 0]
CursorAt(m, w) == IF w \in DOMAIN cursor[m] THEN cursor[m][w] ELSE NewCursor
PutCursor(m, w, row) ==
  [cursor EXCEPT ![m] = [v \in DOMAIN @ \cup {w} |-> IF v = w THEN row ELSE @[v]]]

(* The target's row takes a status and a next_start, in the page's commit.  *)
Save(r, status, next) ==
  /\ cursor' = PutCursor(M(r), run[r].target, [status |-> status, next |-> next])
  /\ latest' = [latest EXCEPT ![M(r)] = run[r].target]

Saved(r) == cursor[M(r)][run[r].target]

Found(r) == Matching(run[r].target, Articles)

-----------------------------------------------------------------------------
(* backfill *)

Init ==
  /\ enabled = Mappings
  /\ cursor = [m \in Mappings |-> <<>>]
  /\ latest = [m \in Mappings |-> NoWindow]
  /\ persisted = [m \in Mappings |-> {}]
  /\ run = [r \in Runs |-> Idle]
  /\ verdict = [r \in Runs |-> NoVerdict]
  /\ faults = 0

(* Without an enabled mapping the command is refused.                       *)
StartRun(r, range) ==
  /\ At(r, "idle") /\ enabled # {}
  /\ Set(r, [Idle EXCEPT !.pc = "mapping", !.range = range, !.todo = enabled])
  /\ verdict' = [verdict EXCEPT ![r] =
       [range |-> range, mappings |-> enabled, status |-> "running"]]
  /\ UNCHANGED <<enabled, cursor, latest, persisted, faults>>

(* The runtime limit is exceeded before a mapping.                          *)
RunTooSlow(r) ==
  /\ At(r, "mapping") /\ Inject("limit")
  /\ Set(r, [run[r] EXCEPT !.pc = "finish", !.safety = TRUE])
  /\ UNCHANGED <<enabled, cursor, latest, persisted, verdict>>

OpenMapping(r) ==
  /\ At(r, "mapping")
  /\ Set(r, [run[r] EXCEPT !.pc = "window", !.pending = partition_windows(run[r].range)])
  /\ UNCHANGED <<enabled, cursor, latest, persisted, verdict, faults>>

(* No window of the mapping is left: the next one, unless no request is.    *)
NextMapping(r) ==
  /\ At(r, "window") /\ run[r].pending = <<>>
  /\ Set(r, IF run[r].requests >= MaxRequests
            THEN [run[r] EXCEPT !.pc = "finish", !.safety = TRUE]
            ELSE [run[r] EXCEPT !.pc = IF run[r].todo = {M(r)} THEN "finish" ELSE "mapping",
                                !.todo = @ \ {M(r)}])
  /\ UNCHANGED <<enabled, cursor, latest, persisted, verdict, faults>>

Done(r, w) == CursorAt(M(r), w).status = "succeeded"

SkipWindow(r) ==
  /\ At(r, "window") /\ run[r].pending # <<>> /\ Done(r, Head(run[r].pending))
  /\ Set(r, [run[r] EXCEPT !.pending = Tail(@), !.succeeded = TRUE])
  /\ UNCHANGED <<enabled, cursor, latest, persisted, verdict, faults>>

(* The cursor is created or reopened where it stopped.  A row left running  *)
(* by a crash takes the values it has: no UPDATE, its updated_at stays.     *)
OpenWindow(r) ==
  LET m == M(r)
      w == Head(run[r].pending)
      row == CursorAt(m, w) IN
  /\ At(r, "window") /\ run[r].pending # <<>> /\ ~Done(r, w)
  /\ cursor' = PutCursor(m, w, [row EXCEPT !.status = "running"])
  /\ latest' = IF row.status = "running" THEN latest ELSE [latest EXCEPT ![m] = w]
  /\ Set(r, [run[r] EXCEPT !.pc = "page", !.pending = Tail(@), !.target = w])
  /\ UNCHANGED <<enabled, persisted, verdict, faults>>

-----------------------------------------------------------------------------
(* _collect_window: the page loop *)

Back(locals) == [locals EXCEPT !.pc = "window", !.target = NoWindow, !.start = 0]

(* Faulty variant: the page refused counts as read.                         *)
stopped_at_next(r) == Saved(r).next + 1

(* next_start as the last page left it.                                     *)
stopped_at(r) == Saved(r).next

(* _pause_cursor.                                                           *)
Pause(r) ==
  /\ Save(r, "partial", stopped_at(r))
  /\ Set(r, Back([run[r] EXCEPT !.safety = TRUE]))

(* A limit on the requests, the runtime, the pages or the topic's results.  *)
LimitReached(r) ==
  /\ At(r, "page")
  /\ \/ run[r].requests >= MaxRequests /\ UNCHANGED faults
     \/ Inject("limit")
  /\ Pause(r)
  /\ UNCHANGED <<enabled, persisted, verdict>>

(* A commit expires the row: next_start is read again for every request.    *)
Send(r) ==
  /\ At(r, "page") /\ run[r].requests < MaxRequests
  /\ Set(r, [run[r] EXCEPT !.pc = "waiting", !.start = Saved(r).next, !.requests = @ + 1])
  /\ UNCHANGED <<enabled, cursor, latest, persisted, verdict, faults>>

Retry(r) ==
  /\ At(r, "waiting") /\ run[r].requests < MaxRequests /\ Inject("transient")
  /\ Set(r, [run[r] EXCEPT !.requests = @ + 1])
  /\ UNCHANGED <<enabled, cursor, latest, persisted, verdict>>

TooLarge(r) == run[r].start = 0 /\ Cardinality(Found(r)) > Threshold

(* Faulty variant: the halves go to the end and replace what was pending.   *)
queue_halves_only(halves, pending) == halves

(* pending[0:0] = halves                                                    *)
queue(halves, pending) == halves \o pending

(* A window that holds too much is left partial and its halves are queued   *)
(* in front; it is paused when it is too short to be split.                 *)
SplitWindow(r) ==
  /\ At(r, "waiting") /\ TooLarge(r)
  /\ LET halves == split_window(run[r].target) IN
       \/ /\ halves = <<>>
          /\ Pause(r)
       \/ /\ halves # <<>>
          /\ Save(r, "partial", Saved(r).next)
          /\ Set(r, Back([run[r] EXCEPT !.pending = queue(halves, @)]))
  /\ UNCHANGED <<enabled, persisted, verdict, faults>>

(* Faulty variant: the last result is left for a page that never comes.     *)
Exhausted_early(r, next) == next + 1 >= Cardinality(Found(r))

Exhausted(r, next) == next >= Cardinality(Found(r))

(* The page is persisted and the cursor moves on in the same commit.  The   *)
(* size is the page size or what the topic's result limit leaves of it.     *)
ReceivePage(r) ==
  /\ At(r, "waiting") /\ ~TooLarge(r)
  /\ \E size \in 1..PageSize :
       LET next == run[r].start + size IN
       /\ persisted' = persist_feed(persisted, M(r), Page(Found(r), run[r].start, size))
       /\ \/ /\ Exhausted(r, next)
             /\ Save(r, "succeeded", next)
             /\ Set(r, Back([run[r] EXCEPT !.succeeded = TRUE]))
          \/ /\ ~Exhausted(r, next)
             /\ Save(r, Saved(r).status, next)
             /\ Set(r, [run[r] EXCEPT !.pc = "page"])
  /\ UNCHANGED <<enabled, verdict, faults>>

(* An answer without entries: the end of the result, or a pause before it.  *)
ReceiveEmpty(r) ==
  LET total == Cardinality(Found(r)) IN
  /\ At(r, "waiting") /\ ~TooLarge(r)
  /\ \/ /\ run[r].start >= total
        /\ Save(r, "succeeded", total)
        /\ Set(r, Back([run[r] EXCEPT !.succeeded = TRUE]))
        /\ UNCHANGED faults
     \/ /\ run[r].start < total /\ Inject("empty_page")
        /\ Pause(r)
  /\ UNCHANGED <<enabled, persisted, verdict>>

(* _record_error fails the mapping's cursor with the newest updated_at.     *)
RecordError(m) ==
  /\ cursor' = PutCursor(m, latest[m], [CursorAt(m, latest[m]) EXCEPT !.status = "failed"])
  /\ UNCHANGED latest

(* The request raises; so does a retry beyond the request limit.  The       *)
(* mapping's next window still gets its turn.                               *)
RequestFails(r) ==
  /\ At(r, "waiting")
  /\ Inject("error") \/ (run[r].requests >= MaxRequests /\ Inject("transient"))
  /\ RecordError(M(r))
  /\ Set(r, Back([run[r] EXCEPT !.errors = TRUE]))
  /\ UNCHANGED <<enabled, persisted, verdict>>

(* The answer cannot be parsed, or starts elsewhere: the window fails.      *)
ParseFails(r) ==
  /\ At(r, "waiting") /\ Inject("garbled")
  /\ Save(r, "failed", Saved(r).next)
  /\ Set(r, Back([run[r] EXCEPT !.errors = TRUE]))
  /\ UNCHANGED <<enabled, persisted, verdict>>

(* A 403 ends the run.                                                      *)
Forbidden(r) ==
  /\ At(r, "waiting") /\ Inject("forbidden")
  /\ RecordError(M(r))
  /\ Set(r, [Back(run[r]) EXCEPT !.pc = "finish", !.errors = TRUE])
  /\ UNCHANGED <<enabled, persisted, verdict>>

FinishRun(r) ==
  /\ At(r, "finish")
  /\ verdict' = [verdict EXCEPT ![r].status = terminal_status(run[r])]
  /\ Set(r, [Idle EXCEPT !.pc = "rebuild"])
  /\ UNCHANGED <<enabled, cursor, latest, persisted, faults>>

(* The process dies: its ingestion run stays running.                       *)
Crash(r) ==
  /\ ~At(r, "idle") /\ Inject("crash")
  /\ Set(r, Idle)
  /\ UNCHANGED <<enabled, cursor, latest, persisted, verdict>>

(* A registry sync disables a mapping, or enables it again.                 *)
Sync(m) ==
  /\ Inject("disable")
  /\ enabled' = IF m \in enabled THEN enabled \ {m} ELSE enabled \cup {m}
  /\ UNCHANGED <<cursor, latest, persisted, run, verdict>>

Collect(r) ==
  \/ OpenMapping(r) \/ NextMapping(r) \/ SkipWindow(r) \/ OpenWindow(r)
  \/ LimitReached(r) \/ Send(r) \/ SplitWindow(r) \/ ReceivePage(r)
  \/ ReceiveEmpty(r) \/ FinishRun(r)

Fails(r) == RunTooSlow(r) \/ Retry(r) \/ RequestFails(r) \/ ParseFails(r) \/ Forbidden(r)

=============================================================================
