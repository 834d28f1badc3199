---------------------------- MODULE ArxivWindow ----------------------------
(***************************************************************************)
(* What incremental collection and backfill of the arXiv collector share:  *)
(* date windows and their partition, the pages arXiv answers a window's    *)
(* query with, what a page leaves in Silver, and the status of a run.      *)
(***************************************************************************)
EXTENDS Integers, Sequences, FiniteSets

CONSTANTS
  MappingCount,   \* enabled mappings, in the order of monitoring priority
  Articles,       \* articles that match the mappings' query
  Submitted,      \* Submitted[a]: tick of the submission date of article a
  Minute,         \* ticks of a minute, the grain of a query's dates
  Threshold,      \* arxiv_large_query_threshold
  MinPartition,   \* arxiv_min_query_partition_minutes
  PageSize,       \* arxiv_page_size
  MaxRequests     \* arxiv_max_requests_per_run

ASSUME SettingsAssumption ==
  /\ MappingCount \in Nat \ {0} /\ Minute \in Nat \ {0}
  /\ Threshold \in Nat \ {0} /\ MinPartition \in Nat \ {0}
  /\ PageSize \in Nat \ {0} /\ MaxRequests \in Nat \ {0}
ASSUME ArticleAssumption ==
  /\ IsFiniteSet(Articles)
  /\ Submitted \in [Articles -> Int]
  /\ \A a, b \in Articles : Submitted[a] = Submitted[b] => a = b

Mappings == 1..MappingCount
NoWindow == [from |-> 0, until |-> 0]

CursorStatuses == {"pending", "running", "partial", "succeeded", "failed"}
Verdicts == {"none", "running", "succeeded", "partial", "failed"}

(* Dates are written to the minute: with_submitted_window.                  *)
Written(t) == t - (t % Minute)

(* The articles of a set that a window's query finds; both ends count.      *)
Matching(w, articles) ==
  {a \in articles : Written(w.from) <= Submitted[a] /\ Submitted[a] <= Written(w.until)}

Position(a, found) == Cardinality({b \in found : Submitted[b] < Submitted[a]})
Page(found, start, size) == {a \in found : Position(a, found) \in start..(start + size - 1)}

(* persist_feed: the page's papers are in Silver and matched to mapping m.  *)
persist_feed(silver, m, page) == [silver EXCEPT ![m] = @ \cup page]

(* Faulty variant: a half must be longer than the minimum.                  *)
split_window_strict(w) ==
  LET middle == w.from + (w.until - w.from) \div 2 IN
  IF middle - w.from <= MinPartition \/ w.until - middle <= MinPartition THEN <<>>
  ELSE <<[from |-> w.from, until |-> middle], [from |-> middle, until |-> w.until]>>

(* _split_window: the halves of a window, none when they would be too short.*)
split_window(w) ==
  LET middle == w.from + (w.until - w.from) \div 2 IN
  IF middle - w.from < MinPartition \/ w.until - middle < MinPartition THEN <<>>
  ELSE <<[from |-> w.from, until |-> middle], [from |-> middle, until |-> w.until]>>

(* The accumulator of a run: errors and safety stops it met, and whether a  *)
(* window succeeded.  Faulty variant: a safety stop does not count.         *)
terminal_status_complete(locals) ==
  IF locals.errors /\ ~locals.succeeded THEN "failed"
  ELSE IF locals.errors THEN "partial" ELSE "succeeded"

(* _terminal_status.                                                        *)
terminal_status(locals) ==
  IF locals.errors /\ ~locals.succeeded THEN "failed"
  ELSE IF locals.errors \/ locals.safety THEN "partial" ELSE "succeeded"
=============================================================================
