--------------------------- MODULE GithubEvidence ---------------------------
(***************************************************************************)
(* What the read-only reports make of the collector's rows: the cross-day  *)
(* verifier (observatory_operations verification.py), the coverage of a    *)
(* topic (coverage.py, _derive_github), the health of the source           *)
(* (health.py) and the development page of a topic (github_collector       *)
(* queries.py).  Each derives its answer by queries of its own.  One topic *)
(* owns all the mappings; a version of a repository stands for its         *)
(* counters, so that deltas are differences of versions.                   *)
(***************************************************************************)
EXTENDS GithubCollector, FiniteSetsExt

CONSTANTS
  FreshFor,       \* github_freshness_fresh_hours
  VeryStaleAfter  \* github_freshness_very_stale_hours

ASSUME FreshnessAssumption ==
  FreshFor \in Nat \ {0} /\ VeryStaleAfter \in Nat /\ FreshFor < VeryStaleAfter

-----------------------------------------------------------------------------
(* GithubQueryService.development *)

_topic_repositories == {r \in Repositories : Tracked(r)}

(* The second of _latest_two_snapshots; Newest(r) is the first one.         *)
Previous(r) ==
  CHOOSE d \in Rows(r) \ {Newest(r)} :
    \A e \in Rows(r) \ {Newest(r)} : snapshots[r][e].observed <= snapshots[r][d].observed

(* One entry of top_repositories: when it was last observed, and the delta  *)
(* to its previous row if there is one.                                     *)
Unknown == [known |-> FALSE, by |-> 0]
Known(number) == [known |-> TRUE, by |-> number]

_development_repository(r) ==
  [latest |-> IF Rows(r) = {} THEN Never ELSE snapshots[r][Newest(r)].observed,
   delta  |-> IF Cardinality(Rows(r)) > 1
                THEN Known(snapshots[r][Newest(r)].version - snapshots[r][Previous(r)].version)
                ELSE Unknown]

(* Repositories with a latest row, and those with a previous one.           *)
latest   == {r \in _topic_repositories : Rows(r) # {}}
previous == {r \in _topic_repositories : Cardinality(Rows(r)) > 1}

(* The summary: deltas are added up only if every repository with a row has *)
(* a previous one too.                                                      *)
development ==
  [repositories |-> _topic_repositories,
   latest |-> IF latest = {} THEN Never
              ELSE Max({snapshots[r][Newest(r)].observed : r \in latest}),
   delta |-> IF latest # {} /\ Cardinality(previous) = Cardinality(latest)
               THEN Known(MapThenSumSet(LAMBDA r : snapshots[r][Newest(r)].version, latest)
                          - MapThenSumSet(LAMBDA r : snapshots[r][Previous(r)].version, latest))
               ELSE Unknown]

-----------------------------------------------------------------------------
(* CoverageDeriver._derive_github *)

(* MissingObservationDetector.between: the days without an observation      *)
(* between the first and the last.                                          *)
between(dates) ==
  IF Cardinality(dates) < 2 THEN {} ELSE (Min(dates)..Max(dates)) \ dates

derive_github ==
  LET dates == UNION {Rows(r) : r \in _topic_repositories} IN
  [status |-> IF dates # {} THEN "forward_only"
              ELSE IF /\ \A m \in Mappings : discovery[m] = "succeeded"
                      /\ _topic_repositories = {}
              THEN "empty" ELSE "unknown",
   until |-> IF dates = {} THEN Never ELSE Max(dates),
   observations |-> Cardinality(dates),
   expected |-> IF dates = {} THEN 0 ELSE Max(dates) - Min(dates) + 1,
   missing |-> Cardinality(between(dates))]

-----------------------------------------------------------------------------
(* GithubCrossDayVerifier.verify *)

Observed == {r \in Repositories : Rows(r) # {}}

(* A row is filed under another date than it was observed on.               *)
fabricated_dates == {r \in Observed : \E d \in Rows(r) : Date(snapshots[r][d].observed) # d}

(* The poll state does not point to the row of the last date.               *)
poll_inconsistencies ==
  {r \in Observed : poll[r].last # snapshots[r][Max(Rows(r))].observed}

(* The summary of the topic's page is compared with its entries.            *)
_verify_topic_deltas ==
  LET summary == development
      entry == [r \in summary.repositories |-> _development_repository(r)]
      observed == {r \in DOMAIN entry : entry[r].latest # Never}
      expected ==
        IF observed # {} /\ \A r \in observed : entry[r].delta.known
          THEN Known(MapThenSumSet(LAMBDA r : entry[r].delta.by, observed))
          ELSE Unknown
  IN summary.delta = expected

verify ==
  LET dates == UNION {Rows(r) : r \in Observed} IN
  IF Cardinality(dates) < 2 \/ \A r \in Observed : Cardinality(Rows(r)) < 2 THEN "pending"
  ELSE IF fabricated_dates # {} \/ poll_inconsistencies # {} \/ ~ _verify_topic_deltas
  THEN "failed"
  ELSE "passed"

-----------------------------------------------------------------------------
(* OperationsService *)

freshness_state(observed) ==
  IF observed = Never THEN "unknown"
  ELSE LET age == IF clock < observed THEN 0 ELSE clock - observed IN
       IF age <= FreshFor THEN "fresh"
       ELSE IF age <= VeryStaleAfter THEN "stale" ELSE "very_stale"

(* The newest row of any repository, tracked or not.                        *)
latest_snapshot_at ==
  LET observed == {snapshots[r][Newest(r)].observed : r \in Observed} IN
  IF observed = {} THEN Never ELSE Max(observed)

(* The source is active, configured and has mappings; its last run is in    *)
(* verdict, whether discovery or snapshot.                                  *)
_collector_state ==
  IF verdict = "none" THEN "not_initialized"
  ELSE IF verdict = "partial" THEN "degraded"
  ELSE IF freshness_state(latest_snapshot_at) \in {"stale", "very_stale"} THEN "degraded"
  ELSE "healthy"

(* Forward-only coverage is never partial.  What registry, scheduler and    *)
(* the other source report can only degrade the state further: they are     *)
(* taken to be in order.                                                    *)
_overall_state ==
  LET coverage == derive_github IN
  IF \/ _collector_state # "healthy"
     \/ coverage.status \in {"partial", "unknown"}
     \/ coverage.missing > 0
  THEN "degraded" ELSE "healthy"

-----------------------------------------------------------------------------
(* Properties *)

(* The reports agree about whatever the collector commits, in the middle of *)
(* runs and after failures and crashes: the cross-day verifier never finds  *)
(* the evidence inconsistent; coverage is forward-only exactly when the     *)
(* page shows an observation, up to the same day and with its days adding   *)
(* up; a topic called empty has nothing that waits to be observed; the      *)
(* source's newest row is never older than the page's, nor there before its *)
(* first run; and a healthy system hides no topic that waits for its first  *)
(* observation, and none whose days have a hole.                            *)
ReportsAgree ==
  LET coverage == derive_github
      page == development IN
  /\ verify # "failed"
  /\ coverage.status = "forward_only" <=> page.latest # Never
  /\ coverage.status = "forward_only" =>
       /\ coverage.until = Date(page.latest)
       /\ coverage.expected = coverage.observations + coverage.missing
  /\ coverage.status = "empty" => page.repositories = {}
  /\ page.latest <= latest_snapshot_at
  /\ _collector_state = "not_initialized" => Observed = {}
  /\ _overall_state = "healthy" =>
       /\ page.repositories # {} => page.latest # Never
       /\ page.latest # Never =>
            \A d \in Dates : (\E r \in page.repositories : \E e \in Rows(r) : e < d)
                              /\ d < Date(page.latest)
              => \E r \in page.repositories : d \in Rows(r)
=============================================================================
