--------------------------- MODULE CoverageLedger ---------------------------
(***************************************************************************)
(* The coverage ledger over the arXiv backfill: CoverageDeriver.rebuild    *)
(* and _derive_arxiv of observatory_operations/coverage.py.                *)
(*                                                                         *)
(* A backfill, a collection and the command "coverage rebuild" end with a  *)
(* rebuild: it derives one row per topic from the cursors and the matches, *)
(* compares it with the row it has read, and commits what differs.  The    *)
(* registry gives a topic one arXiv mapping, so a row is a mapping's.      *)
(***************************************************************************)
EXTENDS ArxivBackfill

VARIABLES
  coverage,   \* coverage[m]: the row of topic_source_coverage, or NoRow
  draft       \* draft[r]: rows a rebuild has read and derived

ledgerVars == <<coverage, draft>>
allVars == <<vars, ledgerVars>>

-----------------------------------------------------------------------------
(* _derive_arxiv *)

CoverageStatuses == {"complete", "partial", "empty", "unknown"}
Bounds == [from : Int, until : Int]
Row == [status : CoverageStatuses, target : Bounds, covered : Bounds,
        observations : Nat, missing : Nat]
NoRow == [status |-> "none", target |-> NoWindow, covered |-> NoWindow,
          observations |-> 0, missing |-> 0]
NoDraft == [known |-> [m \in Mappings |-> NoRow], derived |-> [m \in Mappings |-> NoRow]]

Hull(windows) ==
  IF windows = {} THEN NoWindow
  ELSE [from |-> Min({w.from : w \in windows}), until |-> Max({w.until : w \in windows})]

(* Faulty variant: gaps between windows go unnoticed.                       *)
cursor_gaps_none(windows) == {}

(* _cursor_gaps: where a window starts after every earlier one has ended.   *)
cursor_gaps(windows) ==
  {f \in {w.from : w \in windows} :
     /\ \E w \in windows : w.from < f
     /\ \A w \in windows : w.from < f => w.until < f}

Succeeded(m) == {w \in DOMAIN cursor[m] : cursor[m][w].status = "succeeded"}

(* Faulty variant: only failed cursors count as unresolved.                 *)
unresolved_failed(m) == {w \in DOMAIN cursor[m] : cursor[m][w].status = "failed"}

unresolved(m) == DOMAIN cursor[m] \ Succeeded(m)

coverage_status(m) ==
  CASE DOMAIN cursor[m] = {} -> "unknown"
    [] DOMAIN cursor[m] # {} ->
         IF unresolved(m) # {} \/ cursor_gaps(DOMAIN cursor[m]) # {} THEN "partial"
         ELSE IF persisted[m] = {} THEN "empty" ELSE "complete"

derive_arxiv(m) ==
  [status |-> coverage_status(m),
   target |-> Hull(DOMAIN cursor[m]), covered |-> Hull(Succeeded(m)),
   observations |-> Cardinality(persisted[m]),
   missing |-> Cardinality(unresolved(m)) + Cardinality(cursor_gaps(DOMAIN cursor[m]))]

-----------------------------------------------------------------------------
(* rebuild *)

LedgerInit ==
  /\ Init
  /\ coverage = [m \in Mappings |-> NoRow]
  /\ draft = [r \in Runs |-> NoDraft]

(* A collection or the command "coverage rebuild" rebuilds on its own.      *)
StartRebuild(r) ==
  /\ At(r, "idle")
  /\ Set(r, [Idle EXCEPT !.pc = "rebuild"])
  /\ UNCHANGED <<enabled, cursor, latest, persisted, verdict, faults, ledgerVars>>

Derive(r) ==
  /\ At(r, "rebuild")
  /\ draft' = [draft EXCEPT ![r] =
       [known |-> coverage,
        derived |-> [m \in Mappings |-> IF m \in enabled THEN derive_arxiv(m) ELSE NoRow]]]
  /\ Set(r, [Idle EXCEPT !.pc = "commit"])
  /\ UNCHANGED <<enabled, cursor, latest, persisted, verdict, faults, coverage>>

(* An INSERT finds the row there, or an UPDATE finds it gone.               *)
Conflict(r, m) ==
  LET known == draft[r].known[m]
      derived == draft[r].derived[m] IN
  derived \notin {NoRow, known} /\ (known = NoRow) # (coverage[m] = NoRow)

(* An UPDATE writes the columns that differ from the row that was read.     *)
Merged(r, m) ==
  LET known == draft[r].known[m]
      derived == draft[r].derived[m] IN
  IF derived = NoRow /\ known = NoRow THEN coverage[m]
  ELSE IF derived = NoRow THEN NoRow
  ELSE [column \in DOMAIN derived |->
          IF derived[column] # known[column] THEN derived[column] ELSE coverage[m][column]]

CommitCoverage(r) ==
  /\ At(r, "commit")
  /\ coverage' = IF \E m \in Mappings : Conflict(r, m) THEN coverage
                 ELSE [m \in Mappings |-> Merged(r, m)]
  /\ draft' = [draft EXCEPT ![r] = NoDraft]
  /\ Set(r, Idle)
  /\ UNCHANGED <<enabled, cursor, latest, persisted, verdict, faults>>

CrashLedger(r) == Crash(r) /\ draft' = [draft EXCEPT ![r] = NoDraft] /\ UNCHANGED coverage

Rebuild(r) == Derive(r) \/ CommitCoverage(r)

Start(r) == \E range \in Ranges : StartRun(r, range)

LedgerNext ==
  \/ \E r \in Runs :
       \/ (Start(r) \/ Collect(r) \/ Fails(r)) /\ UNCHANGED ledgerVars
       \/ StartRebuild(r) \/ Rebuild(r) \/ CrashLedger(r)
  \/ \E m \in Mappings : Sync(m) /\ UNCHANGED ledgerVars

(* The operator repeats every backfill, and a started command goes on.      *)
Fairness ==
  \A r \in Runs :
    /\ WF_allVars((Collect(r) /\ UNCHANGED ledgerVars) \/ Rebuild(r))
    /\ \A range \in Ranges : SF_allVars(StartRun(r, range) /\ UNCHANGED ledgerVars)

Spec == LedgerInit /\ [][LedgerNext]_allVars
FairSpec == Spec /\ Fairness

-----------------------------------------------------------------------------
(* Properties *)

Locals == [pc : Labels \cup {"commit"}, range : Bounds, todo : SUBSET Mappings,
           pending : Seq(Bounds), target : Bounds, start : Nat, requests : 0..MaxRequests,
           errors : BOOLEAN, succeeded : BOOLEAN, safety : BOOLEAN]

TypeOK ==
  /\ enabled \subseteq Mappings
  /\ DOMAIN cursor = Mappings /\ latest \in [Mappings -> Bounds]
  /\ \A m \in Mappings :
       /\ IsFiniteSet(DOMAIN cursor[m]) /\ DOMAIN cursor[m] \subseteq Bounds
       /\ \A w \in DOMAIN cursor[m] : cursor[m][w] \in [status : CursorStatuses, next : Nat]
  /\ persisted \in [Mappings -> SUBSET Articles]
  /\ run \in [Runs -> Locals]
  /\ verdict \in [Runs -> [range : Bounds, mappings : SUBSET Mappings, status : Verdicts]]
  /\ coverage \in [Mappings -> Row \cup {NoRow}]
  /\ draft \in [Runs -> [known : [Mappings -> Row \cup {NoRow}],
                        derived : [Mappings -> Row \cup {NoRow}]]]
  /\ faults \in 0..MaxFaults

(* A window whose cursor succeeded is collected in full, and stays out of   *)
(* every later backfill: whatever limits, errors, crashes and concurrent    *)
(* runs its pages were cut by, none of them is missing.                     *)
WindowsHaveNoGap ==
  \A m \in Mappings : \A w \in Succeeded(m) : Matching(w, Articles) \subseteq persisted[m]

(* The cursor of an unfinished window names a page not yet passed: all      *)
(* before it is in Silver, so a rerun resumes there without loss.           *)
ResumesWithoutLoss ==
  \A m \in Mappings : \A w \in DOMAIN cursor[m] :
    Page(Matching(w, Articles), 0, cursor[m][w].next) \subseteq persisted[m]

(* What the ledger claims is true of the target it names: "complete" and    *)
(* "empty" say that nothing of the target is missing in Silver, and "empty" *)
(* that there was nothing.                                                  *)
ClaimsAreHonest ==
  \A m \in Mappings : coverage[m].status \in {"complete", "empty"} =>
    /\ Matching(coverage[m].target, Articles) \subseteq persisted[m]
    /\ coverage[m].status = "empty" => Matching(coverage[m].target, Articles) = {}

(* A backfill that reports success has collected its range for every        *)
(* mapping, through splits, skipped windows and resumed ones.               *)
HonestBackfill ==
  \A r \in Runs : verdict[r].status = "succeeded" =>
    \A m \in verdict[r].mappings : Matching(verdict[r].range, Articles) \subseteq persisted[m]

(* Repeating the backfill collects the whole range for the first mapping,   *)
(* although limits, errors and crashes cut runs short, provided a run's     *)
(* requests reach past the splits it repeats.                               *)
EventuallyBackfilled ==
  \A range \in Ranges :
    <>[](1 \in enabled) => <>(Matching(range, Articles) \subseteq persisted[1])

(* A range whose backfill succeeded is not reported partial by the rebuild  *)
(* that follows: the ledger's partial says historical work is unresolved.   *)
SucceededRangeIsComplete ==
  \A r \in Runs : \A m \in Mappings :
    /\ verdict[r].status = "succeeded" /\ m \in verdict[r].mappings
    /\ At(r, "idle")
    /\ coverage[m].target = verdict[r].range
    => coverage[m].status # "partial"
=============================================================================
