----------------------- MODULE CoverageLedger_proofs -----------------------
(***************************************************************************)
(* Theorems about the arXiv backfill and its coverage ledger, for any      *)
(* mappings, articles, ranges, limits, faults and number of processes; the *)
(* last one assumes that no two processes rebuild the ledger at a time.    *)
(***************************************************************************)
EXTENDS CoverageLedger, FiniteSetTheorems, WellFoundedInduction, TLAPS

-----------------------------------------------------------------------------
(* Least and greatest integers *)

LEMMA LeastNatural ==
  ASSUME NEW S, S \subseteq Nat, S # {}
  PROVE  \E n \in S : \A k \in S : n <= k
<1> DEFINE below == {ss \in Nat \X Nat : ss[1] < ss[2]}
<1>1. below = OpToRel(<, Nat)
  BY Zenon DEF OpToRel
<1>2. IsWellFoundedOn(below, Nat)
  BY <1>1, NatLessThanWellFounded
<1>3. PICK n \in S : \A k \in S : <<k, n>> \notin below
  <2> HIDE DEF below
  <2> QED
    BY <1>2, WFMin
<1>4. ASSUME NEW k \in S PROVE n <= k
  <2>1. <<k, n>> \in Nat \X Nat /\ <<k, n>> \notin below
    BY <1>3
  <2>2. ~(k < n)
    BY <2>1
  <2>3. QED
    BY <2>2
<1>5. QED
  BY <1>4

(* A finite set of integers has a least element: the one with the fewest   *)
(* others below it.                                                        *)
LEMMA LeastInteger ==
  ASSUME NEW S, S \subseteq Int, IsFiniteSet(S), S # {}
  PROVE  Min(S) \in S /\ \A y \in S : Min(S) <= y
<1> DEFINE Below(x) == {y \in S : y < x}
           counts == {Cardinality(Below(x)) : x \in S}
<1>1. ASSUME NEW x \in S
      PROVE  IsFiniteSet(Below(x)) /\ Cardinality(Below(x)) \in Nat
  BY FS_Subset, FS_CardinalityType
<1>2. PICK n \in counts : \A k \in counts : n <= k
  <2>1. counts \subseteq Nat /\ counts # {}
    BY <1>1
  <2> HIDE DEF counts
  <2> QED
    BY <2>1, LeastNatural
<1>3. PICK x \in S : n = Cardinality(Below(x))
  <2>1. n \in counts
    BY <1>2
  <2>2. QED
    BY <2>1, Zenon
<1>4. ASSUME NEW y \in S, y < x PROVE FALSE
  <2>1. Below(y) \in SUBSET Below(x) /\ y \in Below(x) /\ y \notin Below(y)
    <3>1. \A z \in S : z < y => z < x
      BY <1>4
    <3>2. ~(y < y)
      OBVIOUS
    <3>3. QED
      BY <1>4, <3>1, <3>2, Zenon
  <2>2. Below(y) # Below(x)
    BY <2>1
  <2>3. Cardinality(Below(y)) < Cardinality(Below(x))
    <3>1. IsFiniteSet(Below(x)) /\ Cardinality(Below(x)) \in Nat /\ Cardinality(Below(y)) \in Nat
      BY <1>1
    <3>2. Cardinality(Below(y)) <= Cardinality(Below(x))
          /\ (Cardinality(Below(x)) = Cardinality(Below(y)) => Below(x) = Below(y))
      <4> HIDE DEF Below
      <4> QED
        BY <3>1, <2>1, FS_Subset
    <3> HIDE DEF Below
    <3>3. QED
      BY <3>1, <3>2, <2>2
  <2>4. n <= Cardinality(Below(y)) /\ n \in Nat
    BY <1>1, <1>2, <1>3
  <2>5. Cardinality(Below(y)) \in Nat
    BY <1>1
  <2> HIDE DEF Below
  <2>6. QED
    BY <1>3, <2>3, <2>4, <2>5
<1>5. \A y \in S : x <= y
  BY <1>4
<1>6. QED
  BY <1>5 DEF Min

-----------------------------------------------------------------------------
(* Minutes, pages and windows *)

LEMMA WrittenGrows ==
  ASSUME NEW s \in Int, NEW t \in Int
  PROVE  /\ Written(t) \in Int
         /\ s <= t => Written(s) <= Written(t)
  BY SettingsAssumption DEF Written

(* An article's position in a result is below the number of results.       *)
LEMMA PositionBound ==
  ASSUME NEW F \in SUBSET Articles
  PROVE  /\ Cardinality(F) \in Nat
         /\ \A a \in F : Position(a, F) \in Nat /\ Position(a, F) < Cardinality(F)
<1>1. IsFiniteSet(F) /\ Cardinality(F) \in Nat
  BY ArticleAssumption, FS_Subset, FS_CardinalityType
<1>2. ASSUME NEW a \in F
      PROVE  Position(a, F) \in Nat /\ Position(a, F) < Cardinality(F)
  <2> DEFINE before == {b \in F : Submitted[b] < Submitted[a]}
  <2>1. before \in SUBSET F /\ a \notin before
    BY ArticleAssumption
  <2>2. IsFiniteSet(before) /\ Cardinality(before) \in Nat
        /\ Cardinality(before) <= Cardinality(F)
        /\ Cardinality(before) # Cardinality(F)
    <3> HIDE DEF before
    <3> QED
      BY <1>1, <2>1, FS_Subset, FS_CardinalityType
  <2> HIDE DEF before
  <2>3. QED
    BY <1>1, <2>2 DEF Position, before
<1>3. QED
  BY <1>1, <1>2

(* A page after a prefix is a longer prefix; a prefix that is long enough  *)
(* is the whole result.                                                    *)
LEMMA PageExtends ==
  ASSUME NEW F \in SUBSET Articles, NEW start \in Nat, NEW size \in Nat, size > 0
  PROVE  Page(F, 0, start + size) \subseteq Page(F, 0, start) \cup Page(F, start, size)
  BY PositionBound DEF Page

LEMMA PrefixIsAll ==
  ASSUME NEW F \in SUBSET Articles, NEW start \in Nat, start >= Cardinality(F)
  PROVE  Page(F, 0, start) = F
  BY PositionBound DEF Page

LEMMA NoPage ==
  ASSUME NEW F \in SUBSET Articles
  PROVE  Page(F, 0, 0) = {}
  BY PositionBound DEF Page

LEMMA MatchingSubset ==
  ASSUME NEW w
  PROVE  Matching(w, Articles) \in SUBSET Articles
  BY DEF Matching

-----------------------------------------------------------------------------
(* Types: a run with a mapping to do knows it and its range, and the       *)
(* window it queries has a cursor.                                         *)

Turn(r) ==
  /\ run[r].pc \in {"mapping", "window", "page", "waiting"} =>
       run[r].todo # {} /\ run[r].range \in Ranges
  /\ run[r].pc \in {"page", "waiting"} => run[r].target \in DOMAIN cursor[M(r)]

TypeInv == TypeOK /\ \A r \in Runs : Turn(r)

LEMMA FirstMapping ==
  ASSUME TypeOK, NEW r \in Runs, run[r].todo # {}
  PROVE  M(r) \in run[r].todo /\ M(r) \in Mappings
<1>1. run[r].todo \in SUBSET Mappings
  BY DEF TypeOK, Locals
<1>2. Mappings \subseteq Int /\ IsFiniteSet(Mappings)
  BY SettingsAssumption, FS_Interval DEF Mappings
<1>3. IsFiniteSet(run[r].todo) /\ run[r].todo \subseteq Int
  BY <1>1, <1>2, FS_Subset
<1>4. QED
  BY <1>1, <1>3, LeastInteger DEF M

LEMMA PutFacts ==
  ASSUME DOMAIN cursor = Mappings, NEW m \in Mappings, NEW w, NEW row,
         NEW put, put = PutCursor(m, w, row)
  PROVE  /\ DOMAIN put = Mappings
         /\ DOMAIN put[m] = DOMAIN cursor[m] \cup {w}
         /\ put[m][w] = row
         /\ \A v \in DOMAIN cursor[m] : v # w => put[m][v] = cursor[m][v]
         /\ \A n \in Mappings : n # m => put[n] = cursor[n]
BY DEF PutCursor

CursorType ==
  /\ DOMAIN cursor = Mappings
  /\ \A m \in Mappings :
       /\ IsFiniteSet(DOMAIN cursor[m]) /\ DOMAIN cursor[m] \subseteq Bounds
       /\ \A w \in DOMAIN cursor[m] : cursor[m][w] \in [status : CursorStatuses, next : Nat]

LEMMA PutTyped ==
  ASSUME CursorType, NEW m \in Mappings, NEW w \in Bounds,
         NEW row \in [status : CursorStatuses, next : Nat],
         cursor' = PutCursor(m, w, row)
  PROVE  CursorType' /\ w \in DOMAIN cursor'[m]
         /\ \A n \in Mappings : DOMAIN cursor[n] \subseteq DOMAIN cursor'[n]
<1>1. /\ DOMAIN cursor' = Mappings
      /\ DOMAIN cursor'[m] = DOMAIN cursor[m] \cup {w}
      /\ cursor'[m][w] = row
      /\ \A v \in DOMAIN cursor[m] : v # w => cursor'[m][v] = cursor[m][v]
      /\ \A n \in Mappings : n # m => cursor'[n] = cursor[n]
  <2>1. DOMAIN cursor = Mappings
    BY DEF CursorType
  <2>2. QED
    BY <2>1, PutFacts
<1>2. IsFiniteSet(DOMAIN cursor'[m])
  BY <1>1, FS_AddElement DEF CursorType
<1>3. QED
  BY <1>1, <1>2 DEF CursorType

LEMMA CursorAtTyped ==
  ASSUME CursorType, NEW m \in Mappings, NEW w
  PROVE  CursorAt(m, w) \in [status : CursorStatuses, next : Nat]
  BY DEF CursorType, CursorAt, NewCursor, CursorStatuses

(* The number of windows of a range is a quotient, rounded up.             *)
LEMMA CountFacts ==
  ASSUME NEW range \in Bounds, range.from < range.until
  PROVE  /\ window_count(range) \in Nat /\ window_count(range) > 0
         /\ WindowDays * window_count(range) >= range.until - range.from
<1> DEFINE extent == range.until - range.from
           count == (extent + WindowDays - 1) \div WindowDays
<1>1. extent \in Nat /\ extent > 0 /\ WindowDays \in Nat /\ WindowDays > 0
  BY BackfillAssumption DEF Bounds
<1>2. /\ count \in Int
      /\ WindowDays * count <= extent + WindowDays - 1
      /\ extent + WindowDays - 1 < WindowDays * count + WindowDays
  BY <1>1
<1>3. count > 0
  <2>1. SUFFICES ASSUME count <= 0 PROVE FALSE
    BY <1>2
  <2>2. WindowDays * count <= 0
    BY <1>1, <1>2, <2>1
  <2>3. QED
    BY <1>1, <1>2, <2>2
<1>4. WindowDays * count >= extent
  BY <1>1, <1>2
<1>5. count = window_count(range)
  BY <1>1 DEF window_count, Bounds
<1>6. QED
  BY <1>2, <1>3, <1>4, <1>5

LEMMA WindowsTyped ==
  ASSUME NEW range \in Ranges
  PROVE  /\ range \in Bounds /\ range.from < range.until
         /\ partition_windows(range) \in Seq(Bounds)
<1>1. range \in Bounds /\ range.from < range.until
  BY BackfillAssumption DEF Bounds
<1>2. window_count(range) \in Nat
  BY <1>1, CountFacts
<1>3. WindowDays \in Int
  BY BackfillAssumption
<1>4. ASSUME NEW i \in 1..window_count(range)
      PROVE  partition_windows(range)[i] \in Bounds
  BY <1>1, <1>2, <1>3, <1>4 DEF partition_windows, Bounds
<1>5. partition_windows(range) = [i \in 1..window_count(range) |-> partition_windows(range)[i]]
  BY DEF partition_windows
<1>6. QED
  BY <1>1, <1>2, <1>4, <1>5

LEMMA HalvesTyped ==
  ASSUME NEW w \in Bounds
  PROVE  split_window(w) \in Seq(Bounds)
<1> DEFINE middle == w.from + (w.until - w.from) \div 2
           first == [from |-> w.from, until |-> middle]
           second == [from |-> middle, until |-> w.until]
<1>1. middle \in Int
  BY DEF Bounds
<1>2. first \in Bounds /\ second \in Bounds
  BY <1>1 DEF Bounds
<1>3. split_window(w) = <<>> \/ split_window(w) = <<first, second>>
  BY DEF split_window
<1> HIDE DEF first, second
<1>4. <<first, second>> \in Seq(Bounds) /\ <<>> \in Seq(Bounds)
  BY <1>2
<1>5. QED
  BY <1>3, <1>4

-----------------------------------------------------------------------------
(* The derived row *)

LEMMA GreatestInteger ==
  ASSUME NEW S, S \subseteq Int, IsFiniteSet(S), S # {}
  PROVE  Max(S) \in S /\ \A y \in S : y <= Max(S)
<1> DEFINE T == {-x : x \in S}
           f == [x \in S |-> -x]
<1>1. T \subseteq Int /\ T # {}
  <2>1. PICK s \in S : TRUE
    OBVIOUS
  <2>2. -s \in T
    OBVIOUS
  <2>3. QED
    BY <2>2
<1>2. f \in Surjection(S, T)
  <2>1. f \in [S -> T]
    OBVIOUS
  <2>2. ASSUME NEW t \in T PROVE \E s \in S : f[s] = t
    <3>1. PICK s \in S : t = -s
      BY <2>2
    <3>2. f[s] = -s
      OBVIOUS
    <3>3. QED
      BY <3>1, <3>2
  <2> HIDE DEF f, T
  <2>3. QED
    BY <2>1, <2>2 DEF Surjection
<1>3. IsFiniteSet(T)
  <2> HIDE DEF f, T
  <2> QED
    BY <1>2, FS_Surjection
<1>4. Min(T) \in T /\ \A y \in T : Min(T) <= y
  <2> HIDE DEF T
  <2> QED
    BY <1>1, <1>3, LeastInteger
<1>5. PICK x \in S : Min(T) = -x
  BY <1>4
<1>6. \A y \in S : x >= y
  BY <1>4, <1>5
<1>7. QED
  BY <1>6 DEF Max

LEMMA EndsFinite ==
  ASSUME NEW W, IsFiniteSet(W), W \subseteq Bounds
  PROVE  /\ IsFiniteSet({w.from : w \in W}) /\ {w.from : w \in W} \subseteq Int
         /\ IsFiniteSet({w.until : w \in W}) /\ {w.until : w \in W} \subseteq Int
<1> DEFINE From == {w.from : w \in W}
           Until == {w.until : w \in W}
           f == [w \in W |-> w.from]
           u == [w \in W |-> w.until]
<1>1. f \in Surjection(W, From) /\ u \in Surjection(W, Until)
  BY DEF Surjection
<1>2. IsFiniteSet(From) /\ IsFiniteSet(Until)
  <2> HIDE DEF f, u, From, Until
  <2> QED
    BY <1>1, FS_Surjection
<1>3. From \subseteq Int /\ Until \subseteq Int
  BY DEF Bounds
<1>4. QED
  BY <1>2, <1>3

LEMMA HullFacts ==
  ASSUME NEW W, IsFiniteSet(W), W \subseteq Bounds
  PROVE  /\ Hull(W) \in Bounds
         /\ W # {} =>
              /\ \E w \in W : w.from = Hull(W).from
              /\ \E w \in W : w.until = Hull(W).until
              /\ \A w \in W : Hull(W).from <= w.from /\ w.until <= Hull(W).until
<1> DEFINE From == {w.from : w \in W}
           Until == {w.until : w \in W}
<1>1. CASE W = {}
  BY <1>1 DEF Hull, NoWindow, Bounds
<1>2. CASE W # {}
  <2>1. /\ IsFiniteSet(From) /\ From \subseteq Int /\ From # {}
        /\ IsFiniteSet(Until) /\ Until \subseteq Int /\ Until # {}
    BY <1>2, EndsFinite
  <2>2. /\ Min(From) \in From /\ \A y \in From : Min(From) <= y
        /\ Max(Until) \in Until /\ \A y \in Until : y <= Max(Until)
    <3> HIDE DEF From, Until
    <3> QED
      BY <2>1, LeastInteger, GreatestInteger
  <2>3. Hull(W) = [from |-> Min(From), until |-> Max(Until)]
    BY <1>2 DEF Hull
  <2> DEFINE first == Min(From)
             last == Max(Until)
  <2>4. /\ first \in Int /\ last \in Int
        /\ \E w \in W : w.from = first
        /\ \E w \in W : w.until = last
        /\ \A w \in W : first <= w.from /\ w.until <= last
    BY <2>1, <2>2
  <2> HIDE DEF first, last
  <2>5. Hull(W).from = first /\ Hull(W).until = last /\ Hull(W) \in Bounds
    BY <2>3, <2>4 DEF first, last, Bounds
  <2>6. QED
    BY <2>4, <2>5
<1>3. QED
  BY <1>1, <1>2

LEMMA DerivedTyped ==
  ASSUME CursorType, persisted \in [Mappings -> SUBSET Articles], NEW m \in Mappings
  PROVE  derive_arxiv(m) \in Row
<1> DEFINE W == DOMAIN cursor[m]
<1>1. IsFiniteSet(W) /\ W \subseteq Bounds
  BY DEF CursorType
<1>2. Succeeded(m) \in SUBSET W /\ unresolved(m) \in SUBSET W
  BY DEF Succeeded, unresolved
<1>3. IsFiniteSet(Succeeded(m)) /\ Succeeded(m) \subseteq Bounds /\ Cardinality(unresolved(m)) \in Nat
  BY <1>1, <1>2, FS_Subset, FS_CardinalityType
<1>4. cursor_gaps(W) \in SUBSET {w.from : w \in W}
  BY DEF cursor_gaps
<1>5. Cardinality(cursor_gaps(W)) \in Nat
  <2> HIDE DEF W
  <2> QED
    BY <1>1, <1>4, EndsFinite, FS_Subset, FS_CardinalityType
<1>6. Cardinality(persisted[m]) \in Nat
  BY ArticleAssumption, FS_Subset, FS_CardinalityType
<1>7. Hull(W) \in Bounds /\ Hull(Succeeded(m)) \in Bounds
  BY <1>1, <1>3, HullFacts
<1>8. coverage_status(m) \in CoverageStatuses
  BY DEF coverage_status, CoverageStatuses
<1>9. QED
  BY <1>3, <1>5, <1>6, <1>7, <1>8 DEF derive_arxiv, Row

LEMMA MergedTyped ==
  ASSUME NEW known \in Row \cup {NoRow}, NEW derived \in Row, NEW row \in Row \cup {NoRow},
         (known = NoRow) = (row = NoRow) \/ derived = known
  PROVE  [column \in DOMAIN derived |->
            IF derived[column] # known[column] THEN derived[column] ELSE row[column]]
         \in Row \cup {NoRow}
<1> DEFINE f == [column \in DOMAIN derived |->
                   IF derived[column] # known[column] THEN derived[column] ELSE row[column]]
<1>1. DOMAIN derived = {"status", "target", "covered", "observations", "missing"}
  BY DEF Row
<1>2. f = [status |-> f.status, target |-> f.target, covered |-> f.covered,
           observations |-> f.observations, missing |-> f.missing]
  BY <1>1
<1>3. /\ f.status \in {derived.status, row.status}
      /\ f.target \in {derived.target, row.target}
      /\ f.covered \in {derived.covered, row.covered}
      /\ f.observations \in {derived.observations, row.observations}
      /\ f.missing \in {derived.missing, row.missing}
  BY <1>1
<1>4. /\ NoRow.target \in Bounds /\ NoRow.covered \in Bounds
      /\ NoRow.observations \in Nat /\ NoRow.missing \in Nat
      /\ NoRow.status \notin CoverageStatuses
  BY DEF NoRow, NoWindow, Bounds, CoverageStatuses
<1>5. CASE row \in Row
  BY <1>2, <1>3, <1>5 DEF Row
<1>6. CASE row = NoRow /\ derived = known
  <2>1. /\ f.status = row.status /\ f.target = row.target /\ f.covered = row.covered
        /\ f.observations = row.observations /\ f.missing = row.missing
    BY <1>1, <1>6
  <2> HIDE DEF f
  <2>2. f = NoRow
    BY <1>2, <1>6, <2>1 DEF NoRow
  <2>3. QED
    BY <2>2 DEF f
<1>7. CASE row = NoRow /\ known = NoRow
  <2>1. derived.status # known.status
    BY <1>4, <1>7 DEF Row
  <2>2. f.status = derived.status
    BY <1>1, <2>1
  <2> HIDE DEF f
  <2>3. f \in Row
    BY <1>2, <1>3, <1>4, <1>7, <2>2 DEF Row
  <2>4. QED
    BY <2>3 DEF f
<1>8. QED
  BY <1>5, <1>6, <1>7

-----------------------------------------------------------------------------
(* Every step keeps the types *)

AtTurn(locals) == locals.pc \in {"mapping", "window", "page", "waiting"}
Querying(locals) == locals.pc \in {"page", "waiting"}

LEMMA RunStep ==
  ASSUME TypeInv, NEW r \in Runs, NEW new \in Locals, run' = [run EXCEPT ![r] = new],
         AtTurn(new) => new.todo # {} /\ new.range \in Ranges,
         Querying(new) => new.target \in DOMAIN cursor'[Min(new.todo)],
         \A m \in Mappings : DOMAIN cursor[m] \subseteq DOMAIN cursor'[m]
  PROVE  /\ run' \in [Runs -> Locals] /\ run'[r] = new
         /\ \A s \in Runs : s # r => run'[s] = run[s]
         /\ \A s \in Runs : Turn(s)'
<1>1. run \in [Runs -> Locals]
  BY DEF TypeInv, TypeOK
<1>2. /\ run' \in [Runs -> Locals] /\ run'[r] = new
      /\ \A s \in Runs : s # r => run'[s] = run[s]
  BY <1>1
<1>3. Turn(r)'
  BY <1>2 DEF Turn, AtTurn, Querying, M
<1>4. ASSUME NEW s \in Runs, s # r PROVE Turn(s)'
  <2>1. run'[s] = run[s] /\ Turn(s) /\ M(s)' = M(s)
    BY <1>2, <1>4 DEF TypeInv, M
  <2>2. Querying(run[s]) => M(s) \in Mappings
    BY <2>1, FirstMapping DEF Turn, Querying, TypeInv
  <2>3. QED
    BY <2>1, <2>2 DEF Turn, Querying
<1>5. QED
  BY <1>2, <1>3, <1>4

(* A step that leaves the cursors alone, and one that writes a cursor of   *)
(* the mapping whose turn it is.                                           *)
LEMMA LocalStep ==
  ASSUME TypeInv, NEW r \in Runs, NEW new \in Locals, Set(r, new),
         AtTurn(new) => new.todo # {} /\ new.range \in Ranges,
         Querying(new) => new.todo = run[r].todo /\ new.target = run[r].target /\ Querying(run[r]),
         UNCHANGED <<cursor, latest, persisted, coverage>>,
         enabled' \subseteq Mappings, faults' \in 0..MaxFaults,
         verdict' \in [Runs -> [range : Bounds, mappings : SUBSET Mappings, status : Verdicts]],
         draft' \in [Runs -> [known : [Mappings -> Row \cup {NoRow}],
                              derived : [Mappings -> Row \cup {NoRow}]]]
  PROVE  TypeInv'
<1>1. run' = [run EXCEPT ![r] = new]
  BY DEF Set
<1>2. Querying(new) => new.target \in DOMAIN cursor'[Min(new.todo)]
  BY DEF TypeInv, Turn, Querying, M
<1>3. run' \in [Runs -> Locals] /\ \A s \in Runs : Turn(s)'
  BY <1>1, <1>2, RunStep
<1>4. QED
  BY <1>3 DEF TypeInv, TypeOK

LEMMA PutStep ==
  ASSUME TypeInv, NEW r \in Runs, NEW new \in Locals, Set(r, new),
         NEW m \in Mappings, NEW w \in Bounds,
         NEW row \in [status : CursorStatuses, next : Nat],
         cursor' = PutCursor(m, w, row), latest' \in [Mappings -> Bounds],
         AtTurn(new) => new.todo # {} /\ new.range \in Ranges,
         Querying(new) => m = Min(new.todo) /\ new.target = w,
         persisted' \in [Mappings -> SUBSET Articles],
         UNCHANGED <<enabled, verdict, ledgerVars>>, faults' \in 0..MaxFaults
  PROVE  TypeInv'
<1>1. CursorType
  BY DEF TypeInv, TypeOK, CursorType
<1>2. CursorType' /\ w \in DOMAIN cursor'[m]
      /\ \A n \in Mappings : DOMAIN cursor[n] \subseteq DOMAIN cursor'[n]
  BY <1>1, PutTyped
<1>3. run' = [run EXCEPT ![r] = new]
  BY DEF Set
<1>4. run' \in [Runs -> Locals] /\ \A s \in Runs : Turn(s)'
  BY <1>2, <1>3, RunStep
<1>5. TypeOK'
  BY <1>2, <1>4 DEF TypeInv, TypeOK, CursorType, ledgerVars
<1>6. QED
  BY <1>4, <1>5 DEF TypeInv

CursorRow == [status : CursorStatuses, next : Nat]

LEMMA QueryFacts ==
  ASSUME TypeInv, NEW r \in Runs, Querying(run[r])
  PROVE  /\ run[r] \in Locals /\ run[r].todo # {} /\ run[r].range \in Ranges
         /\ M(r) \in Mappings /\ M(r) \in run[r].todo
         /\ run[r].target \in DOMAIN cursor[M(r)] /\ run[r].target \in Bounds
         /\ Saved(r) \in CursorRow
<1>1. /\ run[r] \in Locals /\ run[r].todo # {} /\ run[r].range \in Ranges
      /\ run[r].target \in DOMAIN cursor[M(r)]
  BY DEF TypeInv, TypeOK, Turn, Querying
<1>2. M(r) \in Mappings /\ M(r) \in run[r].todo
  BY <1>1, FirstMapping DEF TypeInv
<1>3. QED
  BY <1>1, <1>2 DEF TypeInv, TypeOK, Locals, Saved, CursorRow

LEMMA SaveStep ==
  ASSUME TypeInv, NEW r \in Runs, Querying(run[r]),
         NEW status \in CursorStatuses, NEW next \in Nat, Save(r, status, next),
         NEW new \in Locals, Set(r, new),
         AtTurn(new) => new.todo = run[r].todo /\ new.range = run[r].range,
         Querying(new) => new.target = run[r].target,
         persisted' \in [Mappings -> SUBSET Articles],
         UNCHANGED <<enabled, verdict, ledgerVars>>, faults' \in 0..MaxFaults
  PROVE  TypeInv'
<1>1. /\ M(r) \in Mappings /\ run[r].target \in Bounds
      /\ run[r].todo # {} /\ run[r].range \in Ranges
  BY QueryFacts
<1>2. cursor' = PutCursor(M(r), run[r].target, [status |-> status, next |-> next])
      /\ latest' \in [Mappings -> Bounds]
  BY <1>1 DEF Save, TypeInv, TypeOK
<1>3. Querying(new) => M(r) = Min(new.todo)
  BY DEF Querying, AtTurn, M
<1>4. QED
  BY <1>1, <1>2, <1>3, PutStep

LEMMA BackTyped ==
  ASSUME NEW locals \in Locals
  PROVE  /\ Back(locals) \in Locals /\ Back(locals).pc = "window"
         /\ Back(locals).todo = locals.todo /\ Back(locals).range = locals.range
<1>1. "window" \in Labels \cup {"commit"} /\ NoWindow \in Bounds /\ 0 \in Nat
  BY DEF Labels, NoWindow, Bounds
<1>2. QED
  BY <1>1 DEF Back, Locals

LEMMA IdleTyped ==
  ASSUME NEW pc \in Labels \cup {"commit"}
  PROVE  [Idle EXCEPT !.pc = pc] \in Locals /\ Idle \in Locals /\ Idle.pc = "idle"
<1>1. <<>> \in Seq(Bounds) /\ {} \in SUBSET Mappings /\ NoWindow \in Bounds /\ 0 \in 0..MaxRequests
  BY SettingsAssumption DEF NoWindow, Bounds
<1>2. QED
  BY <1>1 DEF Idle, Locals, Labels

LEMMA PauseStep ==
  ASSUME TypeInv, NEW r \in Runs, Querying(run[r]), Pause(r),
         UNCHANGED <<enabled, persisted, verdict, ledgerVars>>, faults' \in 0..MaxFaults
  PROVE  TypeInv'
<1>1. run[r] \in Locals /\ Saved(r) \in CursorRow
  BY QueryFacts
<1> DEFINE new == Back([run[r] EXCEPT !.safety = TRUE])
<1>2. [run[r] EXCEPT !.safety = TRUE] \in Locals
      /\ [run[r] EXCEPT !.safety = TRUE].todo = run[r].todo
      /\ [run[r] EXCEPT !.safety = TRUE].range = run[r].range
  BY <1>1 DEF Locals
<1>3. /\ new \in Locals /\ new.pc = "window"
      /\ new.todo = run[r].todo /\ new.range = run[r].range
  BY <1>2, BackTyped
<1>4. Save(r, "partial", stopped_at(r)) /\ Set(r, new) /\ stopped_at(r) \in Nat
  BY <1>1 DEF Pause, stopped_at, CursorRow
<1>5. persisted' \in [Mappings -> SUBSET Articles]
  BY DEF TypeInv, TypeOK
<1> HIDE DEF new
<1>6. "partial" \in CursorStatuses
  BY DEF CursorStatuses
<1>7. QED
  BY <1>3, <1>4, <1>5, <1>6, SaveStep DEF Querying

LEMMA InjectCounts ==
  ASSUME NEW kind, Inject(kind), faults \in 0..MaxFaults
  PROVE  faults' \in 0..MaxFaults
  BY BackfillAssumption DEF Inject

LEMMA TypeInit == LedgerInit => TypeInv
<1> SUFFICES ASSUME LedgerInit PROVE TypeInv
  OBVIOUS
<1>1. Idle \in Locals /\ Idle.pc = "idle"
  BY IdleTyped DEF Labels
<1>2. NoVerdict \in [range : Bounds, mappings : SUBSET Mappings, status : Verdicts]
  BY DEF NoVerdict, NoWindow, Bounds, Verdicts
<1>3. DOMAIN <<>> = {} /\ IsFiniteSet({})
  BY FS_EmptySet
<1>4. NoWindow \in Bounds
  BY DEF NoWindow, Bounds
<1>5. NoDraft \in [known : [Mappings -> Row \cup {NoRow}], derived : [Mappings -> Row \cup {NoRow}]]
  BY DEF NoDraft
<1>6. faults \in 0..MaxFaults
  BY BackfillAssumption DEF LedgerInit, Init
<1>7. \A r \in Runs : Turn(r)
  BY <1>1 DEF LedgerInit, Init, Turn
<1>8. TypeOK
  BY <1>1, <1>2, <1>3, <1>4, <1>5, <1>6 DEF LedgerInit, Init, TypeOK
<1>9. QED
  BY <1>7, <1>8 DEF TypeInv

(* What a run does between two mappings or windows.                        *)
LEMMA LoopTyped ==
  ASSUME TypeInv, NEW r \in Runs, UNCHANGED ledgerVars,
         \/ \E range \in Ranges : StartRun(r, range)
         \/ RunTooSlow(r) \/ OpenMapping(r) \/ NextMapping(r) \/ SkipWindow(r)
         \/ Send(r) \/ Retry(r) \/ FinishRun(r)
  PROVE  TypeInv'
<1> DEFINE now == run[r]
<1>1. TypeOK /\ Turn(r) /\ now \in Locals /\ faults \in 0..MaxFaults
  BY DEF TypeInv, TypeOK
<1>2. UNCHANGED <<cursor, latest, persisted, coverage, draft>>
  BY DEF StartRun, RunTooSlow, OpenMapping, NextMapping, SkipWindow, Send, Retry,
         FinishRun, ledgerVars
<1>3. ASSUME NEW range \in Ranges, StartRun(r, range) PROVE TypeInv'
  <2> DEFINE new == [Idle EXCEPT !.pc = "mapping", !.range = range, !.todo = enabled]
  <2>1. Idle \in Locals /\ range \in Bounds /\ enabled \in SUBSET Mappings /\ enabled # {}
    BY <1>1, <1>3, IdleTyped, WindowsTyped DEF Labels, TypeOK, StartRun
  <2>2. "mapping" \in Labels
    BY DEF Labels
  <2>3. new \in Locals /\ new.todo = enabled /\ new.pc = "mapping" /\ new.range = range
    BY <2>1, <2>2 DEF Locals
  <2>4. verdict' \in [Runs -> [range : Bounds, mappings : SUBSET Mappings, status : Verdicts]]
    BY <1>1, <1>3, <2>1 DEF StartRun, TypeOK, Verdicts
  <2>5. Set(r, new) /\ UNCHANGED <<enabled, faults>>
    BY <1>3 DEF StartRun
  <2> HIDE DEF new
  <2>6. QED
    BY <1>1, <1>2, <2>1, <2>3, <2>4, <2>5, LocalStep DEF Querying, TypeOK
<1>4. ASSUME RunTooSlow(r) PROVE TypeInv'
  <2> DEFINE new == [now EXCEPT !.pc = "finish", !.safety = TRUE]
  <2>1. new \in Locals /\ new.pc = "finish"
    BY <1>1 DEF Locals, Labels
  <2>2. Set(r, new) /\ UNCHANGED <<enabled, verdict>> /\ faults' \in 0..MaxFaults
    BY <1>1, <1>4, InjectCounts DEF RunTooSlow
  <2> HIDE DEF new
  <2>3. QED
    BY <1>1, <1>2, <2>1, <2>2, LocalStep DEF Querying, AtTurn, TypeOK
<1>5. ASSUME OpenMapping(r) PROVE TypeInv'
  <2> DEFINE new == [now EXCEPT !.pc = "window", !.pending = partition_windows(now.range)]
  <2>1. now.todo # {} /\ now.range \in Ranges
    BY <1>1, <1>5 DEF OpenMapping, At, Turn
  <2>2. partition_windows(now.range) \in Seq(Bounds)
    BY <2>1, WindowsTyped
  <2>3. /\ new \in Locals /\ new.pc = "window"
        /\ new.todo = now.todo /\ new.range = now.range
    BY <1>1, <2>2 DEF Locals, Labels
  <2>4. Set(r, new) /\ UNCHANGED <<enabled, verdict, faults>>
    BY <1>5 DEF OpenMapping
  <2> HIDE DEF new
  <2>5. QED
    BY <1>1, <1>2, <2>1, <2>3, <2>4, LocalStep DEF Querying, TypeOK
<1>6. ASSUME NextMapping(r) PROVE TypeInv'
  <2> DEFINE stop == [now EXCEPT !.pc = "finish", !.safety = TRUE]
             go == [now EXCEPT !.pc = IF now.todo = {M(r)} THEN "finish" ELSE "mapping",
                               !.todo = @ \ {M(r)}]
  <2>1. now.todo # {} /\ now.range \in Ranges /\ M(r) \in now.todo
    BY <1>1, <1>6, FirstMapping DEF NextMapping, At, Turn
  <2>2. stop \in Locals /\ stop.pc = "finish"
    BY <1>1 DEF Locals, Labels
  <2>3. /\ go \in Locals /\ go.range = now.range /\ ~ Querying(go)
        /\ AtTurn(go) => go.todo # {}
    BY <1>1, <2>1 DEF Locals, Labels, AtTurn, Querying
  <2>4. /\ Set(r, stop) \/ Set(r, go)
        /\ UNCHANGED <<enabled, verdict, faults>>
    BY <1>6 DEF NextMapping
  <2> HIDE DEF stop, go
  <2>5. CASE Set(r, stop)
    BY <1>1, <1>2, <2>2, <2>4, <2>5, LocalStep DEF Querying, AtTurn, TypeOK
  <2>6. CASE Set(r, go)
    BY <1>1, <1>2, <2>1, <2>3, <2>4, <2>6, LocalStep DEF TypeOK
  <2>7. QED
    BY <2>4, <2>5, <2>6
<1>7. ASSUME SkipWindow(r) PROVE TypeInv'
  <2> DEFINE new == [now EXCEPT !.pending = Tail(@), !.succeeded = TRUE]
  <2>1. /\ now.todo # {} /\ now.range \in Ranges /\ now.pc = "window"
        /\ now.pending # <<>> /\ now.pending \in Seq(Bounds)
    BY <1>1, <1>7 DEF SkipWindow, At, Turn, Locals
  <2>2. Tail(now.pending) \in Seq(Bounds)
    BY <2>1
  <2>3. /\ new \in Locals /\ new.pc = "window"
        /\ new.todo = now.todo /\ new.range = now.range
    BY <1>1, <2>1, <2>2 DEF Locals
  <2>4. Set(r, new) /\ UNCHANGED <<enabled, verdict, faults>>
    BY <1>7 DEF SkipWindow
  <2> HIDE DEF new
  <2>5. QED
    BY <1>1, <1>2, <2>1, <2>3, <2>4, LocalStep DEF Querying, TypeOK
<1>8. ASSUME Send(r) PROVE TypeInv'
  <2> DEFINE new == [now EXCEPT !.pc = "waiting", !.start = Saved(r).next, !.requests = @ + 1]
  <2>1. /\ now.pc = "page" /\ now.todo # {} /\ now.range \in Ranges
        /\ Saved(r).next \in Nat /\ now.requests + 1 \in 0..MaxRequests
    BY <1>1, <1>8, QueryFacts, SettingsAssumption DEF Send, At, Querying, Locals, CursorRow
  <2>2. /\ new \in Locals /\ new.pc = "waiting" /\ new.target = now.target
        /\ new.todo = now.todo /\ new.range = now.range
    BY <1>1, <2>1 DEF Locals, Labels
  <2>3. Set(r, new) /\ UNCHANGED <<enabled, verdict, faults>>
    BY <1>8 DEF Send
  <2> HIDE DEF new
  <2>4. QED
    BY <1>1, <1>2, <2>1, <2>2, <2>3, LocalStep DEF Querying, TypeOK
<1>9. ASSUME Retry(r) PROVE TypeInv'
  <2> DEFINE new == [now EXCEPT !.requests = @ + 1]
  <2>1. /\ now.pc = "waiting" /\ now.todo # {} /\ now.range \in Ranges
        /\ now.requests + 1 \in 0..MaxRequests
    BY <1>1, <1>9, QueryFacts, SettingsAssumption DEF Retry, At, Querying, Locals
  <2>2. /\ new \in Locals /\ new.pc = "waiting" /\ new.target = now.target
        /\ new.todo = now.todo /\ new.range = now.range
    BY <1>1, <2>1 DEF Locals
  <2>3. Set(r, new) /\ UNCHANGED <<enabled, verdict>> /\ faults' \in 0..MaxFaults
    BY <1>1, <1>9, InjectCounts DEF Retry
  <2> HIDE DEF new
  <2>4. QED
    BY <1>1, <1>2, <2>1, <2>2, <2>3, LocalStep DEF Querying, TypeOK
<1>10. ASSUME FinishRun(r) PROVE TypeInv'
  <2> DEFINE new == [Idle EXCEPT !.pc = "rebuild"]
  <2>1. new \in Locals /\ new.pc = "rebuild"
    BY IdleTyped DEF Labels, Idle
  <2>2. terminal_status(now) \in Verdicts
    BY DEF terminal_status, Verdicts
  <2>3. /\ Set(r, new) /\ UNCHANGED <<enabled, faults>>
        /\ verdict' = [verdict EXCEPT ![r].status = terminal_status(now)]
    BY <1>10 DEF FinishRun
  <2>4. verdict' \in [Runs -> [range : Bounds, mappings : SUBSET Mappings, status : Verdicts]]
    <3> HIDE DEF now, new
    <3>1. verdict \in [Runs -> [range : Bounds, mappings : SUBSET Mappings, status : Verdicts]]
      BY <1>1 DEF TypeOK
    <3>2. QED
      BY <2>2, <2>3, <3>1
  <2> HIDE DEF new
  <2>5. QED
    BY <1>1, <1>2, <2>1, <2>3, <2>4, LocalStep DEF Querying, AtTurn, TypeOK
<1>11. QED
  BY <1>3, <1>4, <1>5, <1>6, <1>7, <1>8, <1>9, <1>10

LEMMA FailStep ==
  ASSUME TypeInv, NEW r \in Runs, Querying(run[r]), RecordError(M(r)),
         NEW new \in Locals, Set(r, new),
         AtTurn(new) => new.todo = run[r].todo /\ new.range = run[r].range,
         ~ Querying(new),
         UNCHANGED <<enabled, persisted, verdict, ledgerVars>>, faults' \in 0..MaxFaults
  PROVE  TypeInv'
<1> DEFINE m == M(r)
           row == [CursorAt(m, latest[m]) EXCEPT !.status = "failed"]
<1>1. m \in Mappings /\ run[r].todo # {} /\ run[r].range \in Ranges
  BY QueryFacts
<1>2. CursorType /\ latest \in [Mappings -> Bounds]
  BY DEF TypeInv, TypeOK, CursorType
<1>3. CursorAt(m, latest[m]) \in CursorRow
  BY <1>1, <1>2, CursorAtTyped DEF CursorRow
<1>4. row \in CursorRow
  <2> HIDE DEF m
  <2> QED
    BY <1>3 DEF CursorRow, CursorStatuses
<1>5. cursor' = PutCursor(m, latest[m], row) /\ latest' = latest
  BY DEF RecordError
<1>6. persisted' \in [Mappings -> SUBSET Articles]
  BY DEF TypeInv, TypeOK
<1> HIDE DEF m, row
<1>7. QED
  BY <1>1, <1>2, <1>4, <1>5, <1>6, PutStep DEF CursorRow, AtTurn

(* What a run does with a window and with the answers to its requests.     *)
LEMMA WindowTyped ==
  ASSUME TypeInv, NEW r \in Runs, UNCHANGED ledgerVars,
         \/ OpenWindow(r) \/ LimitReached(r) \/ SplitWindow(r) \/ ReceivePage(r)
         \/ ReceiveEmpty(r) \/ RequestFails(r) \/ ParseFails(r) \/ Forbidden(r)
  PROVE  TypeInv'
<1> DEFINE now == run[r]
<1>1. TypeOK /\ Turn(r) /\ now \in Locals /\ faults \in 0..MaxFaults
  BY DEF TypeInv, TypeOK
<1>2. persisted \in [Mappings -> SUBSET Articles] /\ CursorType
  BY <1>1 DEF TypeOK, CursorType
<1>3. ASSUME Querying(now)
      PROVE  /\ now.todo # {} /\ now.range \in Ranges /\ now.target \in Bounds
             /\ M(r) \in Mappings /\ Saved(r) \in CursorRow
  BY <1>3, QueryFacts
<1>4. ASSUME OpenWindow(r) PROVE TypeInv'
  <2> DEFINE w == Head(now.pending)
             row == [CursorAt(M(r), w) EXCEPT !.status = "running"]
             new == [now EXCEPT !.pc = "page", !.pending = Tail(@), !.target = w]
  <2>1. /\ now.todo # {} /\ now.range \in Ranges /\ now.pc = "window"
        /\ now.pending # <<>> /\ now.pending \in Seq(Bounds)
    BY <1>1, <1>4 DEF OpenWindow, At, Turn, Locals
  <2>2. M(r) \in Mappings /\ w \in Bounds /\ Tail(now.pending) \in Seq(Bounds)
    BY <1>1, <2>1, FirstMapping
  <2>3. CursorAt(M(r), w) \in CursorRow
    BY <1>2, <2>2, CursorAtTyped DEF CursorRow
  <2>4. row \in CursorRow
    <3> HIDE DEF w
    <3> QED
      BY <2>3 DEF CursorRow, CursorStatuses
  <2>5. /\ new \in Locals /\ new.pc = "page" /\ new.target = w
        /\ new.todo = now.todo /\ new.range = now.range
    <3> HIDE DEF w
    <3> QED
      BY <1>1, <2>2 DEF Locals, Labels
  <2>6. /\ cursor' = PutCursor(M(r), w, row) /\ Set(r, new)
        /\ latest' = latest \/ latest' = [latest EXCEPT ![M(r)] = w]
        /\ UNCHANGED <<enabled, persisted, verdict, faults>>
    BY <1>4 DEF OpenWindow
  <2>7. latest' \in [Mappings -> Bounds]
    BY <1>1, <2>2, <2>6 DEF TypeOK
  <2>8. M(r) = Min(new.todo)
    BY <2>5 DEF M
  <2> HIDE DEF w, row, new
  <2>9. QED
    BY <1>1, <1>2, <2>1, <2>2, <2>4, <2>5, <2>6, <2>7, <2>8, PutStep DEF CursorRow
<1>5. ASSUME LimitReached(r) PROVE TypeInv'
  <2>1. Querying(now) /\ Pause(r) /\ UNCHANGED <<enabled, persisted, verdict>>
    BY <1>5 DEF LimitReached, At, Querying
  <2>2. faults' \in 0..MaxFaults
    BY <1>1, <1>5, InjectCounts DEF LimitReached
  <2>3. QED
    BY <2>1, <2>2, PauseStep
<1>6. ASSUME SplitWindow(r) PROVE TypeInv'
  <2> DEFINE halves == split_window(now.target)
             more == [now EXCEPT !.pending = queue(halves, @)]
             new == Back(more)
  <2>1. Querying(now) /\ UNCHANGED <<enabled, persisted, verdict, faults>>
    BY <1>6 DEF SplitWindow, At, Querying
  <2>2. queue(halves, now.pending) \in Seq(Bounds)
    <3>1. halves \in Seq(Bounds) /\ now.pending \in Seq(Bounds)
      BY <1>1, <1>3, <2>1, HalvesTyped DEF Locals
    <3> HIDE DEF halves, now
    <3>2. QED
      BY <3>1 DEF queue
  <2>3. more \in Locals /\ more.todo = now.todo /\ more.range = now.range
    <3> HIDE DEF halves
    <3> QED
      BY <1>1, <2>2 DEF Locals
  <2>4. /\ new \in Locals /\ new.pc = "window"
        /\ new.todo = now.todo /\ new.range = now.range
    <3> HIDE DEF more
    <3> QED
      BY <2>3, BackTyped
  <2>5. Pause(r) \/ (Save(r, "partial", Saved(r).next) /\ Set(r, new))
    BY <1>6 DEF SplitWindow
  <2>6. "partial" \in CursorStatuses /\ Saved(r).next \in Nat
    BY <1>3, <2>1 DEF CursorStatuses, CursorRow
  <2> HIDE DEF new
  <2>7. CASE Pause(r)
    BY <1>1, <2>1, <2>7, PauseStep
  <2>8. CASE Save(r, "partial", Saved(r).next) /\ Set(r, new)
    BY <1>1, <1>2, <2>1, <2>4, <2>6, <2>8, SaveStep DEF Querying
  <2>9. QED
    BY <2>5, <2>7, <2>8
<1>7. ASSUME ReceivePage(r) PROVE TypeInv'
  <2>1. PICK size \in 1..PageSize :
          LET next == now.start + size IN
          /\ persisted' = persist_feed(persisted, M(r), Page(Found(r), now.start, size))
          /\ \/ Save(r, "succeeded", next) /\ Set(r, Back([now EXCEPT !.succeeded = TRUE]))
             \/ Save(r, Saved(r).status, next) /\ Set(r, [now EXCEPT !.pc = "page"])
    BY <1>7 DEF ReceivePage
  <2> DEFINE next == now.start + size
             done == [now EXCEPT !.succeeded = TRUE]
             on == [now EXCEPT !.pc = "page"]
  <2>2. Querying(now) /\ UNCHANGED <<enabled, verdict, faults>>
    BY <1>7 DEF ReceivePage, At, Querying
  <2>3. next \in Nat
    BY <1>1, SettingsAssumption DEF Locals
  <2>4. Page(Found(r), now.start, size) \in SUBSET Articles
    BY DEF Page, Found, Matching
  <2>5. persisted' \in [Mappings -> SUBSET Articles]
    BY <1>2, <1>3, <2>1, <2>2, <2>4 DEF persist_feed
  <2>6. done \in Locals /\ done.todo = now.todo /\ done.range = now.range
    BY <1>1 DEF Locals
  <2>7. /\ Back(done) \in Locals /\ Back(done).pc = "window"
        /\ Back(done).todo = now.todo /\ Back(done).range = now.range
    <3> HIDE DEF done
    <3> QED
      BY <2>6, BackTyped
  <2>8. /\ on \in Locals /\ on.todo = now.todo /\ on.range = now.range
        /\ on.target = now.target
    BY <1>1 DEF Locals, Labels
  <2>9. "succeeded" \in CursorStatuses /\ Saved(r).status \in CursorStatuses
    BY <1>3, <2>2 DEF CursorStatuses, CursorRow
  <2> HIDE DEF next
  <2>10. CASE Save(r, "succeeded", next) /\ Set(r, Back(done))
    <3> HIDE DEF done
    <3> QED
      BY <1>1, <2>2, <2>3, <2>5, <2>7, <2>9, <2>10, SaveStep DEF Querying
  <2>11. CASE Save(r, Saved(r).status, next) /\ Set(r, on)
    <3> HIDE DEF on
    <3> QED
      BY <1>1, <2>2, <2>3, <2>5, <2>8, <2>9, <2>11, SaveStep DEF Querying
  <2>12. QED
    BY <2>1, <2>10, <2>11 DEF next
<1>8. ASSUME ReceiveEmpty(r) PROVE TypeInv'
  <2> DEFINE total == Cardinality(Found(r))
             done == [now EXCEPT !.succeeded = TRUE]
  <2>1. Querying(now) /\ UNCHANGED <<enabled, persisted, verdict>>
    BY <1>8 DEF ReceiveEmpty, At, Querying
  <2>2. \/ Save(r, "succeeded", total) /\ Set(r, Back(done)) /\ UNCHANGED faults
        \/ Inject("empty_page") /\ Pause(r)
    BY <1>8 DEF ReceiveEmpty
  <2>3. total \in Nat
    BY MatchingSubset, PositionBound DEF Found
  <2>4. done \in Locals /\ done.todo = now.todo /\ done.range = now.range
    BY <1>1 DEF Locals
  <2>5. /\ Back(done) \in Locals /\ Back(done).pc = "window"
        /\ Back(done).todo = now.todo /\ Back(done).range = now.range
    <3> HIDE DEF done
    <3> QED
      BY <2>4, BackTyped
  <2>6. "succeeded" \in CursorStatuses
    BY DEF CursorStatuses
  <2> HIDE DEF total, done
  <2>7. CASE Save(r, "succeeded", total) /\ Set(r, Back(done)) /\ UNCHANGED faults
    BY <1>1, <1>2, <2>1, <2>3, <2>5, <2>6, <2>7, SaveStep DEF Querying
  <2>8. CASE Inject("empty_page") /\ Pause(r)
    BY <1>1, <2>1, <2>8, InjectCounts, PauseStep
  <2>9. QED
    BY <2>2, <2>7, <2>8
<1>9. ASSUME RequestFails(r) \/ ParseFails(r) PROVE TypeInv'
  <2> DEFINE failed == [now EXCEPT !.errors = TRUE]
  <2>1. /\ Querying(now) /\ Set(r, Back(failed))
        /\ UNCHANGED <<enabled, persisted, verdict>>
    BY <1>9 DEF RequestFails, ParseFails, At, Querying
  <2>2. faults' \in 0..MaxFaults
    BY <1>1, <1>9, InjectCounts DEF RequestFails, ParseFails
  <2>3. failed \in Locals /\ failed.todo = now.todo /\ failed.range = now.range
    BY <1>1 DEF Locals
  <2>4. /\ Back(failed) \in Locals /\ Back(failed).pc = "window"
        /\ Back(failed).todo = now.todo /\ Back(failed).range = now.range
    <3> HIDE DEF failed
    <3> QED
      BY <2>3, BackTyped
  <2>5. RecordError(M(r)) \/ Save(r, "failed", Saved(r).next)
    BY <1>9 DEF RequestFails, ParseFails
  <2>6. "failed" \in CursorStatuses /\ Saved(r).next \in Nat
    BY <1>3, <2>1 DEF CursorStatuses, CursorRow
  <2> HIDE DEF failed
  <2>7. CASE RecordError(M(r))
    BY <1>1, <2>1, <2>2, <2>4, <2>7, FailStep DEF Querying
  <2>8. CASE Save(r, "failed", Saved(r).next)
    BY <1>1, <1>2, <2>1, <2>2, <2>4, <2>6, <2>8, SaveStep DEF Querying
  <2>9. QED
    BY <2>5, <2>7, <2>8
<1>10. ASSUME Forbidden(r) PROVE TypeInv'
  <2> DEFINE new == [Back(now) EXCEPT !.pc = "finish", !.errors = TRUE]
  <2>1. /\ Querying(now) /\ Set(r, new) /\ RecordError(M(r))
        /\ UNCHANGED <<enabled, persisted, verdict>>
    BY <1>10 DEF Forbidden, At, Querying
  <2>2. faults' \in 0..MaxFaults
    BY <1>1, <1>10, InjectCounts DEF Forbidden
  <2>3. Back(now) \in Locals
    BY <1>1, BackTyped
  <2>4. new \in Locals /\ new.pc = "finish"
    BY <2>3 DEF Locals, Labels
  <2> HIDE DEF new
  <2>5. QED
    BY <1>1, <2>1, <2>2, <2>4, FailStep DEF Querying, AtTurn
<1>11. QED
  BY <1>4, <1>5, <1>6, <1>7, <1>8, <1>9, <1>10

Drafts == [known : [Mappings -> Row \cup {NoRow}], derived : [Mappings -> Row \cup {NoRow}]]

LEMMA IdleStep ==
  ASSUME TypeInv, NEW r \in Runs, NEW new \in Locals, Set(r, new),
         ~ AtTurn(new), UNCHANGED <<enabled, cursor, latest, persisted, verdict>>,
         coverage' \in [Mappings -> Row \cup {NoRow}], draft' \in [Runs -> Drafts],
         faults' \in 0..MaxFaults
  PROVE  TypeInv'
<1>1. run' = [run EXCEPT ![r] = new]
  BY DEF Set
<1>2. run' \in [Runs -> Locals] /\ \A s \in Runs : Turn(s)'
  BY <1>1, RunStep DEF AtTurn, Querying
<1>3. QED
  BY <1>2 DEF TypeInv, TypeOK, Drafts

(* The rebuild and a crash.                                                *)
LEMMA LedgerTyped ==
  ASSUME TypeInv, NEW r \in Runs,
         StartRebuild(r) \/ Derive(r) \/ CommitCoverage(r) \/ CrashLedger(r)
  PROVE  TypeInv'
<1>1. TypeOK /\ faults \in 0..MaxFaults /\ draft \in [Runs -> Drafts]
      /\ coverage \in [Mappings -> Row \cup {NoRow}]
  BY DEF TypeInv, TypeOK, Drafts
<1>2. /\ Idle \in Locals /\ ~ AtTurn(Idle)
      /\ \A pc \in {"rebuild", "commit"} :
           [Idle EXCEPT !.pc = pc] \in Locals /\ ~ AtTurn([Idle EXCEPT !.pc = pc])
  BY IdleTyped DEF Labels, AtTurn, Idle
<1>3. NoDraft \in Drafts
  BY DEF NoDraft, Drafts
<1>4. ASSUME StartRebuild(r) PROVE TypeInv'
  BY <1>1, <1>2, <1>4, IdleStep DEF StartRebuild, ledgerVars
<1>5. ASSUME Derive(r) PROVE TypeInv'
  <2> DEFINE derived == [n \in Mappings |-> IF n \in enabled THEN derive_arxiv(n) ELSE NoRow]
             new == [known |-> coverage, derived |-> derived]
  <2>1. \A n \in Mappings : derive_arxiv(n) \in Row
    BY <1>1, DerivedTyped DEF TypeOK, CursorType
  <2>2. new \in Drafts
    BY <1>1, <2>1 DEF Drafts
  <2>3. draft' = [draft EXCEPT ![r] = new] /\ Set(r, [Idle EXCEPT !.pc = "commit"])
        /\ UNCHANGED <<enabled, cursor, latest, persisted, verdict, faults, coverage>>
    BY <1>5 DEF Derive
  <2> HIDE DEF new
  <2>4. draft' \in [Runs -> Drafts]
    BY <1>1, <2>2, <2>3
  <2>5. QED
    BY <1>1, <1>2, <2>3, <2>4, IdleStep
<1>6. ASSUME CommitCoverage(r) PROVE TypeInv'
  <2>1. ASSUME NEW n \in Mappings, ~ Conflict(r, n)
        PROVE  Merged(r, n) \in Row \cup {NoRow}
    <3> DEFINE known == draft[r].known[n]
               derived == draft[r].derived[n]
               row == coverage[n]
    <3>1. /\ known \in Row \cup {NoRow} /\ derived \in Row \cup {NoRow}
          /\ row \in Row \cup {NoRow}
      BY <1>1 DEF Drafts
    <3>2. derived \in {NoRow, known} \/ (known = NoRow) = (row = NoRow)
      BY <2>1 DEF Conflict
    <3>3. CASE derived = NoRow
      BY <3>1, <3>3 DEF Merged
    <3>4. CASE derived # NoRow
      <4>1. Merged(r, n) = [column \in DOMAIN derived |->
              IF derived[column] # known[column] THEN derived[column] ELSE row[column]]
        BY <3>4 DEF Merged
      <4> HIDE DEF known, derived, row
      <4>2. QED
        BY <3>1, <3>2, <3>4, <4>1, MergedTyped
    <3>5. QED
      BY <3>3, <3>4
  <2>2. coverage' \in [Mappings -> Row \cup {NoRow}]
    BY <1>1, <1>6, <2>1 DEF CommitCoverage
  <2>3. draft' \in [Runs -> Drafts]
    BY <1>1, <1>3, <1>6 DEF CommitCoverage
  <2>4. QED
    BY <1>1, <1>2, <1>6, <2>2, <2>3, IdleStep DEF CommitCoverage
<1>7. ASSUME CrashLedger(r) PROVE TypeInv'
  <2>1. draft' \in [Runs -> Drafts]
    BY <1>1, <1>3, <1>7 DEF CrashLedger
  <2>2. Set(r, Idle) /\ faults' \in 0..MaxFaults
        /\ UNCHANGED <<enabled, cursor, latest, persisted, verdict, coverage>>
    BY <1>1, <1>7, InjectCounts DEF CrashLedger, Crash
  <2>3. QED
    BY <1>1, <1>2, <2>1, <2>2, IdleStep
<1>8. QED
  BY <1>4, <1>5, <1>6, <1>7

LEMMA SyncTyped ==
  ASSUME TypeInv, NEW m \in Mappings, Sync(m), UNCHANGED ledgerVars
  PROVE  TypeInv'
<1>1. TypeOK /\ faults \in 0..MaxFaults
  BY DEF TypeInv, TypeOK
<1>2. enabled' \subseteq Mappings /\ faults' \in 0..MaxFaults
      /\ UNCHANGED <<cursor, latest, persisted, run, verdict, coverage, draft>>
  BY <1>1, InjectCounts DEF Sync, TypeOK, ledgerVars
<1>3. QED
  BY <1>2 DEF TypeInv, TypeOK, Turn, M

(* The steps of one process, sorted as the lemmas about them are.          *)
RunLoops(r) ==
  \/ \E range \in Ranges : StartRun(r, range)
  \/ RunTooSlow(r) \/ OpenMapping(r) \/ NextMapping(r) \/ SkipWindow(r)
  \/ Send(r) \/ Retry(r) \/ FinishRun(r)
RunQueries(r) ==
  \/ OpenWindow(r) \/ LimitReached(r) \/ SplitWindow(r) \/ ReceivePage(r)
  \/ ReceiveEmpty(r) \/ RequestFails(r) \/ ParseFails(r) \/ Forbidden(r)

LEMMA StepKinds ==
  ASSUME LedgerNext
  PROVE  \/ \E r \in Runs :
              \/ (RunLoops(r) \/ RunQueries(r)) /\ UNCHANGED ledgerVars
              \/ StartRebuild(r) \/ Derive(r) \/ CommitCoverage(r) \/ CrashLedger(r)
         \/ \E m \in Mappings : Sync(m) /\ UNCHANGED ledgerVars
<1>1. ASSUME NEW r \in Runs, Start(r) \/ Collect(r) \/ Fails(r)
      PROVE  RunLoops(r) \/ RunQueries(r)
  BY <1>1, Zenon DEF Start, Collect, Fails, RunLoops, RunQueries
<1>2. QED
  BY <1>1, Zenon DEF LedgerNext, Rebuild

LEMMA TypeStep ==
  ASSUME TypeInv, [LedgerNext]_allVars
  PROVE  TypeInv'
<1>1. CASE UNCHANGED allVars
  BY <1>1 DEF TypeInv, TypeOK, Turn, M, allVars, vars, ledgerVars
<1>2. ASSUME NEW r \in Runs, RunLoops(r), UNCHANGED ledgerVars PROVE TypeInv'
  BY <1>2, LoopTyped, Zenon DEF RunLoops
<1>3. ASSUME NEW r \in Runs, RunQueries(r), UNCHANGED ledgerVars PROVE TypeInv'
  BY <1>3, WindowTyped, Zenon DEF RunQueries
<1>4. CASE LedgerNext
  BY <1>2, <1>3, <1>4, StepKinds, LedgerTyped, SyncTyped, Zenon
<1>5. QED
  BY <1>1, <1>4

(* Types: cursors, rows, drafts and the locals of every process keep their *)
(* types whatever the answers, the limits and the faults.                  *)
THEOREM TypeCorrect == Spec => []TypeOK
<1>1. TypeInv => TypeOK
  BY DEF TypeInv
<1>2. QED
  BY <1>1, TypeInit, TypeStep, PTL DEF Spec

-----------------------------------------------------------------------------
(* What cursors say is in Silver.  InFlight: so is what a request was sent *)
(* after, whoever moved the cursor meanwhile.                              *)

InFlight ==
  \A r \in Runs : run[r].pc = "waiting" => Page(Found(r), 0, run[r].start) \subseteq persisted[M(r)]

SoundInv == WindowsHaveNoGap /\ ResumesWithoutLoss /\ InFlight

SilverGrows == \A m \in Mappings : persisted[m] \subseteq persisted'[m]

LEMMA PutSound ==
  ASSUME TypeInv, SoundInv, SilverGrows, NEW m \in Mappings, NEW w, NEW row,
         cursor' = PutCursor(m, w, row),
         Page(Matching(w, Articles), 0, row.next) \subseteq persisted'[m],
         row.status = "succeeded" => Matching(w, Articles) \subseteq persisted'[m]
  PROVE  WindowsHaveNoGap' /\ ResumesWithoutLoss'
<1>1. /\ DOMAIN cursor' = Mappings
      /\ DOMAIN cursor'[m] = DOMAIN cursor[m] \cup {w}
      /\ cursor'[m][w] = row
      /\ \A v \in DOMAIN cursor[m] : v # w => cursor'[m][v] = cursor[m][v]
      /\ \A n \in Mappings : n # m => cursor'[n] = cursor[n]
  BY PutFacts DEF TypeInv, TypeOK
<1>2. ASSUME NEW n \in Mappings, NEW v \in DOMAIN cursor'[n]
      PROVE  /\ cursor'[n][v].status = "succeeded" => Matching(v, Articles) \subseteq persisted'[n]
             /\ Page(Matching(v, Articles), 0, cursor'[n][v].next) \subseteq persisted'[n]
  <2>1. CASE n = m /\ v = w
    BY <1>1, <2>1
  <2>2. CASE ~ (n = m /\ v = w)
    <3>1. v \in DOMAIN cursor[n] /\ cursor'[n][v] = cursor[n][v]
      BY <1>1, <1>2, <2>2
    <3>2. persisted[n] \subseteq persisted'[n]
      BY DEF SilverGrows
    <3>3. Page(Matching(v, Articles), 0, cursor[n][v].next) \subseteq persisted[n]
      BY <3>1 DEF SoundInv, ResumesWithoutLoss
    <3>4. cursor[n][v].status = "succeeded" => Matching(v, Articles) \subseteq persisted[n]
      BY <3>1 DEF SoundInv, WindowsHaveNoGap, Succeeded
    <3>5. QED
      BY <3>1, <3>2, <3>3, <3>4
  <2>3. QED
    BY <2>1, <2>2
<1>3. QED
  BY <1>2 DEF WindowsHaveNoGap, ResumesWithoutLoss, Succeeded

LEMMA FlightStep ==
  ASSUME TypeInv, SoundInv, SilverGrows, NEW r \in Runs, NEW new,
         run' = [run EXCEPT ![r] = new],
         new.pc = "waiting" =>
           Page(Matching(new.target, Articles), 0, new.start) \subseteq persisted'[Min(new.todo)]
  PROVE  InFlight'
<1>1. run'[r] = new /\ \A s \in Runs : s # r => run'[s] = run[s]
  BY DEF TypeInv, TypeOK
<1>2. ASSUME NEW s \in Runs, run'[s].pc = "waiting", s # r
      PROVE  Page(Found(s)', 0, run'[s].start) \subseteq persisted'[M(s)']
  <2>1. run'[s] = run[s] /\ Found(s)' = Found(s) /\ M(s)' = M(s)
    BY <1>1, <1>2 DEF Found, M
  <2>2. M(s) \in Mappings
    BY <1>2, <2>1, QueryFacts DEF Querying
  <2>3. QED
    BY <1>2, <2>1, <2>2 DEF SoundInv, InFlight, SilverGrows
<1>3. run'[r].pc = "waiting" => Page(Found(r)', 0, run'[r].start) \subseteq persisted'[M(r)']
  BY <1>1 DEF Found, M
<1>4. QED
  BY <1>2, <1>3 DEF InFlight

(* Nothing is written and no request sent.                                 *)
LEMMA QuietSound ==
  ASSUME TypeInv, SoundInv, NEW r \in Runs, NEW new, Set(r, new),
         UNCHANGED <<cursor, persisted>>, new.pc # "waiting"
  PROVE  SoundInv' /\ SilverGrows
<1>1. SilverGrows /\ run' = [run EXCEPT ![r] = new]
  BY DEF SilverGrows, Set
<1>2. InFlight'
  BY <1>1, FlightStep
<1>3. WindowsHaveNoGap' /\ ResumesWithoutLoss'
  BY DEF SoundInv, WindowsHaveNoGap, ResumesWithoutLoss, Succeeded
<1>4. QED
  BY <1>1, <1>2, <1>3 DEF SoundInv

(* A run writes its target's cursor and returns to the loop of windows.    *)
LEMMA SaveSound ==
  ASSUME TypeInv, SoundInv, SilverGrows, NEW r \in Runs, Querying(run[r]),
         NEW status, NEW next, Save(r, status, next), NEW new, Set(r, new), new.pc # "waiting",
         Page(Found(r), 0, next) \subseteq persisted'[M(r)],
         status = "succeeded" => Found(r) \subseteq persisted'[M(r)]
  PROVE  SoundInv'
<1> DEFINE row == [status |-> status, next |-> next]
<1>1. M(r) \in Mappings
  BY QueryFacts
<1>2. cursor' = PutCursor(M(r), run[r].target, row) /\ row.status = status /\ row.next = next
  BY DEF Save
<1> HIDE DEF row
<1>3. WindowsHaveNoGap' /\ ResumesWithoutLoss'
  BY <1>1, <1>2, PutSound DEF Found
<1>4. InFlight'
  BY FlightStep DEF Set
<1>5. QED
  BY <1>3, <1>4 DEF SoundInv

LEMMA PauseSound ==
  ASSUME TypeInv, SoundInv, NEW r \in Runs, Querying(run[r]), Pause(r), UNCHANGED persisted
  PROVE  SoundInv' /\ SilverGrows
<1> DEFINE new == Back([run[r] EXCEPT !.safety = TRUE])
<1>1. SilverGrows
  BY DEF SilverGrows
<1>2. /\ M(r) \in Mappings /\ run[r] \in Locals
      /\ run[r].target \in DOMAIN cursor[M(r)] /\ Saved(r) = cursor[M(r)][run[r].target]
  BY QueryFacts DEF Saved
<1>3. Page(Found(r), 0, stopped_at(r)) \subseteq persisted'[M(r)]
  BY <1>2 DEF SoundInv, ResumesWithoutLoss, stopped_at, Found
<1>4. [run[r] EXCEPT !.safety = TRUE] \in Locals
  BY <1>2 DEF Locals
<1>5. Save(r, "partial", stopped_at(r)) /\ Set(r, new)
  BY DEF Pause
<1>6. new.pc = "window"
  BY <1>4, BackTyped
<1> HIDE DEF new
<1>7. QED
  BY <1>1, <1>3, <1>5, <1>6, SaveSound

LEMMA ErrorSound ==
  ASSUME TypeInv, SoundInv, NEW r \in Runs, Querying(run[r]), RecordError(M(r)),
         NEW new, Set(r, new), new.pc # "waiting", UNCHANGED persisted
  PROVE  SoundInv' /\ SilverGrows
<1> DEFINE m == M(r)
           w == latest[m]
           row == [CursorAt(m, w) EXCEPT !.status = "failed"]
<1>1. SilverGrows /\ m \in Mappings /\ CursorType
  BY QueryFacts DEF SilverGrows, TypeInv, TypeOK, CursorType
<1>2. CursorAt(m, w) \in CursorRow
  BY <1>1, CursorAtTyped DEF CursorRow
<1>3. row.status = "failed" /\ row.next = CursorAt(m, w).next
  <2> HIDE DEF m, w
  <2> QED
    BY <1>2 DEF CursorRow
<1>4. Page(Matching(w, Articles), 0, CursorAt(m, w).next) \subseteq persisted[m]
  <2>1. CASE w \in DOMAIN cursor[m]
    BY <1>1, <2>1 DEF SoundInv, ResumesWithoutLoss, CursorAt
  <2>2. CASE w \notin DOMAIN cursor[m]
    BY <2>2, NoPage, MatchingSubset DEF CursorAt, NewCursor
  <2>3. QED
    BY <2>1, <2>2
<1>5. cursor' = PutCursor(m, w, row)
  BY DEF RecordError
<1> HIDE DEF row, w
<1>6. WindowsHaveNoGap' /\ ResumesWithoutLoss'
  BY <1>1, <1>3, <1>4, <1>5, PutSound
<1>7. InFlight'
  BY <1>1, FlightStep DEF Set
<1>8. QED
  BY <1>1, <1>6, <1>7 DEF SoundInv

LEMMA SoundInit == LedgerInit => SoundInv
  BY IdleTyped DEF LedgerInit, Init, SoundInv, WindowsHaveNoGap, ResumesWithoutLoss, InFlight,
                   Succeeded, Idle

LEMMA LoopSound ==
  ASSUME TypeInv, SoundInv, NEW r \in Runs, RunLoops(r)
  PROVE  SoundInv' /\ SilverGrows
<1> DEFINE now == run[r]
<1>1. run[r] \in Locals
  BY DEF TypeInv, TypeOK
<1>2. UNCHANGED <<cursor, persisted>>
  BY DEF RunLoops, StartRun, RunTooSlow, OpenMapping, NextMapping, SkipWindow, Send, Retry,
         FinishRun
<1>3. ASSUME NEW range \in Ranges, StartRun(r, range) PROVE SoundInv' /\ SilverGrows
  <2> DEFINE new == [Idle EXCEPT !.pc = "mapping", !.range = range, !.todo = enabled]
  <2>1. Set(r, new) /\ new.pc = "mapping"
    BY <1>3 DEF StartRun, Idle
  <2> HIDE DEF new
  <2>2. QED
    BY <1>2, <2>1, QuietSound
<1>4. ASSUME RunTooSlow(r) PROVE SoundInv' /\ SilverGrows
  <2> DEFINE new == [now EXCEPT !.pc = "finish", !.safety = TRUE]
  <2>1. Set(r, new) /\ new.pc = "finish"
    BY <1>1, <1>4 DEF RunTooSlow, Locals
  <2> HIDE DEF new
  <2>2. QED
    BY <1>2, <2>1, QuietSound
<1>5. ASSUME OpenMapping(r) PROVE SoundInv' /\ SilverGrows
  <2> DEFINE new == [now EXCEPT !.pc = "window", !.pending = partition_windows(now.range)]
  <2>1. Set(r, new) /\ new.pc = "window"
    BY <1>1, <1>5 DEF OpenMapping, Locals
  <2> HIDE DEF new
  <2>2. QED
    BY <1>2, <2>1, QuietSound
<1>6. ASSUME NextMapping(r) PROVE SoundInv' /\ SilverGrows
  <2> DEFINE stop == [now EXCEPT !.pc = "finish", !.safety = TRUE]
             go == [now EXCEPT !.pc = IF now.todo = {M(r)} THEN "finish" ELSE "mapping",
                               !.todo = @ \ {M(r)}]
  <2>1. stop.pc = "finish" /\ go.pc \in {"finish", "mapping"}
    BY <1>1 DEF Locals
  <2>2. Set(r, stop) \/ Set(r, go)
    BY <1>6 DEF NextMapping
  <2> HIDE DEF stop, go
  <2>3. QED
    BY <1>2, <2>1, <2>2, QuietSound
<1>7. ASSUME SkipWindow(r) PROVE SoundInv' /\ SilverGrows
  <2> DEFINE new == [now EXCEPT !.pending = Tail(@), !.succeeded = TRUE]
  <2>1. Set(r, new) /\ new.pc = "window"
    BY <1>1, <1>7 DEF SkipWindow, At, Locals
  <2> HIDE DEF new
  <2>2. QED
    BY <1>2, <2>1, QuietSound
<1>8. ASSUME FinishRun(r) PROVE SoundInv' /\ SilverGrows
  <2> DEFINE new == [Idle EXCEPT !.pc = "rebuild"]
  <2>1. Set(r, new) /\ new.pc = "rebuild"
    BY <1>8 DEF FinishRun, Idle
  <2> HIDE DEF new
  <2>2. QED
    BY <1>2, <2>1, QuietSound
<1>9. SilverGrows
  BY <1>2 DEF SilverGrows
<1>10. WindowsHaveNoGap' /\ ResumesWithoutLoss'
  BY <1>2 DEF SoundInv, WindowsHaveNoGap, ResumesWithoutLoss, Succeeded
<1>11. ASSUME Send(r) PROVE SoundInv'
  <2> DEFINE new == [now EXCEPT !.pc = "waiting", !.start = Saved(r).next, !.requests = @ + 1]
  <2>1. Set(r, new) /\ Querying(now)
    BY <1>11 DEF Send, At, Querying
  <2>2. M(r) \in Mappings /\ now.target \in DOMAIN cursor[M(r)]
    BY <2>1, QueryFacts
  <2>3. new.target = now.target /\ new.start = Saved(r).next /\ Min(new.todo) = M(r)
    BY <1>1 DEF Locals, M
  <2>4. Page(Matching(now.target, Articles), 0, Saved(r).next) \subseteq persisted'[M(r)]
    BY <1>2, <2>2 DEF SoundInv, ResumesWithoutLoss, Saved
  <2> HIDE DEF new
  <2>5. InFlight'
    BY <1>9, <2>1, <2>3, <2>4, FlightStep DEF Set
  <2>6. QED
    BY <1>10, <2>5 DEF SoundInv
<1>12. ASSUME Retry(r) PROVE SoundInv'
  <2> DEFINE new == [now EXCEPT !.requests = @ + 1]
  <2>1. Set(r, new) /\ now.pc = "waiting"
    BY <1>12 DEF Retry, At
  <2>2. new.target = now.target /\ new.start = now.start /\ Min(new.todo) = M(r)
    BY <1>1 DEF Locals, M
  <2>3. Page(Matching(now.target, Articles), 0, now.start) \subseteq persisted'[M(r)]
    BY <1>2, <2>1 DEF SoundInv, InFlight, Found
  <2> HIDE DEF new
  <2>4. InFlight'
    BY <1>9, <2>1, <2>2, <2>3, FlightStep DEF Set
  <2>5. QED
    BY <1>10, <2>4 DEF SoundInv
<1>13. QED
  BY <1>3, <1>4, <1>5, <1>6, <1>7, <1>8, <1>9, <1>11, <1>12 DEF RunLoops

LEMMA QuerySound ==
  ASSUME TypeInv, SoundInv, NEW r \in Runs, RunQueries(r)
  PROVE  SoundInv' /\ SilverGrows
<1> DEFINE now == run[r]
<1>1. now \in Locals /\ persisted \in [Mappings -> SUBSET Articles]
  BY DEF TypeInv, TypeOK
<1>2. ASSUME Querying(now)
      PROVE  /\ M(r) \in Mappings /\ Saved(r) \in CursorRow
             /\ Page(Found(r), 0, Saved(r).next) \subseteq persisted[M(r)]
  BY <1>2, QueryFacts DEF SoundInv, ResumesWithoutLoss, Saved, Found
<1>3. ASSUME OpenWindow(r) PROVE SoundInv' /\ SilverGrows
  <2> DEFINE m == M(r)
             w == Head(now.pending)
             row == [CursorAt(m, w) EXCEPT !.status = "running"]
             new == [now EXCEPT !.pc = "page", !.pending = Tail(@), !.target = w]
  <2>1. m \in Mappings /\ CursorType /\ SilverGrows
    BY <1>3, FirstMapping DEF OpenWindow, At, TypeInv, TypeOK, Turn, CursorType, SilverGrows
  <2>2. CursorAt(m, w) \in CursorRow
    BY <2>1, CursorAtTyped DEF CursorRow
  <2>3. row.status = "running" /\ row.next = CursorAt(m, w).next
    <3> HIDE DEF m, w
    <3> QED
      BY <2>2 DEF CursorRow
  <2>4. Page(Matching(w, Articles), 0, CursorAt(m, w).next) \subseteq persisted[m]
    <3> HIDE DEF w
    <3>1. CASE w \in DOMAIN cursor[m]
      BY <2>1, <3>1 DEF SoundInv, ResumesWithoutLoss, CursorAt
    <3>2. CASE w \notin DOMAIN cursor[m]
      BY <3>2, NoPage, MatchingSubset DEF CursorAt, NewCursor
    <3>3. QED
      BY <3>1, <3>2
  <2>5. cursor' = PutCursor(m, w, row) /\ Set(r, new) /\ UNCHANGED persisted
    BY <1>3 DEF OpenWindow
  <2>6. new.pc = "page"
    BY <1>1 DEF Locals
  <2> HIDE DEF m, w, row, new
  <2>7. WindowsHaveNoGap' /\ ResumesWithoutLoss'
    BY <2>1, <2>3, <2>4, <2>5, PutSound
  <2>8. InFlight'
    BY <2>1, <2>5, <2>6, FlightStep DEF Set
  <2>9. QED
    BY <2>1, <2>7, <2>8 DEF SoundInv
<1>4. ASSUME LimitReached(r) PROVE SoundInv' /\ SilverGrows
  BY <1>4, PauseSound DEF LimitReached, At, Querying
<1>5. ASSUME SplitWindow(r) PROVE SoundInv' /\ SilverGrows
  <2> DEFINE more == [now EXCEPT !.pending = queue(split_window(now.target), @)]
             new == Back(more)
  <2>1. Querying(now) /\ UNCHANGED persisted
    BY <1>5 DEF SplitWindow, At, Querying
  <2>2. Pause(r) \/ (Save(r, "partial", Saved(r).next) /\ Set(r, new))
    BY <1>5 DEF SplitWindow
  <2>3. new.pc = "window"
    BY <1>1 DEF Back, Locals
  <2> HIDE DEF new
  <2>4. CASE Pause(r)
    BY <2>1, <2>4, PauseSound
  <2>5. CASE Save(r, "partial", Saved(r).next) /\ Set(r, new)
    <3>1. SilverGrows
      BY <2>1 DEF SilverGrows
    <3>2. QED
      BY <1>2, <2>1, <2>3, <2>5, <3>1, SaveSound
  <2>6. QED
    BY <2>2, <2>4, <2>5
<1>6. ASSUME ReceivePage(r) PROVE SoundInv' /\ SilverGrows
  <2> DEFINE done == [now EXCEPT !.succeeded = TRUE]
             on == [now EXCEPT !.pc = "page"]
  <2>1. PICK size \in 1..PageSize :
          LET next == now.start + size IN
          /\ persisted' = persist_feed(persisted, M(r), Page(Found(r), now.start, size))
          /\ \/ /\ Exhausted(r, next)
                /\ Save(r, "succeeded", next) /\ Set(r, Back(done))
             \/ Save(r, Saved(r).status, next) /\ Set(r, on)
    BY <1>6 DEF ReceivePage
  <2> DEFINE next == now.start + size
  <2>2. Querying(now) /\ now.pc = "waiting"
    BY <1>6 DEF ReceivePage, At, Querying
  <2>3. M(r) \in Mappings /\ Found(r) \in SUBSET Articles
        /\ now.start \in Nat /\ size \in Nat /\ size > 0 /\ next \in Nat
    BY <1>1, <1>2, <2>2, MatchingSubset, SettingsAssumption DEF Locals, Found
  <2>4. SilverGrows /\ persisted'[M(r)] = persisted[M(r)] \cup Page(Found(r), now.start, size)
    BY <1>1, <2>1, <2>3 DEF SilverGrows, persist_feed
  <2>5. Page(Found(r), 0, now.start) \subseteq persisted[M(r)]
    BY <2>2 DEF SoundInv, InFlight
  <2>6. Page(Found(r), 0, next) \subseteq persisted'[M(r)]
    <3>1. Page(Found(r), 0, next) \subseteq Page(Found(r), 0, now.start) \cup Page(Found(r), now.start, size)
      BY <2>3, PageExtends
    <3>2. QED
      BY <2>4, <2>5, <3>1
  <2>7. Back(done).pc = "window" /\ on.pc = "page"
    BY <1>1 DEF Back, Locals
  <2> HIDE DEF next, done, on
  <2>8. CASE Exhausted(r, next) /\ Save(r, "succeeded", next) /\ Set(r, Back(done))
    <3>1. Found(r) \subseteq persisted'[M(r)]
      BY <2>3, <2>6, <2>8, PrefixIsAll DEF Exhausted
    <3>2. QED
      BY <2>2, <2>4, <2>6, <2>7, <2>8, <3>1, SaveSound
  <2>9. CASE Save(r, Saved(r).status, next) /\ Set(r, on)
    <3>1. Saved(r).status = "succeeded" => Found(r) \subseteq persisted[M(r)]
      BY <2>2, QueryFacts DEF SoundInv, WindowsHaveNoGap, Succeeded, Saved, Found
    <3>2. persisted[M(r)] \subseteq persisted'[M(r)]
      BY <2>4
    <3>3. QED
      BY <2>2, <2>4, <2>6, <2>7, <2>9, <3>1, <3>2, SaveSound
  <2>10. QED
    BY <2>1, <2>8, <2>9 DEF next
<1>7. ASSUME ReceiveEmpty(r) PROVE SoundInv' /\ SilverGrows
  <2> DEFINE total == Cardinality(Found(r))
             done == [now EXCEPT !.succeeded = TRUE]
  <2>1. Querying(now) /\ now.pc = "waiting" /\ UNCHANGED persisted /\ SilverGrows
    BY <1>7 DEF ReceiveEmpty, At, Querying, SilverGrows
  <2>2. \/ now.start >= total /\ Save(r, "succeeded", total) /\ Set(r, Back(done))
        \/ Pause(r)
    BY <1>7 DEF ReceiveEmpty
  <2>3. now.start \in Nat /\ Found(r) \in SUBSET Articles /\ total \in Nat
    BY <1>1, MatchingSubset, PositionBound DEF Locals, Found
  <2>4. Page(Found(r), 0, now.start) \subseteq persisted'[M(r)]
    BY <2>1 DEF SoundInv, InFlight
  <2>5. Page(Found(r), 0, total) \subseteq Found(r)
    BY DEF Page
  <2>6. Back(done).pc = "window"
    BY <1>1 DEF Back, Locals
  <2>7. CASE now.start >= total /\ Save(r, "succeeded", total) /\ Set(r, Back(done))
    <3>1. Found(r) \subseteq persisted'[M(r)]
      BY <2>3, <2>4, <2>7, PrefixIsAll
    <3> HIDE DEF done, total
    <3>2. QED
      BY <2>1, <2>5, <2>6, <2>7, <3>1, SaveSound
  <2>8. CASE Pause(r)
    BY <2>1, <2>8, PauseSound
  <2>9. QED
    BY <2>2, <2>7, <2>8
<1>8. ASSUME RequestFails(r) \/ ParseFails(r) PROVE SoundInv' /\ SilverGrows
  <2> DEFINE failed == [now EXCEPT !.errors = TRUE]
  <2>1. Querying(now) /\ Set(r, Back(failed)) /\ UNCHANGED persisted /\ SilverGrows
    BY <1>8 DEF RequestFails, ParseFails, At, Querying, SilverGrows
  <2>2. Back(failed).pc = "window"
    BY <1>1 DEF Back, Locals
  <2>3. RecordError(M(r)) \/ Save(r, "failed", Saved(r).next)
    BY <1>8 DEF RequestFails, ParseFails
  <2> HIDE DEF failed
  <2>4. CASE RecordError(M(r))
    BY <2>1, <2>2, <2>4, ErrorSound
  <2>5. CASE Save(r, "failed", Saved(r).next)
    BY <1>2, <2>1, <2>2, <2>5, SaveSound
  <2>6. QED
    BY <2>3, <2>4, <2>5
<1>9. ASSUME Forbidden(r) PROVE SoundInv' /\ SilverGrows
  <2> DEFINE new == [Back(now) EXCEPT !.pc = "finish", !.errors = TRUE]
  <2>1. Querying(now) /\ Set(r, new) /\ RecordError(M(r)) /\ UNCHANGED persisted
    BY <1>9 DEF Forbidden, At, Querying
  <2>2. new.pc = "finish"
    BY <1>1, BackTyped DEF Locals
  <2> HIDE DEF new
  <2>3. QED
    BY <2>1, <2>2, ErrorSound
<1>10. QED
  BY <1>3, <1>4, <1>5, <1>6, <1>7, <1>8, <1>9 DEF RunQueries

LEMMA SoundStep ==
  ASSUME TypeInv, SoundInv, [LedgerNext]_allVars
  PROVE  SoundInv' /\ SilverGrows
<1>1. CASE UNCHANGED <<cursor, persisted, run>>
  BY <1>1 DEF SoundInv, WindowsHaveNoGap, ResumesWithoutLoss, InFlight, Succeeded, Found, M,
              SilverGrows
<1>2. ASSUME NEW r \in Runs,
             StartRebuild(r) \/ Derive(r) \/ CommitCoverage(r) \/ CrashLedger(r)
      PROVE  SoundInv' /\ SilverGrows
  <2>1. \/ Set(r, [Idle EXCEPT !.pc = "rebuild"])
        \/ Set(r, [Idle EXCEPT !.pc = "commit"])
        \/ Set(r, Idle)
    BY <1>2 DEF StartRebuild, Derive, CommitCoverage, CrashLedger, Crash
  <2>2. UNCHANGED <<cursor, persisted>>
    BY <1>2 DEF StartRebuild, Derive, CommitCoverage, CrashLedger, Crash
  <2>3. /\ [Idle EXCEPT !.pc = "rebuild"].pc # "waiting" /\ Idle.pc # "waiting"
        /\ [Idle EXCEPT !.pc = "commit"].pc # "waiting"
    BY DEF Idle
  <2>4. QED
    BY <2>1, <2>2, <2>3, QuietSound
<1>3. ASSUME NEW m \in Mappings, Sync(m) PROVE SoundInv' /\ SilverGrows
  BY <1>1, <1>3 DEF Sync
<1>4. CASE UNCHANGED allVars
  BY <1>1, <1>4 DEF allVars, vars
<1>5. CASE LedgerNext
  BY <1>2, <1>3, <1>5, StepKinds, LoopSound, QuerySound, Zenon
<1>6. QED
  BY <1>4, <1>5

(* A window whose cursor succeeded is collected in full, for any number of *)
(* processes that share the cursors.                                       *)
THEOREM NoWindowGap == Spec => []WindowsHaveNoGap
<1>1. SoundInv => WindowsHaveNoGap
  BY DEF SoundInv
<1>2. QED
  BY <1>1, TypeInit, TypeStep, SoundInit, SoundStep, PTL DEF Spec

(* No cursor points past a page that is not in Silver, for any number of   *)
(* processes that share the cursors.                                       *)
THEOREM Resumes == Spec => []ResumesWithoutLoss
<1>1. SoundInv => ResumesWithoutLoss
  BY DEF SoundInv
<1>2. QED
  BY <1>1, TypeInit, TypeStep, SoundInit, SoundStep, PTL DEF Spec

-----------------------------------------------------------------------------
(* Windows lose no article *)

LEMMA WindowsCover ==
  ASSUME NEW range \in Ranges, NEW a \in Matching(range, Articles)
  PROVE  \E i \in DOMAIN partition_windows(range) :
           a \in Matching(partition_windows(range)[i], Articles)
<1> DEFINE count == window_count(range)
           F == range.from
           U == range.until
           From(i) == F + (i - 1) * WindowDays
           Until(i) == IF From(i) + WindowDays < U THEN From(i) + WindowDays ELSE U
           t == Submitted[a]
           reached == {i \in 1..count : t <= Written(Until(i))}
<1>1. /\ range \in Bounds /\ F \in Int /\ U \in Int
      /\ WindowDays \in Nat /\ count \in Nat /\ count > 0
      /\ WindowDays * count >= U - F
  BY WindowsTyped, CountFacts, BackfillAssumption DEF Bounds
<1>2. a \in Articles /\ t \in Int /\ Written(F) <= t /\ t <= Written(U)
  BY ArticleAssumption DEF Matching
<1>3. \A i \in 1..count : From(i) \in Int /\ Until(i) \in Int
  BY <1>1
<1>4. DOMAIN partition_windows(range) = 1..count
      /\ \A i \in 1..count : partition_windows(range)[i] = [from |-> From(i), until |-> Until(i)]
  BY DEF partition_windows
<1>5. Until(count) = U
  <2>1. From(count) + WindowDays = F + WindowDays * count
    BY <1>1
  <2>2. QED
    BY <1>1, <2>1
<1>6. count \in reached /\ reached \subseteq Nat
  <2>1. count \in 1..count /\ t <= Written(Until(count))
    BY <1>1, <1>2, <1>5
  <2>2. QED
    BY <1>1, <2>1
<1>7. PICK i \in reached : \A k \in reached : i <= k
  <2> HIDE DEF reached
  <2> QED
    BY <1>6, LeastNatural
<1>8. i \in 1..count /\ t <= Written(Until(i))
  BY <1>7
<1>9. Written(From(i)) <= t
  <2>1. CASE i = 1
    <3>1. From(1) = F
      BY <1>1
    <3>2. QED
      BY <1>2, <2>1, <3>1
  <2>2. CASE i # 1
    <3>1. i - 1 \in 1..count /\ i - 1 \in Int /\ ~(i <= i - 1)
      BY <1>1, <1>8, <2>2
    <3>2. i - 1 \notin reached
      BY <1>7, <3>1
    <3>3. ~ (t <= Written(Until(i - 1)))
      BY <3>1, <3>2
    <3>4. From(i - 1) + WindowDays = From(i)
      BY <1>1, <1>8
    <3>5. Until(i - 1) = From(i) \/ Until(i - 1) = U
      BY <3>4
    <3>6. Until(i - 1) # U
      BY <1>2, <3>3
    <3>7. Written(From(i)) \in Int /\ ~ (t <= Written(From(i)))
      BY <1>3, <1>8, <3>3, <3>5, <3>6, WrittenGrows
    <3>8. QED
      BY <1>2, <3>7
  <2>3. QED
    BY <2>1, <2>2
<1>10. a \in Matching(partition_windows(range)[i], Articles)
  <2> DEFINE from == From(i)
             until == Until(i)
  <2>1. partition_windows(range)[i] = [from |-> from, until |-> until]
        /\ Written(from) <= t /\ t <= Written(until)
    BY <1>4, <1>8, <1>9
  <2> HIDE DEF from, until
  <2>2. QED
    BY <1>2, <2>1 DEF Matching
<1>11. QED
  BY <1>4, <1>8, <1>10

LEMMA HalvesCover ==
  ASSUME NEW w \in Bounds, split_window(w) # <<>>, NEW a \in Matching(w, Articles)
  PROVE  \E i \in DOMAIN split_window(w) : a \in Matching(split_window(w)[i], Articles)
<1> DEFINE middle == w.from + (w.until - w.from) \div 2
           first == [from |-> w.from, until |-> middle]
           second == [from |-> middle, until |-> w.until]
<1>1. middle \in Int
  BY DEF Bounds
<1>2. Written(middle) \in Int
  BY <1>1, WrittenGrows
<1>3. split_window(w) = <<first, second>>
  BY DEF split_window
<1>4. /\ a \in Articles /\ Submitted[a] \in Int
      /\ Written(w.from) <= Submitted[a] /\ Submitted[a] <= Written(w.until)
  BY ArticleAssumption DEF Matching
<1> HIDE DEF middle
<1>5. CASE Submitted[a] <= Written(middle)
  <2>1. a \in Matching(first, Articles)
    BY <1>4, <1>5 DEF Matching
  <2>2. QED
    BY <1>3, <2>1
<1>6. CASE Written(middle) <= Submitted[a]
  <2>1. a \in Matching(second, Articles)
    BY <1>4, <1>6 DEF Matching
  <2>2. QED
    BY <1>3, <2>1
<1>7. QED
  BY <1>2, <1>4, <1>5, <1>6

-----------------------------------------------------------------------------
(* A run without an error or a safety stop has collected the mappings it   *)
(* has finished, and of the current one everything but the windows ahead.  *)

Collecting(r) == run[r].pc \in {"mapping", "window", "page", "waiting", "finish"}
InMapping(r) == run[r].pc \in {"window", "page", "waiting"}
Clean(r) == ~ run[r].errors /\ ~ run[r].safety

Collected(r, m) == Matching(run[r].range, Articles) \subseteq persisted[m]
Ahead(r, a) ==
  \/ \E i \in DOMAIN run[r].pending : a \in Matching(run[r].pending[i], Articles)
  \/ Querying(run[r]) /\ a \in Found(r)

Progress(r) ==
  Collecting(r) /\ Clean(r) =>
    /\ verdict[r].range = run[r].range
    /\ \A m \in verdict[r].mappings \ run[r].todo : Collected(r, m)
    /\ run[r].pc = "finish" => run[r].todo = {}
    /\ InMapping(r) =>
         \A a \in Matching(run[r].range, Articles) : a \in persisted[M(r)] \/ Ahead(r, a)

Honest(r) ==
  verdict[r].status = "succeeded" =>
    \A m \in verdict[r].mappings : Matching(verdict[r].range, Articles) \subseteq persisted[m]

HonestInv == \A r \in Runs : Progress(r) /\ Honest(r)

LEMMA OthersHonest ==
  ASSUME TypeInv, HonestInv, SilverGrows, NEW r \in Runs, NEW new, Set(r, new),
         \A s \in Runs : s # r => verdict'[s] = verdict[s],
         Progress(r)', Honest(r)'
  PROVE  HonestInv'
<1>1. ASSUME NEW s \in Runs, s # r PROVE Progress(s)' /\ Honest(s)'
  <2>1. run'[s] = run[s] /\ verdict'[s] = verdict[s]
    BY <1>1 DEF Set, TypeInv, TypeOK
  <2>2. Found(s)' = Found(s) /\ M(s)' = M(s)
    BY <2>1 DEF Found, M
  <2>3. verdict[s].mappings \subseteq Mappings
    BY DEF TypeInv, TypeOK
  <2>4. InMapping(s) => M(s) \in Mappings
    BY FirstMapping DEF TypeInv, Turn, InMapping
  <2>5. Honest(s)'
    BY <2>1, <2>3 DEF HonestInv, Honest, SilverGrows
  <2>6. \A m \in verdict[s].mappings : Collected(s, m) => Collected(s, m)'
    BY <2>1, <2>3 DEF Collected, SilverGrows
  <2>7. \A a : Ahead(s, a) => Ahead(s, a)'
    BY <2>1, <2>2 DEF Ahead
  <2>8. InMapping(s) => persisted[M(s)] \subseteq persisted'[M(s)]
    BY <2>4 DEF SilverGrows
  <2>9. Progress(s)
    BY DEF HonestInv
  <2>10. Progress(s)'
    BY <2>1, <2>2, <2>6, <2>7, <2>8, <2>9 DEF Progress, Collecting, InMapping, Clean
  <2>11. QED
    BY <2>5, <2>10
<1>2. QED
  BY <1>1 DEF HonestInv

(* A step of a run that keeps its verdict: what is new is its progress.    *)
LEMMA RunHonest ==
  ASSUME TypeInv, HonestInv, SilverGrows, NEW r \in Runs, NEW new, Set(r, new),
         UNCHANGED verdict, Progress(r)'
  PROVE  HonestInv'
<1>1. verdict[r].mappings \subseteq Mappings /\ Honest(r)
  BY DEF TypeInv, TypeOK, HonestInv
<1>2. Honest(r)'
  BY <1>1 DEF Honest, SilverGrows
<1>3. QED
  BY <1>2, OthersHonest

(* A step within a mapping: what it takes from ahead is in Silver.         *)
LEMMA WindowHonest ==
  ASSUME TypeInv, HonestInv, SilverGrows, NEW r \in Runs, NEW new, Set(r, new),
         UNCHANGED verdict, InMapping(r), new.pc \in {"window", "page", "waiting"},
         new.todo = run[r].todo, new.range = run[r].range,
         ~ new.errors /\ ~ new.safety => Clean(r),
         ~ new.errors /\ ~ new.safety =>
           \A a \in Articles : Ahead(r, a) => a \in persisted'[M(r)] \/ Ahead(r, a)'
  PROVE  HonestInv'
<1>1. run'[r] = new
  BY DEF Set, TypeInv, TypeOK
<1>2. M(r)' = M(r) /\ M(r) \in Mappings
  BY <1>1, FirstMapping DEF M, TypeInv, Turn, InMapping
<1>3. Progress(r) /\ verdict[r].mappings \subseteq Mappings
  BY DEF HonestInv, TypeInv, TypeOK
<1>4. ASSUME Clean(r)'
      PROVE  /\ verdict'[r].range = run'[r].range
             /\ \A m \in verdict'[r].mappings \ run'[r].todo : Collected(r, m)'
             /\ \A a \in Matching(run'[r].range, Articles) : a \in persisted'[M(r)'] \/ Ahead(r, a)'
  <2>1. Clean(r) /\ Collecting(r)
    BY <1>1, <1>4 DEF Clean, Collecting, InMapping
  <2>2. /\ verdict[r].range = run[r].range
        /\ \A m \in verdict[r].mappings \ run[r].todo : Collected(r, m)
        /\ \A a \in Matching(run[r].range, Articles) : a \in persisted[M(r)] \/ Ahead(r, a)
    BY <1>3, <2>1 DEF Progress
  <2>3. \A a \in Articles : Ahead(r, a) => a \in persisted'[M(r)] \/ Ahead(r, a)'
    BY <1>1, <1>4 DEF Clean
  <2>4. \A m \in verdict[r].mappings \ run[r].todo : Collected(r, m)'
    BY <1>1, <1>3, <2>2 DEF Collected, SilverGrows
  <2>5. \A a \in Matching(run[r].range, Articles) : a \in Articles
    BY DEF Matching
  <2>6. persisted[M(r)] \subseteq persisted'[M(r)]
    BY <1>2 DEF SilverGrows
  <2>7. QED
    BY <1>1, <1>2, <2>2, <2>3, <2>4, <2>5, <2>6
<1>5. Progress(r)'
  BY <1>1, <1>4 DEF Progress
<1>6. QED
  BY <1>5, RunHonest

(* A step with which a run has an error or a safety stop.                  *)
LEMMA StopHonest ==
  ASSUME TypeInv, HonestInv, SilverGrows, NEW r \in Runs, NEW new, Set(r, new),
         UNCHANGED verdict, new.errors \/ new.safety
  PROVE  HonestInv'
<1>1. run'[r] = new
  BY DEF Set, TypeInv, TypeOK
<1>2. Progress(r)'
  BY <1>1 DEF Progress, Clean
<1>3. QED
  BY <1>2, RunHonest

(* A step after which a process does not collect.                          *)
LEMMA OutsideHonest ==
  ASSUME TypeInv, HonestInv, SilverGrows, NEW r \in Runs, NEW new, Set(r, new),
         UNCHANGED verdict, new.pc \in {"idle", "rebuild", "commit"}
  PROVE  HonestInv'
<1>1. run'[r] = new
  BY DEF Set, TypeInv, TypeOK
<1>2. Progress(r)'
  BY <1>1 DEF Progress, Collecting
<1>3. QED
  BY <1>2, RunHonest

(* A step of a run that goes on with the window it queries.                *)
LEMMA SameTarget ==
  ASSUME TypeInv, HonestInv, SilverGrows, NEW r \in Runs, NEW new, Set(r, new),
         UNCHANGED verdict, Querying(run[r]), Querying(new),
         new.range = run[r].range, new.todo = run[r].todo,
         new.errors = run[r].errors, new.safety = run[r].safety,
         new.pending = run[r].pending, new.target = run[r].target
  PROVE  HonestInv'
<1>1. run'[r] = new
  BY DEF Set, TypeInv, TypeOK
<1>2. \A a \in Articles : Ahead(r, a) => Ahead(r, a)'
  BY <1>1 DEF Ahead, Found
<1>3. /\ InMapping(r) /\ (~ new.errors /\ ~ new.safety => Clean(r))
      /\ new.pc \in {"window", "page", "waiting"}
  BY DEF InMapping, Clean, Querying
<1>4. QED
  BY <1>2, <1>3, WindowHonest

(* The windows after the head of the queue.                                *)
LEMMA TailFacts ==
  ASSUME NEW S, NEW s \in Seq(S), s # <<>>
  PROVE  /\ \A i \in DOMAIN s : i # 1 => i - 1 \in DOMAIN Tail(s) /\ Tail(s)[i - 1] = s[i]
         /\ Head(s) = s[1] /\ 1 \in DOMAIN s
  OBVIOUS

LEMMA LoopHonest ==
  ASSUME TypeInv, SoundInv, HonestInv, SilverGrows, NEW r \in Runs, RunLoops(r)
  PROVE  HonestInv'
<1> DEFINE now == run[r]
<1>1. /\ now \in Locals /\ Turn(r) /\ Progress(r) /\ TypeOK
      /\ verdict[r].mappings \subseteq Mappings
  BY DEF TypeInv, TypeOK, HonestInv
<1>2. UNCHANGED <<cursor, persisted>>
  BY DEF RunLoops, StartRun, RunTooSlow, OpenMapping, NextMapping, SkipWindow, Send, Retry,
         FinishRun
<1>3. ASSUME NEW range \in Ranges, StartRun(r, range) PROVE HonestInv'
  <2> DEFINE new == [Idle EXCEPT !.pc = "mapping", !.range = range, !.todo = enabled]
  <2>1. /\ Set(r, new) /\ new.pc = "mapping" /\ new.range = range /\ new.todo = enabled
        /\ verdict' = [verdict EXCEPT ![r] =
             [range |-> range, mappings |-> enabled, status |-> "running"]]
    BY <1>3 DEF StartRun, Idle
  <2> HIDE DEF new
  <2>2. /\ run'[r] = new /\ \A s \in Runs : s # r => verdict'[s] = verdict[s]
        /\ verdict'[r] = [range |-> range, mappings |-> enabled, status |-> "running"]
    BY <1>1, <2>1 DEF Set, TypeOK
  <2>3. Progress(r)'
    BY <2>1, <2>2 DEF Progress, InMapping
  <2>4. Honest(r)'
    BY <2>2 DEF Honest
  <2>5. QED
    BY <2>1, <2>2, <2>3, <2>4, OthersHonest
<1>4. ASSUME RunTooSlow(r) PROVE HonestInv'
  <2> DEFINE new == [now EXCEPT !.pc = "finish", !.safety = TRUE]
  <2>1. Set(r, new) /\ new.safety /\ UNCHANGED verdict
    BY <1>1, <1>4 DEF RunTooSlow, Locals
  <2> HIDE DEF new
  <2>2. QED
    BY <2>1, StopHonest
<1>5. ASSUME OpenMapping(r) PROVE HonestInv'
  <2> DEFINE new == [now EXCEPT !.pc = "window", !.pending = partition_windows(now.range)]
  <2>1. /\ Set(r, new) /\ new.pc = "window" /\ new.range = now.range /\ new.todo = now.todo
        /\ new.errors = now.errors /\ new.safety = now.safety
        /\ new.pending = partition_windows(now.range) /\ UNCHANGED verdict
    BY <1>1, <1>5 DEF OpenMapping, Locals
  <2>2. now.pc = "mapping" /\ now.range \in Ranges
    BY <1>1, <1>5 DEF OpenMapping, At, Turn
  <2> HIDE DEF new
  <2>3. run'[r] = new
    BY <1>1, <2>1 DEF Set, TypeOK
  <2>4. \A a \in Matching(now.range, Articles) : Ahead(r, a)'
    BY <2>1, <2>2, <2>3, WindowsCover DEF Ahead
  <2>5. \A m \in verdict[r].mappings \ now.todo : Collected(r, m) => Collected(r, m)'
    BY <1>2, <2>1, <2>3 DEF Collected
  <2>6. Progress(r)'
    BY <1>1, <2>1, <2>2, <2>3, <2>4, <2>5 DEF Progress, Collecting, InMapping, Clean
  <2>7. QED
    BY <2>1, <2>6, RunHonest
<1>6. ASSUME NextMapping(r) PROVE HonestInv'
  <2> DEFINE stop == [now EXCEPT !.pc = "finish", !.safety = TRUE]
             go == [now EXCEPT !.pc = IF now.todo = {M(r)} THEN "finish" ELSE "mapping",
                               !.todo = @ \ {M(r)}]
  <2>1. stop.safety /\ UNCHANGED verdict /\ (Set(r, stop) \/ Set(r, go))
    BY <1>1, <1>6 DEF NextMapping, Locals
  <2>2. /\ go.pc = (IF now.todo = {M(r)} THEN "finish" ELSE "mapping")
        /\ go.todo = now.todo \ {M(r)} /\ go.range = now.range
        /\ go.errors = now.errors /\ go.safety = now.safety
    BY <1>1 DEF Locals
  <2>3. now.pc = "window" /\ now.pending = <<>>
    BY <1>6 DEF NextMapping, At
  <2> HIDE DEF stop, go
  <2>4. CASE Set(r, stop)
    BY <2>1, <2>4, StopHonest
  <2>5. CASE Set(r, go)
    <3>1. run'[r] = go
      BY <1>1, <2>5 DEF Set, TypeOK
    <3>2. \A a : ~ Ahead(r, a)
      BY <2>3 DEF Ahead, Querying
    <3>3. Clean(r) => \A m \in verdict[r].mappings \ go.todo : Collected(r, m)
      BY <1>1, <2>2, <2>3, <3>2 DEF Progress, Collecting, InMapping, Collected
    <3>4. \A m \in verdict[r].mappings : Collected(r, m) => Collected(r, m)'
      BY <1>2, <2>2, <3>1 DEF Collected
    <3>5. Clean(r)' => Clean(r) /\ verdict[r].range = now.range
      BY <1>1, <2>2, <2>3, <3>1 DEF Clean, Progress, Collecting
    <3>6. go.pc = "finish" => go.todo = {}
      BY <2>2
    <3>7. ~ InMapping(r)'
      BY <2>2, <3>1 DEF InMapping
    <3>8. Progress(r)'
      BY <2>1, <2>2, <3>1, <3>3, <3>4, <3>5, <3>6, <3>7 DEF Progress
    <3>9. QED
      BY <2>1, <2>5, <3>8, RunHonest
  <2>6. QED
    BY <2>1, <2>4, <2>5
<1>7. ASSUME SkipWindow(r) PROVE HonestInv'
  <2> DEFINE new == [now EXCEPT !.pending = Tail(@), !.succeeded = TRUE]
  <2>1. /\ Set(r, new) /\ new.pc = "window" /\ new.range = now.range /\ new.todo = now.todo
        /\ new.errors = now.errors /\ new.safety = now.safety
        /\ new.pending = Tail(now.pending) /\ UNCHANGED verdict
    BY <1>1, <1>7 DEF SkipWindow, At, Locals
  <2>2. /\ now.pc = "window" /\ now.pending # <<>> /\ Done(r, Head(now.pending))
        /\ now.pending \in Seq(Bounds)
    BY <1>1, <1>7 DEF SkipWindow, At, Locals
  <2> HIDE DEF new
  <2>3. run'[r] = new /\ M(r) \in Mappings
    BY <1>1, <2>1, <2>2, FirstMapping DEF Set, TypeOK, Turn
  <2>4. Matching(Head(now.pending), Articles) \subseteq persisted[M(r)]
    BY <2>2, <2>3 DEF SoundInv, WindowsHaveNoGap, Succeeded, Done, CursorAt, NewCursor
  <2>5. ASSUME NEW a \in Articles, Ahead(r, a)
        PROVE  a \in persisted'[M(r)] \/ Ahead(r, a)'
    <3>1. PICK i \in DOMAIN now.pending : a \in Matching(now.pending[i], Articles)
      BY <2>2, <2>5 DEF Ahead, Querying
    <3>2. CASE i = 1
      BY <1>2, <2>2, <2>4, <3>1, <3>2, TailFacts
    <3>3. CASE i # 1
      <4>1. i - 1 \in DOMAIN Tail(now.pending) /\ Tail(now.pending)[i - 1] = now.pending[i]
        BY <2>2, <3>1, <3>3, TailFacts
      <4>2. run'[r].pending = Tail(now.pending)
        BY <2>1, <2>3
      <4>3. i - 1 \in DOMAIN run'[r].pending /\ a \in Matching(run'[r].pending[i - 1], Articles)
        BY <3>1, <4>1, <4>2
      <4>4. QED
        BY <4>3 DEF Ahead
    <3>4. QED
      BY <3>2, <3>3
  <2>6. InMapping(r) /\ (~ new.errors /\ ~ new.safety => Clean(r))
    BY <2>1, <2>2 DEF InMapping, Clean
  <2>7. QED
    BY <2>1, <2>5, <2>6, WindowHonest
<1>8. ASSUME Send(r) PROVE HonestInv'
  <2> DEFINE new == [now EXCEPT !.pc = "waiting", !.start = Saved(r).next, !.requests = @ + 1]
  <2>1. Set(r, new) /\ UNCHANGED verdict /\ Querying(now)
    BY <1>8 DEF Send, At, Querying
  <2>2. /\ new.pc = "waiting" /\ new.range = now.range /\ new.todo = now.todo
        /\ new.errors = now.errors /\ new.safety = now.safety
        /\ new.pending = now.pending /\ new.target = now.target
    BY <1>1 DEF Locals
  <2> HIDE DEF new
  <2>3. new.pc = "waiting"
    BY <1>8, <2>2 DEF Send, At
  <2>4. QED
    BY <2>1, <2>2, <2>3, SameTarget DEF Querying
<1>9. ASSUME Retry(r) PROVE HonestInv'
  <2> DEFINE new == [now EXCEPT !.requests = @ + 1]
  <2>1. Set(r, new) /\ UNCHANGED verdict /\ Querying(now)
    BY <1>9 DEF Retry, At, Querying
  <2>2. /\ new.pc = now.pc /\ new.range = now.range /\ new.todo = now.todo
        /\ new.errors = now.errors /\ new.safety = now.safety
        /\ new.pending = now.pending /\ new.target = now.target
    BY <1>1 DEF Locals
  <2> HIDE DEF new
  <2>3. new.pc = "waiting"
    BY <1>9, <2>2 DEF Retry, At
  <2>4. QED
    BY <2>1, <2>2, <2>3, SameTarget DEF Querying
<1>10. ASSUME FinishRun(r) PROVE HonestInv'
  <2> DEFINE new == [Idle EXCEPT !.pc = "rebuild"]
  <2>1. Set(r, new) /\ new.pc = "rebuild" /\ now.pc = "finish"
        /\ verdict' = [verdict EXCEPT ![r].status = terminal_status(now)]
    BY <1>10 DEF FinishRun, Idle, At
  <2> HIDE DEF new
  <2>2. /\ run'[r] = new /\ \A s \in Runs : s # r => verdict'[s] = verdict[s]
        /\ verdict'[r].range = verdict[r].range /\ verdict'[r].mappings = verdict[r].mappings
        /\ verdict'[r].status = terminal_status(now)
    BY <1>1, <2>1 DEF Set, TypeOK
  <2>3. Progress(r)'
    BY <2>1, <2>2 DEF Progress, Collecting
  <2>4. terminal_status(now) = "succeeded" => Clean(r)
    BY DEF terminal_status, Clean
  <2>5. Honest(r)'
    BY <1>1, <1>2, <2>1, <2>2, <2>4 DEF Honest, Progress, Collecting, Collected
  <2>6. QED
    BY <2>1, <2>2, <2>3, <2>5, OthersHonest
<1>11. QED
  BY <1>3, <1>4, <1>5, <1>6, <1>7, <1>8, <1>9, <1>10 DEF RunLoops

(* A window that succeeds is not ahead any more: it is in Silver.          *)
LEMMA TargetDone ==
  ASSUME TypeInv, HonestInv, SilverGrows, WindowsHaveNoGap', NEW r \in Runs,
         UNCHANGED verdict, Querying(run[r]), NEW next, Save(r, "succeeded", next),
         Set(r, Back([run[r] EXCEPT !.succeeded = TRUE]))
  PROVE  HonestInv'
<1> DEFINE done == [run[r] EXCEPT !.succeeded = TRUE]
           new == Back(done)
           row == [status |-> "succeeded", next |-> next]
<1>1. M(r) \in Mappings /\ run[r] \in Locals
  BY QueryFacts
<1>2. /\ new.pc = "window" /\ new.range = run[r].range /\ new.todo = run[r].todo
      /\ new.errors = run[r].errors /\ new.safety = run[r].safety
      /\ new.pending = run[r].pending
  BY <1>1 DEF Locals, Back
<1>3. cursor' = PutCursor(M(r), run[r].target, row) /\ row.status = "succeeded"
  BY DEF Save
<1>4. Set(r, new)
  OBVIOUS
<1> HIDE DEF done, new, row
<1>5. run'[r] = new
  BY <1>4 DEF Set, TypeInv, TypeOK
<1>6. Found(r) \subseteq persisted'[M(r)]
  <2>1. run[r].target \in DOMAIN cursor'[M(r)] /\ cursor'[M(r)][run[r].target] = row
    BY <1>1, <1>3, PutFacts DEF TypeInv, TypeOK
  <2>2. QED
    BY <1>1, <1>3, <2>1 DEF WindowsHaveNoGap, Succeeded, Found
<1>7. \A a \in Articles : Ahead(r, a) => a \in persisted'[M(r)] \/ Ahead(r, a)'
  BY <1>2, <1>5, <1>6 DEF Ahead
<1>8. InMapping(r) /\ (~ new.errors /\ ~ new.safety => Clean(r))
      /\ new.pc \in {"window", "page", "waiting"}
  BY <1>2 DEF InMapping, Clean, Querying
<1>9. QED
  BY <1>2, <1>4, <1>7, <1>8, WindowHonest

LEMMA PauseHonest ==
  ASSUME TypeInv, HonestInv, SilverGrows, NEW r \in Runs, Pause(r), UNCHANGED verdict
  PROVE  HonestInv'
<1> DEFINE new == Back([run[r] EXCEPT !.safety = TRUE])
<1>1. new.safety
  BY DEF Back, TypeInv, TypeOK, Locals
<1>2. Set(r, new)
  BY DEF Pause
<1> HIDE DEF new
<1>3. QED
  BY <1>1, <1>2, StopHonest

(* A window that is split is ahead in its halves.                          *)
LEMMA SplitHonest ==
  ASSUME TypeInv, HonestInv, SilverGrows, NEW r \in Runs, UNCHANGED verdict,
         Querying(run[r]), split_window(run[r].target) # <<>>,
         Set(r, Back([run[r] EXCEPT !.pending = queue(split_window(run[r].target), @)]))
  PROVE  HonestInv'
<1> DEFINE now == run[r]
           halves == split_window(now.target)
           more == [now EXCEPT !.pending = queue(halves, @)]
           new == Back(more)
<1>1. now \in Locals /\ now.target \in Bounds
  BY QueryFacts
<1>2. /\ new.pc = "window" /\ new.range = now.range /\ new.todo = now.todo
      /\ new.errors = now.errors /\ new.safety = now.safety
      /\ new.pending = halves \o now.pending
  BY <1>1 DEF Locals, Back, queue
<1>3. Set(r, new)
  OBVIOUS
<1>4. halves \in Seq(Bounds) /\ now.pending \in Seq(Bounds)
  BY <1>1, HalvesTyped DEF Locals
<1> HIDE DEF halves, more, new
<1>5. run'[r] = new
  BY <1>3 DEF Set, TypeInv, TypeOK
<1>6. ASSUME NEW a \in Articles, Ahead(r, a) PROVE Ahead(r, a)'
  <2>1. \E i \in DOMAIN (halves \o now.pending) :
          a \in Matching((halves \o now.pending)[i], Articles)
    <3>1. CASE a \in Found(r)
      <4>1. PICK i \in DOMAIN halves : a \in Matching(halves[i], Articles)
        BY <1>1, <3>1, HalvesCover DEF Found, halves
      <4>2. i \in DOMAIN (halves \o now.pending) /\ (halves \o now.pending)[i] = halves[i]
        BY <1>4
      <4>3. QED
        BY <4>1, <4>2
    <3>2. CASE a \notin Found(r)
      <4>1. PICK i \in DOMAIN now.pending : a \in Matching(now.pending[i], Articles)
        BY <1>6, <3>2 DEF Ahead
      <4>2. /\ Len(halves) + i \in DOMAIN (halves \o now.pending)
            /\ (halves \o now.pending)[Len(halves) + i] = now.pending[i]
        BY <1>4
      <4>3. QED
        BY <4>1, <4>2
    <3>3. QED
      BY <3>1, <3>2
  <2>2. QED
    BY <1>2, <1>5, <2>1 DEF Ahead
<1>7. InMapping(r) /\ (~ new.errors /\ ~ new.safety => Clean(r))
      /\ new.pc \in {"window", "page", "waiting"}
  BY <1>2 DEF InMapping, Clean, Querying
<1>8. QED
  BY <1>2, <1>3, <1>6, <1>7, WindowHonest

LEMMA OpenHonest ==
  ASSUME TypeInv, HonestInv, SilverGrows, NEW r \in Runs, OpenWindow(r)
  PROVE  HonestInv'
<1> DEFINE now == run[r]
           w == Head(now.pending)
           new == [now EXCEPT !.pc = "page", !.pending = Tail(@), !.target = w]
<1>1. now \in Locals /\ now.pc = "window" /\ now.pending # <<>> /\ UNCHANGED verdict
  BY DEF OpenWindow, At, TypeInv, TypeOK
<1>2. /\ new.pc = "page" /\ new.range = now.range /\ new.todo = now.todo
      /\ new.errors = now.errors /\ new.safety = now.safety
      /\ new.pending = Tail(now.pending) /\ new.target = w
  BY <1>1 DEF Locals
<1>3. Set(r, new)
  BY DEF OpenWindow
<1>4. now.pending \in Seq(Bounds)
  BY <1>1 DEF Locals
<1> HIDE DEF new
<1>5. run'[r] = new
  BY <1>3 DEF Set, TypeInv, TypeOK
<1>6. ASSUME NEW a \in Articles, Ahead(r, a) PROVE Ahead(r, a)'
  <2>1. PICK i \in DOMAIN now.pending : a \in Matching(now.pending[i], Articles)
    BY <1>1, <1>6 DEF Ahead, Querying
  <2>2. CASE i = 1
    <3>1. a \in Matching(w, Articles)
      BY <1>1, <1>4, <2>1, <2>2, TailFacts
    <3>2. QED
      BY <1>2, <1>5, <3>1 DEF Ahead, Found, Querying
  <2>3. CASE i # 1
    <3>1. i - 1 \in DOMAIN Tail(now.pending) /\ Tail(now.pending)[i - 1] = now.pending[i]
      BY <1>1, <1>4, <2>1, <2>3, TailFacts
    <3>2. i - 1 \in DOMAIN run'[r].pending /\ a \in Matching(run'[r].pending[i - 1], Articles)
      BY <1>2, <1>5, <2>1, <3>1
    <3>3. QED
      BY <3>2 DEF Ahead
  <2>4. QED
    BY <2>2, <2>3
<1>7. InMapping(r) /\ (~ new.errors /\ ~ new.safety => Clean(r))
  BY <1>1, <1>2 DEF InMapping, Clean
<1>8. QED
  BY <1>1, <1>2, <1>3, <1>6, <1>7, WindowHonest

LEMMA QueryHonest ==
  ASSUME TypeInv, SoundInv, HonestInv, SilverGrows, WindowsHaveNoGap',
         NEW r \in Runs, RunQueries(r)
  PROVE  HonestInv'
<1> DEFINE now == run[r]
<1>1. now \in Locals
  BY DEF TypeInv, TypeOK
<1>2. UNCHANGED verdict
  BY DEF RunQueries, OpenWindow, LimitReached, SplitWindow, ReceivePage, ReceiveEmpty,
         RequestFails, ParseFails, Forbidden
<1>3. ASSUME OpenWindow(r) PROVE HonestInv'
  BY <1>3, OpenHonest
<1>4. ASSUME LimitReached(r) PROVE HonestInv'
  BY <1>2, <1>4, PauseHonest DEF LimitReached
<1>5. ASSUME SplitWindow(r) PROVE HonestInv'
  <2>1. Querying(now)
    BY <1>5 DEF SplitWindow, At, Querying
  <2>2. \/ Pause(r)
        \/ /\ split_window(now.target) # <<>>
           /\ Set(r, Back([now EXCEPT !.pending = queue(split_window(now.target), @)]))
    BY <1>5 DEF SplitWindow
  <2>3. QED
    BY <1>2, <2>1, <2>2, PauseHonest, SplitHonest
<1>6. ASSUME ReceivePage(r) PROVE HonestInv'
  <2> DEFINE on == [now EXCEPT !.pc = "page"]
  <2>1. Querying(now)
    BY <1>6 DEF ReceivePage, At, Querying
  <2>2. (\E next : Save(r, "succeeded", next) /\ Set(r, Back([now EXCEPT !.succeeded = TRUE])))
        \/ Set(r, on)
    BY <1>6 DEF ReceivePage
  <2>3. /\ on.pc = "page" /\ on.range = now.range /\ on.todo = now.todo
        /\ on.errors = now.errors /\ on.safety = now.safety
        /\ on.pending = now.pending /\ on.target = now.target
    BY <1>1 DEF Locals
  <2> HIDE DEF on
  <2>4. CASE Set(r, on)
    BY <1>2, <2>1, <2>3, <2>4, SameTarget DEF Querying
  <2>5. QED
    BY <1>2, <2>1, <2>2, <2>4, TargetDone
<1>7. ASSUME ReceiveEmpty(r) PROVE HonestInv'
  <2>1. Querying(now)
    BY <1>7 DEF ReceiveEmpty, At, Querying
  <2>2. (\E next : Save(r, "succeeded", next) /\ Set(r, Back([now EXCEPT !.succeeded = TRUE])))
        \/ Pause(r)
    BY <1>7 DEF ReceiveEmpty
  <2>3. QED
    BY <1>2, <2>1, <2>2, TargetDone, PauseHonest
<1>8. ASSUME RequestFails(r) \/ ParseFails(r) PROVE HonestInv'
  <2> DEFINE new == Back([now EXCEPT !.errors = TRUE])
  <2>1. Set(r, new)
    BY <1>8 DEF RequestFails, ParseFails
  <2>2. new.errors
    BY <1>1 DEF Back, Locals
  <2> HIDE DEF new
  <2>3. QED
    BY <1>2, <2>1, <2>2, StopHonest
<1>9. ASSUME Forbidden(r) PROVE HonestInv'
  <2> DEFINE new == [Back(now) EXCEPT !.pc = "finish", !.errors = TRUE]
  <2>1. Set(r, new)
    BY <1>9 DEF Forbidden
  <2>2. new.errors
    BY <1>1 DEF Back, Locals
  <2> HIDE DEF new
  <2>3. QED
    BY <1>2, <2>1, <2>2, StopHonest
<1>10. QED
  BY <1>3, <1>4, <1>5, <1>6, <1>7, <1>8, <1>9 DEF RunQueries

LEMMA HonestInit == LedgerInit => HonestInv
  BY DEF LedgerInit, Init, HonestInv, Progress, Honest, Collecting, Idle, NoVerdict

LEMMA HonestStep ==
  ASSUME TypeInv, SoundInv, HonestInv, [LedgerNext]_allVars
  PROVE  HonestInv'
<1>1. SoundInv' /\ SilverGrows
  BY SoundStep
<1>2. CASE UNCHANGED <<persisted, run, verdict>>
  BY <1>2 DEF HonestInv, Progress, Honest, Collecting, InMapping, Clean, Collected, Ahead,
              Found, M
<1>3. ASSUME NEW r \in Runs,
             StartRebuild(r) \/ Derive(r) \/ CommitCoverage(r) \/ CrashLedger(r)
      PROVE  HonestInv'
  <2>1. \/ Set(r, [Idle EXCEPT !.pc = "rebuild"])
        \/ Set(r, [Idle EXCEPT !.pc = "commit"])
        \/ Set(r, Idle)
    BY <1>3 DEF StartRebuild, Derive, CommitCoverage, CrashLedger, Crash
  <2>2. UNCHANGED verdict
    BY <1>3 DEF StartRebuild, Derive, CommitCoverage, CrashLedger, Crash
  <2>3. /\ [Idle EXCEPT !.pc = "rebuild"].pc = "rebuild" /\ Idle.pc = "idle"
        /\ [Idle EXCEPT !.pc = "commit"].pc = "commit"
    BY DEF Idle
  <2>4. QED
    BY <1>1, <2>1, <2>2, <2>3, OutsideHonest
<1>4. ASSUME NEW m \in Mappings, Sync(m) PROVE HonestInv'
  BY <1>2, <1>4 DEF Sync
<1>5. CASE UNCHANGED allVars
  BY <1>2, <1>5 DEF allVars, vars
<1>6. ASSUME NEW r \in Runs, RunLoops(r) PROVE HonestInv'
  BY <1>1, <1>6, LoopHonest
<1>7. ASSUME NEW r \in Runs, RunQueries(r) PROVE HonestInv'
  BY <1>1, <1>7, QueryHonest DEF SoundInv
<1>8. CASE LedgerNext
  BY <1>3, <1>4, <1>6, <1>7, <1>8, StepKinds, Zenon
<1>9. QED
  BY <1>5, <1>8

(* A backfill that reports success has collected its range for each of its *)
(* mappings, for any number of processes that share the cursors.           *)
THEOREM BackfillsAreHonest == Spec => []HonestBackfill
<1>1. HonestInv => HonestBackfill
  BY DEF HonestInv, Honest, HonestBackfill
<1>2. QED
  BY <1>1, TypeInit, TypeStep, SoundInit, SoundStep, HonestInit, HonestStep, PTL DEF Spec

-----------------------------------------------------------------------------
(* What the ledger claims                                                  *)

(* The cursors of a mapping whose windows leave no gap reach every article *)
(* of their hull: an article between two windows would show a gap, at the  *)
(* first window that starts after it.                                      *)
LEMMA NoGapNoLoss ==
  ASSUME NEW S, IsFiniteSet(S), S \subseteq Bounds, S # {}, cursor_gaps(S) = {},
         NEW a \in Matching(Hull(S), Articles)
  PROVE  \E w \in S : a \in Matching(w, Articles)
<1> DEFINE t == Submitted[a]
           froms == {w.from : w \in S}
           later == {f \in froms : t < Written(f)}
<1>1. froms \subseteq Int /\ IsFiniteSet(froms)
  BY EndsFinite
<1>2. PICK first \in S : first.from = Hull(S).from
  BY HullFacts
<1>3. PICK final \in S : final.until = Hull(S).until
  BY HullFacts
<1>4. /\ a \in Articles /\ t \in Int
      /\ Written(first.from) <= t /\ t <= Written(final.until)
  BY <1>2, <1>3, ArticleAssumption DEF Matching
<1>5. \A w \in S : /\ w.from \in Int /\ w.until \in Int
                   /\ Written(w.from) \in Int /\ Written(w.until) \in Int
  BY WrittenGrows DEF Bounds
<1> HIDE DEF t
<1>6. SUFFICES ASSUME \A w \in S : t < Written(w.from) \/ Written(w.until) < t
               PROVE  FALSE
  BY <1>4, <1>5 DEF Matching, t
<1>7. later \subseteq Int /\ IsFiniteSet(later) /\ later # {}
  <2>1. final.from \in later
    BY <1>3, <1>4, <1>5, <1>6
  <2>2. QED
    BY <1>1, <2>1, FS_Subset
<1>8. Min(later) \in later /\ \A f \in later : Min(later) <= f
  <2> HIDE DEF later
  <2> QED
    BY <1>7, LeastInteger
<1> DEFINE gap == Min(later)
<1>9. gap \in Int /\ gap \in froms /\ t < Written(gap) /\ \A f \in later : gap <= f
  BY <1>1, <1>8
<1> HIDE DEF gap
<1>10. Written(gap) \in Int
  BY <1>9, WrittenGrows
<1>11. first.from < gap
  <2>1. ~ (gap <= first.from)
    BY <1>4, <1>5, <1>9, <1>10, WrittenGrows
  <2>2. QED
    BY <1>5, <1>9, <2>1
<1>12. ASSUME NEW w \in S, w.from < gap PROVE w.until < gap
  <2>1. w.from \notin later
    BY <1>5, <1>9, <1>12
  <2>2. Written(w.until) < t
    BY <1>4, <1>5, <1>6, <2>1
  <2>3. ~ (gap <= w.until)
    BY <1>4, <1>5, <1>9, <1>10, <2>2, WrittenGrows
  <2>4. QED
    BY <1>5, <1>9, <2>3
<1>13. gap \in cursor_gaps(S)
  BY <1>9, <1>11, <1>12 DEF cursor_gaps
<1>14. QED
  BY <1>13

Claim(row, m) ==
  row.status \in {"complete", "empty"} =>
    /\ Matching(row.target, Articles) \subseteq persisted[m]
    /\ row.status = "empty" => Matching(row.target, Articles) = {}

ClaimInv ==
  /\ \A m \in Mappings : Claim(coverage[m], m)
  /\ \A r \in Runs : /\ draft[r] = NoDraft \/ draft[r].known = coverage
                     /\ \A m \in Mappings : Claim(draft[r].derived[m], m)

LEMMA NoRowClaims ==
  ASSUME NEW m
  PROVE  Claim(NoRow, m) /\ Claim(NoRow, m)'
  BY DEF Claim, NoRow

LEMMA DerivedClaims ==
  ASSUME TypeInv, SoundInv, NEW m \in Mappings
  PROVE  Claim(derive_arxiv(m), m)
<1> DEFINE S == DOMAIN cursor[m]
           row == derive_arxiv(m)
<1>1. IsFiniteSet(S) /\ S \subseteq Bounds
  BY DEF TypeInv, TypeOK
<1>2. row.status = coverage_status(m) /\ row.target = Hull(S)
  BY DEF derive_arxiv
<1>3. ASSUME coverage_status(m) \in {"complete", "empty"}
      PROVE  /\ S # {} /\ unresolved(m) = {} /\ cursor_gaps(S) = {}
             /\ coverage_status(m) = "empty" => persisted[m] = {}
  BY <1>3 DEF coverage_status
<1>4. ASSUME coverage_status(m) \in {"complete", "empty"}
      PROVE  Matching(Hull(S), Articles) \subseteq persisted[m]
  <2>1. \A w \in S : Matching(w, Articles) \subseteq persisted[m]
    BY <1>3, <1>4 DEF unresolved, SoundInv, WindowsHaveNoGap
  <2> HIDE DEF S
  <2>2. QED
    BY <1>1, <1>3, <1>4, <2>1, NoGapNoLoss
<1> HIDE DEF row
<1>5. QED
  BY <1>2, <1>3, <1>4 DEF Claim, row

LEMMA ClaimsGrow ==
  ASSUME SilverGrows, NEW row, NEW m \in Mappings, Claim(row, m)
  PROVE  Claim(row, m)'
  BY DEF SilverGrows, Claim

(* The row a rebuild commits is the one it derived, when no other rebuild  *)
(* has committed since it read the ledger.                                 *)
LEMMA MergedClaims ==
  ASSUME TypeInv, ClaimInv, NEW r \in Runs, NEW m \in Mappings
  PROVE  Claim(Merged(r, m), m)
<1> DEFINE known == draft[r].known[m]
           derived == draft[r].derived[m]
<1>1. /\ draft[r] = NoDraft \/ known = coverage[m]
      /\ derived \in Row \cup {NoRow} /\ Claim(derived, m) /\ Claim(coverage[m], m)
  BY DEF TypeInv, TypeOK, ClaimInv
<1>2. draft[r] = NoDraft => known = NoRow /\ derived = NoRow
  BY DEF NoDraft
<1>3. CASE derived = NoRow
  BY <1>1, <1>3, NoRowClaims DEF Merged
<1>4. CASE derived # NoRow
  <2>1. known = coverage[m] /\ derived \in Row
    BY <1>1, <1>2, <1>4
  <2>2. Merged(r, m) = [column \in DOMAIN derived |->
          IF derived[column] # known[column] THEN derived[column] ELSE coverage[m][column]]
    BY <1>4 DEF Merged
  <2> HIDE DEF known, derived
  <2>3. "status" \in DOMAIN derived /\ "target" \in DOMAIN derived
    BY <2>1 DEF Row
  <2>4. Merged(r, m).status = derived.status /\ Merged(r, m).target = derived.target
    BY <2>1, <2>2, <2>3
  <2>5. QED
    BY <1>1, <2>4 DEF Claim
<1>5. QED
  BY <1>3, <1>4

OneProcess == \A p, q \in Runs : p = q

LEMMA ClaimInit == LedgerInit => ClaimInv
  BY NoRowClaims DEF LedgerInit, ClaimInv, NoDraft

LEMMA ClaimStep ==
  ASSUME OneProcess, TypeInv, SoundInv, ClaimInv, [LedgerNext]_allVars
  PROVE  ClaimInv'
<1>1. SilverGrows
  BY SoundStep
<1>3. CASE UNCHANGED ledgerVars
  <2>1. coverage' = coverage /\ draft' = draft
    BY <1>3 DEF ledgerVars
  <2>2. \A m \in Mappings : Claim(coverage[m], m)'
    BY <1>1, <2>1 DEF ClaimInv, Claim, SilverGrows
  <2>3. \A r \in Runs : \A m \in Mappings : Claim(draft[r].derived[m], m)'
    BY <1>1, <2>1 DEF ClaimInv, Claim, SilverGrows
  <2>4. QED
    BY <2>1, <2>2, <2>3 DEF ClaimInv
<1>4. ASSUME NEW r \in Runs, draft' = [draft EXCEPT ![r] = NoDraft],
             \A m \in Mappings : Claim(coverage[m], m)'
      PROVE  ClaimInv'
  <2>1. draft'[r] = NoDraft /\ \A s \in Runs : s = r
    BY <1>4 DEF OneProcess, TypeInv, TypeOK
  <2>2. \A m \in Mappings : NoDraft.derived[m] = NoRow
    BY DEF NoDraft
  <2>3. \A s \in Runs : \A m \in Mappings : Claim(draft[s].derived[m], m)'
    BY <2>1, <2>2 DEF Claim, NoRow
  <2>4. QED
    BY <1>4, <2>1, <2>3 DEF ClaimInv
<1>5. ASSUME NEW r \in Runs, CrashLedger(r) PROVE ClaimInv'
  <2>1. \A m \in Mappings : Claim(coverage[m], m)'
    BY <1>1, <1>5 DEF CrashLedger, ClaimInv, Claim, SilverGrows
  <2>2. QED
    BY <1>4, <1>5, <2>1 DEF CrashLedger
<1>6. ASSUME NEW r \in Runs, CommitCoverage(r) PROVE ClaimInv'
  <2>1. persisted' = persisted /\ draft' = [draft EXCEPT ![r] = NoDraft]
        /\ coverage' = IF \E m \in Mappings : Conflict(r, m) THEN coverage
                       ELSE [m \in Mappings |-> Merged(r, m)]
    BY <1>6 DEF CommitCoverage
  <2>2. ASSUME NEW m \in Mappings PROVE Claim(coverage[m], m)'
    <3>1. coverage'[m] = coverage[m] \/ coverage'[m] = Merged(r, m)
      BY <2>1
    <3>2. Claim(coverage'[m], m)
      BY <3>1, MergedClaims DEF ClaimInv
    <3>3. QED
      BY <2>1, <3>2 DEF Claim
  <2>3. QED
    BY <1>4, <2>1, <2>2
<1>7. ASSUME NEW r \in Runs, Derive(r) PROVE ClaimInv'
  <2> DEFINE rows == [m \in Mappings |-> IF m \in enabled THEN derive_arxiv(m) ELSE NoRow]
             new == [known |-> coverage, derived |-> rows]
  <2>1. persisted' = persisted /\ coverage' = coverage /\ draft' = [draft EXCEPT ![r] = new]
    BY <1>7 DEF Derive
  <2>2. \A m \in Mappings : Claim(rows[m], m)
    BY DerivedClaims, NoRowClaims
  <2>3. new.known = coverage /\ new.derived = rows
    OBVIOUS
  <2> HIDE DEF rows, new
  <2>4. draft'[r] = new /\ \A s \in Runs : s = r
    BY <2>1 DEF OneProcess, TypeInv, TypeOK
  <2>5. \A s \in Runs : \A m \in Mappings : Claim(draft[s].derived[m], m)'
    BY <2>1, <2>2, <2>3, <2>4 DEF Claim
  <2>6. \A m \in Mappings : Claim(coverage[m], m)'
    BY <2>1 DEF ClaimInv, Claim
  <2>7. QED
    BY <2>1, <2>3, <2>4, <2>5, <2>6 DEF ClaimInv
<1>8. CASE UNCHANGED allVars
  BY <1>3, <1>8 DEF allVars
<1>9. CASE LedgerNext
  <2>1. ASSUME NEW r \in Runs, StartRebuild(r) PROVE ClaimInv'
    BY <1>3, <2>1 DEF StartRebuild, ledgerVars
  <2>2. QED
    BY <1>3, <1>5, <1>6, <1>7, <1>9, <2>1, StepKinds, Zenon
<1>10. QED
  BY <1>8, <1>9

(* With one process, the ledger calls a target complete or empty only when *)
(* nothing of it is missing, whichever ranges were asked for.              *)
THEOREM ClaimsHold == ASSUME OneProcess PROVE Spec => []ClaimsAreHonest
<1>1. ClaimInv => ClaimsAreHonest
  BY DEF ClaimInv, Claim, ClaimsAreHonest
<1>2. TypeInv /\ SoundInv /\ ClaimInv /\ [LedgerNext]_allVars => ClaimInv'
  BY ClaimStep
<1>3. QED
  BY <1>1, <1>2, TypeInit, TypeStep, SoundInit, SoundStep, ClaimInit, PTL DEF Spec
=============================================================================
