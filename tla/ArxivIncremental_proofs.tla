---------------------- MODULE ArxivIncremental_proofs ----------------------
(***************************************************************************)
(* Proofs about ArxivIncremental for one collecting process (two of them   *)
(* can move each other's cursors): what its locals say of the cursors,     *)
(* that partitions lose no instant and finished children stay done, that   *)
(* verdicts are honest, and that no article is ever skipped.               *)
(***************************************************************************)
EXTENDS ArxivIncremental, FiniteSetTheorems, SequenceTheorems, TLAPS

OneProcess == \A p, q \in Runs : p = q

(* No answer has fewer entries than it announces.                           *)
HonestPages == "short_page" \notin Faults

-----------------------------------------------------------------------------
(* ArxivWindow: dates cut to the minute, positions in a result, and the    *)
(* halves of a window.                                                      *)

(* Cutting dates to the minute keeps their order.                           *)
LEMMA WrittenGrows ==
  ASSUME NEW s \in Int, NEW t \in Int
  PROVE  /\ Written(t) \in Int /\ Written(t) <= t
         /\ s <= t => Written(s) <= Written(t)
  BY SettingsAssumption DEF Written

LEMMA MatchingSubset ==
  ASSUME NEW w
  PROVE  Matching(w, Articles) \in SUBSET Articles
  BY DEF Matching

(* An article's position in a result is below the number of results.       *)
LEMMA PositionBound ==
  ASSUME NEW F \in SUBSET Articles
  PROVE  /\ Cardinality(F) \in Nat
         /\ \A a \in F : Position(a, F) \in Nat /\ Position(a, F) < Cardinality(F)
<1>1. IsFiniteSet(F) /\ Cardinality(F) \in Nat
  BY ArticleAssumption, FS_Subset, FS_CardinalityType
<1>2. ASSUME NEW a \in F
      PROVE  Position(a, F) \in Nat /\ Position(a, F) < Cardinality(F)
  <2> DEFINE before == {b \in F : Submitted[b] < Submitted[a]}
  <2>1. before \in SUBSET F /\ a \notin before
    BY ArticleAssumption
  <2>2. IsFiniteSet(before) /\ Cardinality(before) \in Nat
        /\ Cardinality(before) <= Cardinality(F)
        /\ Cardinality(before) # Cardinality(F)
    <3> HIDE DEF before
    <3> QED
      BY <1>1, <2>1, FS_Subset, FS_CardinalityType
  <2> HIDE DEF before
  <2>3. QED
    BY <1>1, <2>2 DEF Position, before
<1>3. QED
  BY <1>1, <1>2

(* An article that appears in a result only pushes the others back.         *)
LEMMA PositionGrows ==
  ASSUME NEW F \in SUBSET Articles, NEW G \in SUBSET Articles, F \subseteq G, NEW a
  PROVE  /\ Position(a, F) \in Nat /\ Position(a, G) \in Nat
         /\ Position(a, F) <= Position(a, G)
<1> DEFINE before(S) == {b \in S : Submitted[b] < Submitted[a]}
<1>1. before(F) \subseteq before(G) /\ before(G) \subseteq Articles
  OBVIOUS
<1>2. IsFiniteSet(before(G)) /\ IsFiniteSet(before(F))
  BY <1>1, ArticleAssumption, FS_Subset
<1> HIDE DEF before
<1>3. /\ Cardinality(before(F)) <= Cardinality(before(G))
      /\ Cardinality(before(F)) \in Nat /\ Cardinality(before(G)) \in Nat
  BY <1>1, <1>2, FS_Subset, FS_CardinalityType
<1>4. QED
  BY <1>3 DEF Position, before

-----------------------------------------------------------------------------
(* Halves *)

(* The halves of a window are windows of their own.                         *)
LEMMA HalvesTyped ==
  ASSUME NEW w \in [from : Int, until : Int]
  PROVE  split_window(w) \in Seq([from : Int, until : Int])
<1> DEFINE middle == w.from + (w.until - w.from) \div 2
           first == [from |-> w.from, until |-> middle]
           second == [from |-> middle, until |-> w.until]
<1>1. middle \in Int
  OBVIOUS
<1>2. first \in [from : Int, until : Int] /\ second \in [from : Int, until : Int]
  BY <1>1
<1>3. split_window(w) = <<>> \/ split_window(w) = <<first, second>>
  BY DEF split_window
<1> HIDE DEF first, second
<1>4. <<first, second>> \in Seq([from : Int, until : Int]) /\ <<>> \in Seq([from : Int, until : Int])
  BY <1>2
<1>5. QED
  BY <1>3, <1>4

(* They are shorter than the window and lie inside it.                      *)
LEMMA HalvesInside ==
  ASSUME NEW w \in [from : Int, until : Int], split_window(w) # <<>>
  PROVE  \A i \in DOMAIN split_window(w) :
           LET half == split_window(w)[i] IN
           /\ half \in [from : Int, until : Int]
           /\ w.from <= half.from /\ half.from < half.until /\ half.until <= w.until
           /\ w.from < half.from \/ half.until < w.until
<1> DEFINE middle == w.from + (w.until - w.from) \div 2
           first == [from |-> w.from, until |-> middle]
           second == [from |-> middle, until |-> w.until]
<1>1. middle \in Int
  OBVIOUS
<1>2. split_window(w) = <<first, second>>
      /\ ~(middle - w.from < MinPartition \/ w.until - middle < MinPartition)
  BY DEF split_window
<1> HIDE DEF middle
<1>3. w.from < middle /\ middle < w.until
  BY <1>1, <1>2, SettingsAssumption
<1>4. QED
  BY <1>1, <1>2, <1>3

(* Nothing that matches the window is lost between them: both ends count.   *)
LEMMA HalvesCover ==
  ASSUME NEW w \in [from : Int, until : Int], split_window(w) # <<>>,
         NEW a \in Matching(w, Articles)
  PROVE  \E i \in DOMAIN split_window(w) : a \in Matching(split_window(w)[i], Articles)
<1> DEFINE middle == w.from + (w.until - w.from) \div 2
           first == [from |-> w.from, until |-> middle]
           second == [from |-> middle, until |-> w.until]
<1>1. middle \in Int
  OBVIOUS
<1>2. Written(middle) \in Int
  BY <1>1, WrittenGrows
<1>3. split_window(w) = <<first, second>>
  BY DEF split_window
<1>4. /\ a \in Articles /\ Submitted[a] \in Int
      /\ Written(w.from) <= Submitted[a] /\ Submitted[a] <= Written(w.until)
  BY ArticleAssumption DEF Matching
<1> HIDE DEF middle
<1>5. CASE Submitted[a] <= Written(middle)
  <2>1. a \in Matching(first, Articles)
    BY <1>4, <1>5 DEF Matching
  <2>2. QED
    BY <1>3, <2>1
<1>6. CASE Written(middle) <= Submitted[a]
  <2>1. a \in Matching(second, Articles)
    BY <1>4, <1>6 DEF Matching
  <2>2. QED
    BY <1>3, <2>1
<1>7. QED
  BY <1>2, <1>4, <1>5, <1>6

(* Every instant of the window lies in one of them.                         *)
LEMMA HalvesSpan ==
  ASSUME NEW w \in [from : Int, until : Int], split_window(w) # <<>>,
         NEW t \in w.from..w.until
  PROVE  \E i \in DOMAIN split_window(w) :
           t \in split_window(w)[i].from..split_window(w)[i].until
<1> DEFINE middle == w.from + (w.until - w.from) \div 2
           first == [from |-> w.from, until |-> middle]
           second == [from |-> middle, until |-> w.until]
<1>1. middle \in Int
  OBVIOUS
<1>2. split_window(w) = <<first, second>>
  BY DEF split_window
<1> HIDE DEF middle
<1>3. CASE t <= middle
  BY <1>1, <1>2, <1>3
<1>4. CASE middle <= t
  BY <1>1, <1>2, <1>4
<1>5. QED
  BY <1>1, <1>3, <1>4

-----------------------------------------------------------------------------
(* The invariants *)

Typed ==
  /\ clock \in 0..MaxClock
  /\ parent \in [Mappings -> Parent]
  /\ DOMAIN child = Mappings
  /\ \A m \in Mappings :
       /\ DOMAIN child[m] \subseteq Windows \X Windows
       /\ \A k \in DOMAIN child[m] : child[m][k] \in Child
  /\ persisted \in [Mappings -> SUBSET Articles]
  /\ origin \in [Mappings -> Ticks \cup {Never}]
  /\ run \in [Runs -> Locals]
  /\ verdict \in [Runs -> Verdicts]

Unfinished == {"running", "partial", "failed"}
Collecting == {"page", "waiting", "outcome"}

Inside(w, root) ==
  root.from <= w.from /\ w.until <= root.until /\ w # root

(* The parent cursor of a mapping: its window starts an overlap before the  *)
(* end of the last one that succeeded, its partition belongs to the window. *)
CursorInv(m) ==
  LET p == parent[m] IN
  /\ p.window = NoWindow => p.status = "pending" /\ p.until = Never /\ p.next = 0
  /\ p.window # NoWindow => p.status # "pending"
  /\ p.window.until \in 0..clock
  /\ p.until = Never \/ p.until \in 0..clock
  /\ p.status = "succeeded" => p.until = p.window.until
  /\ p.window # NoWindow /\ p.status # "succeeded" =>
       p.window.from = IF p.until = Never THEN origin[m] ELSE p.until - Overlap
  /\ p.partition.root # NoWindow =>
       /\ p.partition.root = p.window
       /\ \A i \in DOMAIN p.partition.pending : Inside(p.partition.pending[i], p.window)
  /\ \A k \in DOMAIN child[m] : k[1].until <= clock

(* The locals of a run that has a window in hand.                           *)
InHand(r) ==
  LET l == run[r] IN
  /\ l.pc = "outcome" =>
       /\ l.outcome # "none"
       /\ l.outcome = "split" => l.halves = split_window(l.target) /\ l.halves # <<>>
  /\ IF IsRoot(r) THEN parent[l.m].partition.root # l.root
     ELSE /\ l.pending # <<>> /\ l.target = Head(l.pending)
          /\ Key(r) \in DOMAIN child[l.m]
  /\ Status(r) = IF l.pc # "outcome" THEN "running"
                 ELSE IF l.outcome = "succeeded" THEN "succeeded" ELSE "partial"
  /\ l.pc = "waiting" => l.start = NextStart(r)

(* The locals of a run and the cursors of its mapping.                      *)
RunInv(r) ==
  LET l == run[r]
      p == parent[l.m] IN
  /\ l.pc # "idle" =>
       /\ l.now <= clock
       /\ \A m \in Mappings : parent[m].until <= l.now /\ parent[m].window.until <= l.now
  /\ l.pc \notin {"idle", "finish"} => l.m \in Mappings
  /\ l.pc \in {"child"} \cup Collecting => l.root = p.window /\ l.root # NoWindow
  /\ l.pc = "child" \/ (l.pc \in Collecting /\ ~IsRoot(r)) =>
       /\ p.status \in Unfinished
       /\ p.partition = [root |-> l.root, pending |-> l.pending]
  /\ l.pc \in Collecting => InHand(r)

ControlInv ==
  /\ Typed
  /\ \A m \in Mappings : CursorInv(m)
  /\ \A r \in Runs : RunInv(r)

(* The articles of a window that could be found by a tick.                  *)
Due(w, t) == {a \in Matching(w, Articles) : Visible[a] <= t}

(* The pages of a window before position n are in Silver, as far as their   *)
(* articles could be found by a tick.                                       *)
Held(m, w, t, n) ==
  \A a \in Due(w, t) : Position(a, Found(w)) < n => a \in persisted[m]

RootHeld(m) ==
  Held(m, parent[m].window, parent[m].window.until, parent[m].next)

ChildHeld(m, k) ==
  /\ Held(m, k[2], k[1].until, child[m][k].next)
  /\ child[m][k].status = "succeeded" => Due(k[2], k[1].until) \subseteq persisted[m]

(* What a partitioned window still lacks is in the queue.                   *)
QueueHolds(m) ==
  parent[m].partition.root # NoWindow =>
    \A a \in Due(parent[m].window, parent[m].window.until) \ persisted[m] :
      \E i \in DOMAIN parent[m].partition.pending :
        a \in Matching(parent[m].partition.pending[i], Articles)

(* NoGap, of one mapping.                                                   *)
NoGapAt(m) ==
  parent[m].until # Never =>
    \A a \in Articles :
      /\ Written(origin[m]) <= Submitted[a] /\ Submitted[a] <= Written(parent[m].until)
      /\ Visible[a] <= parent[m].until
      => a \in persisted[m]

DataInv(m) ==
  /\ RootHeld(m)
  /\ \A k \in DOMAIN child[m] : ChildHeld(m, k)
  /\ QueueHolds(m)
  /\ NoGapAt(m)

(* Every mapping a run has left behind without error or safety stop.        *)
HonestInv(r) ==
  LET l == run[r] IN
  /\ l.pc = "outcome" /\ l.outcome = "partial" => l.safety
  /\ l.pc # "idle" /\ ~l.errors /\ ~l.safety =>
       \A m \in Mappings : m < l.m \/ l.pc = "finish" => parent[m].status = "succeeded"

-----------------------------------------------------------------------------
(* What the invariants say of the values *)

LEMMA WindowFacts ==
  /\ Windows \subseteq [from : Int, until : Int]
  /\ NoWindow \notin Windows
  /\ \A w \in Windows : w.from < w.until /\ w.from \in Ticks /\ w.until \in Ticks
  /\ Ticks \subseteq Int /\ Never \in Int /\ Never < -Overlap /\ Overlap \in Nat \ {0}
  BY DelayAssumption, BoundAssumption DEF Windows, NoWindow, Ticks, Never

(* A run that has a window in hand: the window, its root and its cursor.    *)
LEMMA HandFacts ==
  ASSUME ControlInv, NEW r \in Runs, run[r].pc \in Collecting
  PROVE  /\ run[r] \in Locals /\ M(r) \in Mappings /\ parent[M(r)] \in Parent
         /\ run[r].root = parent[M(r)].window
         /\ run[r].root \in Windows /\ run[r].target \in Windows
         /\ ~IsRoot(r) =>
              /\ Inside(run[r].target, run[r].root)
              /\ run[r].pending # <<>> /\ run[r].target = Head(run[r].pending)
              /\ Key(r) \in DOMAIN child[M(r)] /\ child[M(r)][Key(r)] \in Child
              /\ parent[M(r)].status \in Unfinished
              /\ parent[M(r)].partition = [root |-> run[r].root, pending |-> run[r].pending]
         /\ NextStart(r) \in Nat
         /\ InHand(r) /\ CursorInv(M(r))
<1>1. run[r] \in Locals /\ RunInv(r)
  BY DEF ControlInv, Typed
<1>2. /\ M(r) \in Mappings
      /\ run[r].root = parent[M(r)].window /\ run[r].root # NoWindow
      /\ InHand(r)
      /\ ~IsRoot(r) =>
           /\ parent[M(r)].status \in Unfinished
           /\ parent[M(r)].partition = [root |-> run[r].root, pending |-> run[r].pending]
  BY <1>1 DEF RunInv, M, Collecting
<1>3. parent[M(r)] \in Parent /\ CursorInv(M(r))
  BY <1>2 DEF ControlInv, Typed
<1>4. run[r].root \in Windows
  BY <1>1, <1>2 DEF Locals
<1>5. CASE IsRoot(r)
  BY <1>1, <1>2, <1>3, <1>4, <1>5 DEF IsRoot, NextStart, Parent
<1>6. CASE ~IsRoot(r)
  <2>1. /\ run[r].pending # <<>> /\ run[r].target = Head(run[r].pending)
        /\ Key(r) \in DOMAIN child[M(r)]
    BY <1>2, <1>6 DEF InHand, M
  <2>2. run[r].pending \in Seq(Windows)
    BY <1>1 DEF Locals
  <2>3. run[r].target = run[r].pending[1] /\ 1 \in DOMAIN run[r].pending
        /\ run[r].target \in Windows
    BY <2>1, <2>2
  <2>4. Inside(run[r].target, run[r].root)
    BY <1>2, <1>3, <1>6, <2>3 DEF CursorInv
  <2>5. child[M(r)][Key(r)] \in Child
    BY <1>2, <2>1 DEF ControlInv, Typed
  <2>6. NextStart(r) \in Nat
    BY <1>6, <2>1, <2>5 DEF NextStart, ChildAt, Child
  <2>7. QED
    BY <1>1, <1>2, <1>3, <1>4, <1>6, <2>1, <2>3, <2>4, <2>5, <2>6
<1>7. QED
  BY <1>5, <1>6

(* No cursor lies ahead of the clock.                                       *)
LEMMA Past ==
  ASSUME ControlInv, NEW m \in Mappings
  PROVE  /\ parent[m] \in Parent /\ clock \in Nat
         /\ parent[m].until <= clock /\ parent[m].window.until <= clock
         /\ parent[m].until \in Int /\ parent[m].window.until \in Int
<1>1. parent[m] \in Parent /\ clock \in Nat /\ CursorInv(m)
  BY DEF ControlInv, Typed
<1>2. QED
  BY <1>1, WindowFacts DEF CursorInv

LEMMA AdvanceFacts ==
  ASSUME NEW l \in Locals, l.m \in Mappings
  PROVE  /\ Advance(l) \in Locals /\ Advance(l).pc \in {"finish", "mapping"}
         /\ Advance(l).now = l.now
         /\ Advance(l).pc = "mapping" => Advance(l).m = l.m + 1 /\ Advance(l).m \in Mappings
         /\ Advance(l).pc = "finish" => l.m = MappingCount
         /\ Advance(l).errors = l.errors /\ Advance(l).safety = l.safety
<1>1. MappingCount \in Nat /\ l.m \in 1..MappingCount
  BY SettingsAssumption DEF Mappings
<1>2. CASE l.m = MappingCount
  BY <1>1, <1>2 DEF Advance, Locals, Labels
<1>3. CASE l.m # MappingCount
  <2>1. Advance(l) = [l EXCEPT !.pc = "mapping", !.m = l.m + 1]
    BY <1>3 DEF Advance
  <2>2. l.m + 1 \in 1..MappingCount /\ l.m + 1 \in 1..(MappingCount + 1)
    BY <1>1, <1>3
  <2>3. QED
    BY <1>3, <2>1, <2>2 DEF Locals, Labels, Mappings
<1>4. QED
  BY <1>2, <1>3

LEMMA AfterOutcomeFacts ==
  ASSUME NEW l \in Locals, l.m \in Mappings
  PROVE  LET n == AfterOutcome(l) IN
         /\ n \in Locals /\ n.pc \in {"finish", "mapping"} /\ n.now = l.now
         /\ n.pc = "mapping" => n.m = l.m + 1 /\ n.m \in Mappings
         /\ n.pc = "finish" => n.safety \/ l.m = MappingCount
         /\ n.errors = l.errors
         /\ l.safety => n.safety
<1>1. CASE l.requests >= MaxRequests
  BY <1>1 DEF AfterOutcome, Locals, Labels
<1>2. CASE ~(l.requests >= MaxRequests)
  BY <1>2, AdvanceFacts DEF AfterOutcome
<1>3. QED
  BY <1>1, <1>2

-----------------------------------------------------------------------------
(* Cursors that a step leaves alone, and locals without a mapping in hand *)

(* The cursors of a mapping are as they were.                               *)
Same(m) ==
  /\ parent'[m] = parent[m] /\ child'[m] = child[m] /\ origin'[m] = origin[m]

LEMMA SameCursor ==
  ASSUME ControlInv, NEW m \in Mappings, Same(m), clock' \in Nat, clock <= clock'
  PROVE  CursorInv(m)'
<1>1. CursorInv(m) /\ clock \in Nat /\ DOMAIN child[m] \subseteq Windows \X Windows
  BY DEF ControlInv, Typed
<1>2. \A k \in DOMAIN child[m] : k[1].until \in Int
  BY <1>1, WindowFacts
<1>3. QED
  BY <1>1, <1>2 DEF CursorInv, Same, Inside

(* All mappings' cursors lie in the past of a run.                          *)
Behind(l) == \A m \in Mappings : parent'[m].until <= l.now /\ parent'[m].window.until <= l.now

LEMMA Leaving ==
  ASSUME NEW r \in Runs, NEW l, run'[r] = l,
         l.pc \in {"idle", "finish", "mapping"},
         l.pc # "idle" => l.now <= clock' /\ Behind(l),
         l.pc = "mapping" => l.m \in Mappings
  PROVE  RunInv(r)'
  BY DEF RunInv, Behind, Collecting

(* A step of the one process on the cursors of one mapping.                 *)
LEMMA Assemble ==
  ASSUME OneProcess, ControlInv, NEW r \in Runs, NEW m \in Mappings,
         NEW l \in Locals, run' = [run EXCEPT ![r] = l], clock' = clock,
         \A n \in Mappings \ {m} : Same(n), CursorInv(m)',
         DOMAIN parent' = Mappings, DOMAIN child' = Mappings, DOMAIN origin' = Mappings,
         parent'[m] \in Parent, origin'[m] \in Ticks \cup {Never},
         DOMAIN child'[m] \subseteq Windows \X Windows,
         \A k \in DOMAIN child'[m] : child'[m][k] \in Child,
         parent' = [n \in Mappings |-> parent'[n]],
         origin' = [n \in Mappings |-> origin'[n]],
         persisted' \in [Mappings -> SUBSET Articles], verdict' \in [Runs -> Verdicts],
         RunInv(r)'
  PROVE  ControlInv'
<1>1. Typed
  BY DEF ControlInv
<1>2. parent' \in [Mappings -> Parent]
  BY <1>1 DEF Typed, Same
<1>3. origin' \in [Mappings -> Ticks \cup {Never}]
  BY <1>1 DEF Typed, Same
<1>4. \A n \in Mappings :
        /\ DOMAIN child'[n] \subseteq Windows \X Windows
        /\ \A k \in DOMAIN child'[n] : child'[n][k] \in Child
  BY <1>1 DEF Typed, Same
<1>5. run' \in [Runs -> Locals]
  BY <1>1 DEF Typed
<1>6. Typed'
  BY <1>1, <1>2, <1>3, <1>4, <1>5 DEF Typed
<1>7. \A n \in Mappings : CursorInv(n)'
  <2>1. clock' \in Nat /\ clock <= clock'
    BY <1>1 DEF Typed
  <2>2. QED
    BY <2>1, SameCursor
<1>8. \A q \in Runs : RunInv(q)'
  BY DEF OneProcess
<1>9. QED
  BY <1>6, <1>7, <1>8 DEF ControlInv

(* A step that leaves all cursors alone.                                    *)
LEMMA AssembleSame ==
  ASSUME OneProcess, ControlInv, NEW r \in Runs, NEW l \in Locals,
         run' = [run EXCEPT ![r] = l], UNCHANGED <<clock, parent, child, persisted, origin>>,
         verdict' \in [Runs -> Verdicts], RunInv(r)'
  PROVE  ControlInv'
<1>1. Typed /\ 1 \in Mappings
  BY SettingsAssumption DEF ControlInv, Mappings
<1>2. \A n \in Mappings : Same(n)
  BY DEF Same
<1>3. CursorInv(1)'
  BY <1>1, <1>2, SameCursor DEF Typed
<1>4. QED
  BY <1>1, <1>2, <1>3, Assemble DEF Typed

-----------------------------------------------------------------------------
(* The steps: runs, and windows to be opened *)

LEMMA StartControl ==
  ASSUME OneProcess, ControlInv, NEW r \in Runs, StartRun(r)
  PROVE  ControlInv'
<1> DEFINE l == [Idle EXCEPT !.pc = "mapping", !.now = clock]
<1>1. run' = [run EXCEPT ![r] = l] /\ UNCHANGED <<clock, parent, child, persisted, origin>>
  BY DEF StartRun, Set
<1>2. clock \in Nat /\ r \in DOMAIN run /\ verdict' \in [Runs -> Verdicts]
  BY DEF ControlInv, Typed, StartRun, Verdicts
<1>3. 1 \in Mappings /\ MappingCount \in Nat /\ MaxRequests \in Nat
  BY SettingsAssumption DEF Mappings
<1>4. l \in Locals /\ l.pc = "mapping" /\ l.m = 1 /\ l.now = clock
  <2>1. 1 \in 1..(MappingCount + 1) /\ 0 \in 0..MaxRequests /\ <<>> \in Seq(Windows)
    BY <1>3
  <2>2. QED
    BY <1>2, <2>1 DEF Idle, Locals, Labels, Outcomes
<1>5. Behind(l)
  BY <1>1, <1>4, Past DEF Behind
<1> HIDE DEF l
<1>6. RunInv(r)'
  BY <1>1, <1>2, <1>3, <1>4, <1>5, Leaving
<1>7. QED
  BY <1>1, <1>2, <1>4, <1>6, AssembleSame

(* The end of a run, whatever ends it.                                      *)
LEMMA EndControl ==
  ASSUME OneProcess, ControlInv, NEW r \in Runs,
         RunTooSlow(r) \/ FinishRun(r) \/ Crash(r)
  PROVE  ControlInv'
<1>1. Typed /\ run[r] \in Locals /\ RunInv(r) /\ MappingCount \in Nat /\ MaxRequests \in Nat
  BY SettingsAssumption DEF ControlInv, Typed
<1>2. PICK l \in Locals :
        /\ run' = [run EXCEPT ![r] = l]
        /\ l.pc = "idle" \/ (l.pc = "finish" /\ l.now = run[r].now /\ run[r].pc = "mapping")
  <2>1. CASE RunTooSlow(r)
    <3> DEFINE l == [run[r] EXCEPT !.pc = "finish", !.safety = TRUE]
    <3>1. l \in Locals /\ l.pc = "finish" /\ l.now = run[r].now
      BY <1>1 DEF Locals, Labels
    <3>2. QED
      BY <2>1, <3>1 DEF RunTooSlow, Set, At
  <2>2. CASE FinishRun(r) \/ Crash(r)
    <3>1. Idle \in Locals /\ Idle.pc = "idle"
      BY <1>1 DEF Idle, Locals, Labels, Outcomes
    <3>2. QED
      BY <2>2, <3>1 DEF FinishRun, Crash, Set
  <2>3. QED
    BY <2>1, <2>2
<1>3. UNCHANGED <<clock, parent, child, persisted, origin>> /\ verdict' \in [Runs -> Verdicts]
  BY <1>1 DEF RunTooSlow, FinishRun, Crash, Typed, terminal_status, Verdicts
<1>4. l.pc # "idle" => l.now <= clock' /\ Behind(l)
  BY <1>1, <1>2, <1>3 DEF RunInv, Behind
<1>5. RunInv(r)'
  <2>1. run'[r] = l
    BY <1>1, <1>2 DEF Typed
  <2>2. QED
    BY <1>2, <1>4, <2>1, Leaving
<1>6. QED
  BY <1>2, <1>3, <1>5, AssembleSame

LEMMA ResumeControl ==
  ASSUME OneProcess, ControlInv, NEW r \in Runs, ResumePartition(r)
  PROVE  ControlInv'
<1> DEFINE m == M(r)
           l == [run[r] EXCEPT !.pc = "child", !.root = parent[m].window,
                               !.pending = parent[m].partition.pending]
<1>1. Typed /\ run[r] \in Locals /\ RunInv(r) /\ run[r].pc = "mapping"
  BY DEF ControlInv, Typed, ResumePartition, At
<1>2. m \in Mappings /\ m = run[r].m
  BY <1>1 DEF RunInv, M
<1>3. parent[m] \in Parent
  BY <1>1, <1>2 DEF Typed
<1>4. /\ parent[m].status \in Unfinished /\ parent[m].window # NoWindow
      /\ parent[m].partition.root = parent[m].window
      /\ run' = [run EXCEPT ![r] = l]
      /\ UNCHANGED <<clock, parent, child, persisted, origin>> /\ UNCHANGED verdict
  BY DEF ResumePartition, Resumable, Unfinished, Set
<1>5. parent[m].partition = [root |-> parent[m].window, pending |-> parent[m].partition.pending]
      /\ parent[m].partition.pending \in Seq(Windows)
  BY <1>3, <1>4 DEF Parent, Partition
<1>6. l \in Locals /\ l.pc = "child" /\ l.m = m /\ l.now = run[r].now
      /\ l.root = parent[m].window /\ l.pending = parent[m].partition.pending
  BY <1>1, <1>2, <1>3, <1>5 DEF Locals, Labels, Parent
<1> HIDE DEF l
<1>7. RunInv(r)'
  <2>1. run'[r] = l
    BY <1>1, <1>4 DEF Typed
  <2>2. QED
    BY <1>1, <1>2, <1>4, <1>5, <1>6, <2>1 DEF RunInv, Collecting
<1>8. verdict' \in [Runs -> Verdicts]
  BY <1>1, <1>4 DEF Typed
<1>9. QED
  BY <1>4, <1>6, <1>7, <1>8, AssembleSame

(* A request is sent, or sent again.                                        *)
LEMMA SendControl ==
  ASSUME OneProcess, ControlInv, NEW r \in Runs, Send(r) \/ Retry(r)
  PROVE  ControlInv'
<1>1. /\ Typed /\ RunInv(r) /\ run[r].pc \in {"page", "waiting"}
      /\ MaxRequests \in Nat /\ run[r].requests < MaxRequests
  BY SettingsAssumption DEF ControlInv, Send, Retry, At
<1>2. /\ run[r] \in Locals /\ NextStart(r) \in Nat /\ InHand(r)
  BY <1>1, HandFacts DEF Collecting
<1>3. run[r].requests + 1 \in 0..MaxRequests
  BY <1>1, <1>2 DEF Locals
<1>4. PICK l \in Locals :
        /\ run' = [run EXCEPT ![r] = l] /\ l.pc = "waiting" /\ l.start = NextStart(r)
        /\ l.m = run[r].m /\ l.now = run[r].now /\ l.root = run[r].root
        /\ l.target = run[r].target /\ l.pending = run[r].pending
  <2>1. CASE Send(r)
    <3> DEFINE l == [run[r] EXCEPT !.pc = "waiting", !.start = NextStart(r), !.requests = @ + 1]
    <3>1. l \in Locals
      BY <1>2, <1>3 DEF Locals, Labels
    <3>2. QED
      BY <1>2, <2>1, <3>1 DEF Send, Set, Locals
  <2>2. CASE Retry(r)
    <3> DEFINE l == [run[r] EXCEPT !.requests = @ + 1]
    <3>1. l \in Locals
      BY <1>2, <1>3 DEF Locals
    <3>2. run[r].pc = "waiting" /\ run[r].start = NextStart(r)
      BY <1>2, <2>2 DEF Retry, At, InHand
    <3>3. QED
      BY <1>2, <2>2, <3>1, <3>2 DEF Retry, Set, Locals
  <2>3. QED
    BY <1>1, <2>1, <2>2
<1>5. UNCHANGED <<clock, parent, child, persisted, origin>> /\ UNCHANGED verdict
  BY DEF Send, Retry
<1>6. run'[r] = l
  BY <1>1, <1>4 DEF Typed
<1>7. RunInv(r)'
  <2>1. InHand(r)'
    BY <1>1, <1>2, <1>4, <1>5, <1>6
    DEF InHand, IsRoot, Key, Status, NextStart, ChildAt, M
  <2>2. QED
    BY <1>1, <1>4, <1>5, <1>6, <2>1 DEF RunInv, Collecting, IsRoot
<1>8. verdict' \in [Runs -> Verdicts]
  BY <1>1, <1>5 DEF Typed
<1>9. QED
  BY <1>4, <1>5, <1>7, <1>8, AssembleSame

(* The window a run collects next, of a mapping that has none to resume.    *)
LEMMA FreshWindow ==
  ASSUME ControlInv, NEW r \in Runs, run[r].pc = "mapping",
         NEW m \in Mappings, m = M(r), ~Resumable(m)
  PROVE  LET w == fresh_window(m, run[r].now) IN
         /\ w \in Windows /\ w.until = run[r].now /\ w.until <= clock
         /\ w.from = IF parent[m].until = Never THEN run[r].now - Overlap
                     ELSE parent[m].until - Overlap
         /\ parent[m].until = Never <=> parent[m].window = NoWindow
<1> DEFINE w == fresh_window(m, run[r].now)
<1>1. m \in Mappings /\ run[r].now \in Nat /\ clock \in 0..MaxClock /\ MaxClock \in Nat
      /\ run[r].now <= clock /\ parent[m].until <= run[r].now
  BY BoundAssumption DEF ControlInv, Typed, Locals, RunInv, M
<1>2. /\ parent[m] \in Parent
      /\ parent[m].until = Never \/ parent[m].until \in 0..clock
      /\ parent[m].window = NoWindow => parent[m].until = Never
      /\ parent[m].window # NoWindow => parent[m].status # "pending"
      /\ parent[m].status = "succeeded" => parent[m].until = parent[m].window.until
      /\ parent[m].window.until \in 0..clock
  BY <1>1 DEF ControlInv, Typed, CursorInv
<1>3. parent[m].window # NoWindow => parent[m].until # Never
  BY <1>2, WindowFacts, <1>1 DEF Resumable, Parent, CursorStatuses
<1>4. parent[m].until = Never <=> parent[m].window = NoWindow
  BY <1>2, <1>3
<1>5. w = [from |-> IF parent[m].until = Never THEN run[r].now - Overlap
                    ELSE parent[m].until - Overlap, until |-> run[r].now]
  BY DEF fresh_window
<1>6. /\ w.from \in Ticks /\ w.until \in Ticks /\ w.from < w.until
      /\ w = [from |-> w.from, until |-> w.until]
  BY <1>1, <1>2, <1>5, WindowFacts DEF Ticks
<1> HIDE DEF w
<1>7. w \in [from : Ticks, until : Ticks]
  BY <1>6
<1>8. w \in Windows
  BY <1>6, <1>7 DEF Windows
<1>9. QED
  BY <1>1, <1>4, <1>5, <1>8 DEF w

LEMMA OpenRootControl ==
  ASSUME OneProcess, ControlInv, NEW r \in Runs, OpenRoot(r)
  PROVE  ControlInv'
<1>0. PICK m \in Mappings : m = M(r)
  BY DEF ControlInv, OpenRoot, At, RunInv, M
<1> DEFINE fresh == ~Resumable(m)
           root == incremental_window(m, run[r].now)
           l == [run[r] EXCEPT !.pc = "page", !.root = root, !.target = root]
           row == [parent[m] EXCEPT !.status = "running", !.window = root,
                   !.next = IF fresh THEN 0 ELSE parent[m].next,
                   !.partition = IF fresh THEN NoPartition ELSE parent[m].partition]
<1>1. Typed /\ run[r] \in Locals /\ RunInv(r) /\ run[r].pc = "mapping"
  BY DEF ControlInv, Typed, OpenRoot, At
<1>2. /\ m \in Mappings /\ m = run[r].m /\ parent[m] \in Parent /\ CursorInv(m)
      /\ run[r].now <= clock /\ clock \in Nat /\ run[r].now \in Nat
      /\ \A n \in Mappings : parent[n].until <= run[r].now /\ parent[n].window.until <= run[r].now
  BY <1>0, <1>1 DEF RunInv, M, ControlInv, Typed, Locals
<1>3. /\ fresh \/ parent[m].partition.root # root
      /\ parent' = [parent EXCEPT ![m] = row]
      /\ child' = [child EXCEPT ![m] =
           [k \in {k \in DOMAIN child[m] : fresh => k[1] # root} |-> child[m][k]]]
      /\ origin' = [origin EXCEPT ![m] = IF parent[m].window = NoWindow THEN root.from ELSE @]
      /\ run' = [run EXCEPT ![r] = l]
      /\ clock' = clock /\ persisted' = persisted /\ verdict' = verdict
  <2>1. fresh \/ parent[m].partition.root # root
    BY <1>0 DEF OpenRoot
  <2>2. parent' = [parent EXCEPT ![m] = row]
    BY <1>0 DEF OpenRoot
  <2>3. child' = [child EXCEPT ![m] =
           [k \in {k \in DOMAIN child[m] : fresh => k[1] # root} |-> child[m][k]]]
    BY <1>0 DEF OpenRoot
  <2>4. origin' = [origin EXCEPT ![m] = IF parent[m].window = NoWindow THEN root.from ELSE @]
    BY <1>0 DEF OpenRoot
  <2>5. run' = [run EXCEPT ![r] = l] /\ clock' = clock /\ persisted' = persisted /\ verdict' = verdict
    BY <1>0 DEF OpenRoot, Set
  <2>6. QED
    BY <2>1, <2>2, <2>3, <2>4, <2>5
<1>4. /\ root \in Windows /\ root # NoWindow /\ root.until <= run[r].now /\ root.until \in 0..clock
      /\ ~fresh => root = parent[m].window /\ parent[m].status \in Unfinished
      /\ fresh => root.from = IF parent[m].until = Never THEN run[r].now - Overlap
                             ELSE parent[m].until - Overlap
      /\ fresh => (parent[m].until = Never <=> parent[m].window = NoWindow)
  <2>1. CASE fresh
    <3>1. root = fresh_window(m, run[r].now)
      BY <2>1 DEF incremental_window
    <3> HIDE DEF root
    <3>2. /\ root \in Windows /\ root.until = run[r].now
          /\ root.from = IF parent[m].until = Never THEN run[r].now - Overlap
                         ELSE parent[m].until - Overlap
          /\ parent[m].until = Never <=> parent[m].window = NoWindow
      BY <1>0, <1>1, <2>1, <3>1, FreshWindow
    <3>3. QED
      BY <1>2, <2>1, <3>2, WindowFacts
  <2>2. CASE ~fresh
    <3>1. root = parent[m].window /\ parent[m].status \in Unfinished /\ root # NoWindow
      BY <2>2 DEF incremental_window, Resumable, Unfinished
    <3> HIDE DEF root
    <3>2. QED
      BY <1>2, <2>2, <3>1 DEF Parent, CursorInv
  <2>3. QED
    BY <2>1, <2>2
<1> HIDE DEF root
<1>5. /\ row \in Parent /\ row.status = "running" /\ row.window = root /\ row.until = parent[m].until
      /\ row.partition.root # root
      /\ fresh => row.next = 0 /\ row.partition = NoPartition
      /\ ~fresh => row.next = parent[m].next /\ row.partition = parent[m].partition
  <2>1. NoPartition \in Partition /\ NoPartition.root = NoWindow
    BY DEF NoPartition, Partition
  <2>2. "running" \in CursorStatuses
    BY DEF CursorStatuses
  <2>3. row \in Parent
    BY <1>2, <1>4, <2>1, <2>2 DEF Parent
  <2>4. QED
    BY <1>2, <1>3, <1>4, <2>1, <2>3 DEF Parent
<1>6. /\ l \in Locals /\ l.pc = "page" /\ l.m = m /\ l.now = run[r].now
      /\ l.root = root /\ l.target = root
  BY <1>1, <1>2, <1>4 DEF Locals, Labels
<1> HIDE DEF l, row, fresh
<1>7. /\ parent'[m] = row /\ run'[r] = l
      /\ origin'[m] = IF parent[m].window = NoWindow THEN root.from ELSE origin[m]
      /\ DOMAIN child'[m] \subseteq DOMAIN child[m]
      /\ \A k \in DOMAIN child'[m] : child'[m][k] = child[m][k]
  BY <1>1, <1>2, <1>3 DEF Typed
<1>8. CursorInv(m)'
  <2>4. \A k \in DOMAIN child'[m] : k[1].until <= clock'
    BY <1>2, <1>3, <1>7 DEF CursorInv
  <2>1. /\ row.until = Never \/ row.until \in 0..clock
        /\ root.until \in 0..clock /\ clock' = clock
    BY <1>2, <1>3, <1>4, <1>5 DEF CursorInv
  <2>2. root.from = IF row.until = Never THEN origin'[m] ELSE row.until - Overlap
    BY <1>2, <1>4, <1>5, <1>7 DEF CursorInv, Unfinished
  <2>3. row.partition.root = NoWindow
    BY <1>2, <1>4, <1>5 DEF CursorInv, NoPartition
  <2>5. parent'[m] = row /\ row.window # NoWindow /\ row.window = root /\ row.status = "running"
    BY <1>4, <1>5, <1>7
  <2>6. QED
    BY <2>1, <2>2, <2>3, <2>4, <2>5 DEF CursorInv
<1>9. \A n \in Mappings \ {m} : Same(n)
  BY <1>1, <1>3 DEF Same, Typed
<1>10. RunInv(r)'
  <2>1. \A n \in Mappings : parent'[n].until <= l.now /\ parent'[n].window.until <= l.now
    BY <1>2, <1>4, <1>5, <1>6, <1>7, <1>9 DEF Same
  <2>2. InHand(r)'
    BY <1>5, <1>6, <1>7 DEF InHand, IsRoot, Status, M
  <2>3. QED
    BY <1>2, <1>3, <1>4, <1>5, <1>6, <1>7, <2>1, <2>2 DEF RunInv, IsRoot, Collecting
<1>11. origin'[m] \in Ticks \cup {Never}
  BY <1>1, <1>2, <1>4, <1>7, WindowFacts DEF Typed
<1>12. /\ DOMAIN child'[m] \subseteq Windows \X Windows
       /\ \A k \in DOMAIN child'[m] : child'[m][k] \in Child
  BY <1>1, <1>2, <1>7 DEF Typed
<1>13. /\ DOMAIN parent' = Mappings /\ DOMAIN child' = Mappings /\ DOMAIN origin' = Mappings
       /\ parent' = [n \in Mappings |-> parent'[n]] /\ origin' = [n \in Mappings |-> origin'[n]]
       /\ persisted' \in [Mappings -> SUBSET Articles] /\ verdict' \in [Runs -> Verdicts]
  BY <1>1, <1>3 DEF Typed
<1>14. QED
  BY <1>2, <1>3, <1>5, <1>6, <1>7, <1>8, <1>9, <1>10, <1>11, <1>12, <1>13, Assemble

-----------------------------------------------------------------------------
(* The steps: partitions *)

(* The halves of a root, or of a window inside it, may be queued.           *)
LEMMA HalvesQueued ==
  ASSUME NEW w \in Windows, NEW root \in Windows, w = root \/ Inside(w, root),
         split_window(w) # <<>>
  PROVE  /\ split_window(w) \in Seq(Windows)
         /\ \A i \in DOMAIN split_window(w) : Inside(split_window(w)[i], root)
<1>1. w \in [from : Int, until : Int] /\ root \in [from : Int, until : Int]
  BY WindowFacts
<1>2. \A i \in DOMAIN split_window(w) :
        LET half == split_window(w)[i] IN
        /\ half \in [from : Int, until : Int]
        /\ w.from <= half.from /\ half.from < half.until /\ half.until <= w.until
        /\ w.from < half.from \/ half.until < w.until
  BY <1>1, HalvesInside
<1>3. split_window(w) \in Seq([from : Int, until : Int])
  BY <1>1, HalvesTyped
<1> DEFINE s == split_window(w)
<1> HIDE DEF s
<1>4. ASSUME NEW i \in DOMAIN s
      PROVE  s[i] \in Windows /\ Inside(s[i], root)
  <2>1. /\ s[i] \in [from : Int, until : Int]
        /\ w.from <= s[i].from /\ s[i].from < s[i].until /\ s[i].until <= w.until
        /\ w.from < s[i].from \/ s[i].until < w.until
    BY <1>2, <1>4 DEF s
  <2>2. root.from <= w.from /\ w.until <= root.until
    BY <1>1 DEF Inside
  <2>3. Inside(s[i], root)
    BY <1>1, <2>1, <2>2 DEF Inside
  <2>4. w.from \in Ticks /\ w.until \in Ticks
    BY WindowFacts
  <2>5. s[i].from \in Ticks /\ s[i].until \in Ticks
    BY <1>1, <2>1, <2>4, DelayAssumption, BoundAssumption DEF Ticks
  <2>6. s[i] \in [from : Ticks, until : Ticks]
    BY <2>1, <2>5
  <2>7. QED
    BY <2>1, <2>3, <2>6 DEF Windows
<1>5. s \in Seq([from : Int, until : Int])
  BY <1>3 DEF s
<1>6. s \in Seq(Windows)
  BY <1>4, <1>5
<1>7. QED
  BY <1>4, <1>6 DEF s

LEMMA PartitionControl ==
  ASSUME OneProcess, ControlInv, NEW r \in Runs, NEW m \in Mappings, m = M(r),
         run[r].pc # "idle", parent[m].window = run[r].root, run[r].root # NoWindow,
         parent[m].status \in Unfinished,
         NEW pending \in Seq(Windows),
         \A i \in DOMAIN pending : Inside(pending[i], run[r].root),
         SavePartition(r, pending), UNCHANGED <<clock, child, persisted, origin, verdict>>,
         NEW l \in Locals, run' = [run EXCEPT ![r] = l],
         l.pc \in {"child", "mapping", "finish"}, l.now = run[r].now,
         l.pc = "mapping" => l.m \in Mappings,
         l.pc = "child" => l.m = m /\ l.root = run[r].root /\ l.pending = pending
  PROVE  ControlInv'
<1>1. Typed /\ run[r] \in Locals /\ RunInv(r) /\ CursorInv(m) /\ parent[m] \in Parent
  BY DEF ControlInv, Typed
<1> DEFINE row == [parent[m] EXCEPT !.status = "partial",
                      !.partition = [root |-> run[r].root, pending |-> pending]]
<1>2. parent' = [parent EXCEPT ![m] = row]
  BY DEF SavePartition
<1>3. run[r].root \in Windows
  BY <1>1 DEF Locals
<1>4. /\ row \in Parent /\ row.status = "partial" /\ row.window = run[r].root
      /\ row.until = parent[m].until
      /\ row.partition = [root |-> run[r].root, pending |-> pending]
  BY <1>1, <1>3 DEF Parent, Partition, CursorStatuses
<1> HIDE DEF row
<1>5. parent'[m] = row /\ run'[r] = l
  BY <1>1, <1>2 DEF Typed
<1>6. CursorInv(m)'
  BY <1>1, <1>4, <1>5 DEF CursorInv, Unfinished
<1>7. \A n \in Mappings \ {m} : Same(n)
  BY <1>1, <1>2 DEF Same, Typed
<1>8. RunInv(r)'
  <2>1. \A n \in Mappings : parent'[n].until <= l.now /\ parent'[n].window.until <= l.now
    BY <1>1, <1>4, <1>5, <1>7 DEF RunInv, Same
  <2>2. l.now <= clock'
    BY <1>1 DEF RunInv
  <2>3. QED
    BY <1>4, <1>5, <2>1, <2>2 DEF RunInv, Collecting, Unfinished
<1>9. /\ DOMAIN parent' = Mappings /\ DOMAIN child' = Mappings /\ DOMAIN origin' = Mappings
      /\ parent' = [n \in Mappings |-> parent'[n]] /\ origin' = [n \in Mappings |-> origin'[n]]
      /\ persisted' \in [Mappings -> SUBSET Articles] /\ verdict' \in [Runs -> Verdicts]
      /\ origin'[m] \in Ticks \cup {Never}
      /\ DOMAIN child'[m] \subseteq Windows \X Windows
      /\ \A k \in DOMAIN child'[m] : child'[m][k] \in Child
  BY <1>1, <1>2 DEF Typed
<1>10. QED
  BY <1>4, <1>5, <1>6, <1>7, <1>8, <1>9, Assemble

LEMMA SkipControl ==
  ASSUME OneProcess, ControlInv, NEW r \in Runs, SkipChild(r)
  PROVE  ControlInv'
<1>1. PICK m \in Mappings : m = M(r)
  BY DEF ControlInv, SkipChild, At, RunInv, M
<1>2. /\ run[r] \in Locals /\ RunInv(r) /\ CursorInv(m) /\ run[r].pc = "child"
      /\ run[r].pending # <<>> /\ SavePartition(r, Tail(run[r].pending))
      /\ UNCHANGED <<clock, child, persisted, origin, verdict>>
      /\ run' = [run EXCEPT ![r] = [run[r] EXCEPT !.pending = Tail(@)]]
  BY DEF ControlInv, Typed, SkipChild, At, Set
<1>3. /\ run[r].root = parent[m].window /\ run[r].root # NoWindow
      /\ parent[m].status \in Unfinished
      /\ parent[m].partition = [root |-> run[r].root, pending |-> run[r].pending]
  BY <1>1, <1>2 DEF RunInv, M
<1>4. \A i \in DOMAIN run[r].pending : Inside(run[r].pending[i], run[r].root)
  BY <1>2, <1>3 DEF CursorInv
<1> DEFINE rest == Tail(run[r].pending)
           l == [run[r] EXCEPT !.pending = rest]
<1>5. run[r].pending \in Seq(Windows)
  BY <1>2 DEF Locals
<1>6. rest \in Seq(Windows) /\ \A i \in DOMAIN rest : Inside(rest[i], run[r].root)
  BY <1>2, <1>4, <1>5
<1> HIDE DEF rest
<1>7. /\ l \in Locals /\ l.pc = "child" /\ l.now = run[r].now /\ l.m = m
      /\ l.root = run[r].root /\ l.pending = rest
  BY <1>1, <1>2, <1>6 DEF Locals, M
<1>8. run' = [run EXCEPT ![r] = l] /\ SavePartition(r, rest)
  BY <1>2 DEF rest
<1> HIDE DEF l
<1>9. /\ run[r].pc # "idle" /\ SavePartition(r, rest)
      /\ run' = [run EXCEPT ![r] = l]
      /\ l.pc \in {"child", "mapping", "finish"} /\ l.now = run[r].now
      /\ l.pc = "mapping" => l.m \in Mappings
      /\ l.pc = "child" => l.m = m /\ l.root = run[r].root /\ l.pending = rest
      /\ UNCHANGED <<clock, child, persisted, origin, verdict>>
  BY <1>2, <1>7, <1>8
<1>10. QED
  BY <1>1, <1>3, <1>6, <1>7, <1>9, PartitionControl

(* A root that was split becomes the parent of its halves.                  *)
LEMMA SplitRootControl ==
  ASSUME OneProcess, ControlInv, NEW r \in Runs, RootOutcome(r), run[r].outcome = "split"
  PROVE  ControlInv'
<1>1. PICK m \in Mappings : m = M(r)
  BY DEF ControlInv, RootOutcome, At, RunInv, M, Collecting
<1>2. /\ run[r].pc = "outcome" /\ IsRoot(r) /\ SavePartition(r, run[r].halves)
      /\ UNCHANGED <<clock, child, persisted, origin, verdict>>
      /\ run' = [run EXCEPT ![r] = [run[r] EXCEPT !.pc = "child", !.pending = run[r].halves]]
  BY DEF RootOutcome, At, Set
<1>3. /\ run[r] \in Locals /\ run[r].root \in Windows /\ InHand(r)
      /\ run[r].root = parent[m].window
  BY <1>1, <1>2, HandFacts DEF Collecting
<1>4. /\ run[r].halves = split_window(run[r].root) /\ run[r].halves # <<>>
      /\ parent[m].status = "partial"
  BY <1>1, <1>2, <1>3 DEF InHand, IsRoot, Status
<1>5. /\ run[r].halves \in Seq(Windows)
      /\ \A i \in DOMAIN run[r].halves : Inside(run[r].halves[i], run[r].root)
  BY <1>3, <1>4, HalvesQueued
<1> DEFINE l == [run[r] EXCEPT !.pc = "child", !.pending = run[r].halves]
<1>6. /\ l \in Locals /\ l.pc = "child" /\ l.now = run[r].now /\ l.m = m
      /\ l.root = run[r].root /\ l.pending = run[r].halves
  BY <1>1, <1>3, <1>5 DEF Locals, Labels, M
<1>7. run' = [run EXCEPT ![r] = l] /\ run[r].root # NoWindow /\ parent[m].status \in Unfinished
  BY <1>2, <1>3, <1>4, WindowFacts DEF Unfinished
<1> HIDE DEF l
<1>8. /\ run[r].pc # "idle" /\ parent[m].window = run[r].root
      /\ l.pc \in {"child", "mapping", "finish"} /\ l.now = run[r].now
      /\ l.pc = "mapping" => l.m \in Mappings
      /\ l.pc = "child" => l.m = m /\ l.root = run[r].root /\ l.pending = run[r].halves
      /\ SavePartition(r, run[r].halves)
      /\ UNCHANGED <<clock, child, persisted, origin, verdict>>
  BY <1>2, <1>3, <1>6
<1>9. QED
  BY <1>1, <1>5, <1>6, <1>7, <1>8, PartitionControl

(* A root that was not split, or whose mapping is done with, is left.       *)
LEMMA LeaveControl ==
  ASSUME OneProcess, ControlInv, NEW r \in Runs, run[r].pc # "idle",
         NEW l \in Locals, run' = [run EXCEPT ![r] = l],
         l.pc \in {"mapping", "finish"}, l.now = run[r].now,
         l.pc = "mapping" => l.m \in Mappings,
         UNCHANGED <<clock, parent, child, persisted, origin, verdict>>
  PROVE  ControlInv'
<1>1. Typed /\ RunInv(r)
  BY DEF ControlInv
<1>2. l.now <= clock' /\ Behind(l)
  BY <1>1 DEF RunInv, Behind
<1>3. run'[r] = l /\ verdict' \in [Runs -> Verdicts]
  BY <1>1 DEF Typed
<1>4. RunInv(r)'
  BY <1>2, <1>3, Leaving
<1>5. QED
  BY <1>3, <1>4, AssembleSame

LEMMA RootControl ==
  ASSUME OneProcess, ControlInv, NEW r \in Runs, RootOutcome(r), run[r].outcome # "split"
  PROVE  ControlInv'
<1> DEFINE done == [run[r] EXCEPT !.succeeded = @ \/ run[r].outcome = "succeeded"]
           l == AfterOutcome(done)
<1>1. /\ run[r].pc = "outcome" /\ run' = [run EXCEPT ![r] = l]
      /\ UNCHANGED <<clock, parent, child, persisted, origin, verdict>>
  BY DEF RootOutcome, At, Set
<1>2. run[r] \in Locals /\ run[r].m \in Mappings
  BY <1>1, HandFacts DEF Collecting, M
<1>3. done \in Locals /\ done.m \in Mappings /\ done.now = run[r].now
  BY <1>2 DEF Locals
<1> HIDE DEF done
<1>4. /\ l \in Locals /\ l.pc \in {"finish", "mapping"} /\ l.now = run[r].now
      /\ l.pc = "mapping" => l.m \in Mappings
  BY <1>3, AfterOutcomeFacts
<1> HIDE DEF l
<1>5. QED
  BY <1>1, <1>4, LeaveControl

LEMMA ChildControl ==
  ASSUME OneProcess, ControlInv, NEW r \in Runs, ChildOutcome(r)
  PROVE  ControlInv'
<1>1. PICK m \in Mappings : m = M(r)
  BY DEF ControlInv, ChildOutcome, At, RunInv, M, Collecting
<1> DEFINE pending == run[r].pending
           rest == CASE run[r].outcome = "split"     -> requeue(pending, run[r].halves)
                     [] run[r].outcome = "succeeded" -> Tail(pending)
                     [] run[r].outcome = "partial"   -> pending
           l == IF run[r].outcome = "partial" THEN AfterOutcome(run[r])
                ELSE [run[r] EXCEPT !.pc = "child", !.pending = rest]
<1>2. /\ run[r].pc = "outcome" /\ ~IsRoot(r) /\ SavePartition(r, rest)
      /\ UNCHANGED <<clock, child, persisted, origin, verdict>>
      /\ run' = [run EXCEPT ![r] = l]
  BY DEF ChildOutcome, At, Set
<1>3. /\ run[r] \in Locals /\ run[r].root \in Windows /\ run[r].target \in Windows /\ InHand(r)
      /\ run[r].root = parent[m].window /\ Inside(run[r].target, run[r].root)
      /\ pending # <<>> /\ parent[m].status \in Unfinished /\ CursorInv(m)
      /\ parent[m].partition = [root |-> run[r].root, pending |-> pending]
  BY <1>1, <1>2, HandFacts DEF Collecting
<1>4. /\ run[r].outcome \in {"split", "succeeded", "partial"}
      /\ run[r].outcome = "split" =>
           run[r].halves = split_window(run[r].target) /\ run[r].halves # <<>>
  BY <1>2, <1>3 DEF InHand, Locals, Outcomes
<1>5. /\ run[r].root # NoWindow
      /\ pending \in Seq(Windows) /\ \A i \in DOMAIN pending : Inside(pending[i], run[r].root)
  BY <1>3, WindowFacts DEF CursorInv, Locals
<1>6. rest \in Seq(Windows) /\ \A i \in DOMAIN rest : Inside(rest[i], run[r].root)
  <2> HIDE DEF pending
  <2>1. /\ Tail(pending) \in Seq(Windows)
        /\ \A i \in DOMAIN Tail(pending) : Inside(Tail(pending)[i], run[r].root)
    BY <1>3, <1>5
  <2>2. CASE run[r].outcome = "split"
    <3> DEFINE s == run[r].halves
               t == Tail(pending)
    <3>1. s \in Seq(Windows) /\ \A i \in DOMAIN s : Inside(s[i], run[r].root)
      BY <1>3, <1>4, <2>2, HalvesQueued
    <3>2. rest = s \o t
      BY <2>2 DEF requeue
    <3> HIDE DEF s, t, rest
    <3>3. t \in Seq(Windows) /\ \A i \in DOMAIN t : Inside(t[i], run[r].root)
      BY <2>1 DEF t
    <3>4. \A i \in 1..Len(s \o t) :
            (s \o t)[i] = IF i <= Len(s) THEN s[i] ELSE t[i - Len(s)]
      BY <3>1, <3>3
    <3>5. \A i \in 1..Len(s \o t) : i > Len(s) => i - Len(s) \in 1..Len(t)
      BY <3>1, <3>3
    <3>6. QED
      BY <3>1, <3>2, <3>3, <3>4, <3>5
  <2>3. CASE run[r].outcome = "succeeded"
    BY <2>1, <2>3
  <2>4. CASE run[r].outcome = "partial"
    BY <1>5, <2>4
  <2>5. QED
    BY <1>4, <2>2, <2>3, <2>4
<1> HIDE DEF rest
<1>7. /\ l \in Locals /\ l.pc \in {"child", "mapping", "finish"} /\ l.now = run[r].now
      /\ l.pc = "mapping" => l.m \in Mappings
      /\ l.pc = "child" => l.m = m /\ l.root = run[r].root /\ l.pending = rest
  <2>1. run[r].m \in Mappings
    BY <1>1 DEF M
  <2>2. CASE run[r].outcome = "partial"
    BY <1>3, <2>1, <2>2, AfterOutcomeFacts
  <2>3. CASE run[r].outcome # "partial"
    <3>1. l = [run[r] EXCEPT !.pc = "child", !.pending = rest]
      BY <2>3
    <3> HIDE DEF l
    <3>2. QED
      BY <1>1, <1>3, <1>6, <3>1 DEF Locals, Labels, M
  <2>4. QED
    BY <2>2, <2>3
<1> HIDE DEF l
<1>8. /\ run[r].pc # "idle" /\ run' = [run EXCEPT ![r] = l] /\ SavePartition(r, rest)
      /\ UNCHANGED <<clock, child, persisted, origin, verdict>>
      /\ parent[m].window = run[r].root /\ parent[m].status \in Unfinished
  BY <1>2, <1>3
<1>9. QED
  BY <1>1, <1>5, <1>6, <1>7, <1>8, PartitionControl

(* What becomes of the child cursors when one is put.                       *)
LEMMA PutFacts ==
  ASSUME Typed, NEW m \in Mappings, NEW key \in Windows \X Windows, NEW row \in Child,
         child' = PutChild(m, key, row)
  PROVE  /\ DOMAIN child' = Mappings
         /\ \A n \in Mappings \ {m} : child'[n] = child[n]
         /\ DOMAIN child'[m] = DOMAIN child[m] \cup {key}
         /\ DOMAIN child'[m] \subseteq Windows \X Windows
         /\ \A k \in DOMAIN child'[m] :
              child'[m][k] = (IF k = key THEN row ELSE child[m][k]) /\ child'[m][k] \in Child
<1>1. DOMAIN child = Mappings
  BY DEF Typed
<1>2. child' = [child EXCEPT ![m] = [k \in DOMAIN child[m] \cup {key} |->
                                      IF k = key THEN row ELSE child[m][k]]]
  BY DEF PutChild
<1>3. child'[m] = [k \in DOMAIN child[m] \cup {key} |-> IF k = key THEN row ELSE child[m][k]]
  BY <1>1, <1>2
<1>4. QED
  BY <1>1, <1>2, <1>3 DEF Typed

LEMMA OpenChildControl ==
  ASSUME OneProcess, ControlInv, NEW r \in Runs, OpenChild(r)
  PROVE  ControlInv'
<1>1. PICK m \in Mappings : m = M(r)
  BY DEF ControlInv, OpenChild, At, RunInv, M
<1>2. PICK w \in Windows, key \in Windows \X Windows :
        /\ w = Head(run[r].pending) /\ key = <<run[r].root, w>> /\ w # run[r].root
        /\ run[r].root \in Windows
  <2>1. /\ run[r] \in Locals /\ RunInv(r) /\ CursorInv(m) /\ run[r].pc = "child"
        /\ run[r].pending # <<>>
    BY DEF ControlInv, Typed, OpenChild, At
  <2>2. /\ run[r].root = parent[m].window /\ run[r].root # NoWindow /\ run[r].root \in Windows
        /\ parent[m].partition = [root |-> run[r].root, pending |-> run[r].pending]
        /\ run[r].pending \in Seq(Windows)
    BY <1>1, <2>1 DEF RunInv, M, Locals
  <2>3. Head(run[r].pending) = run[r].pending[1] /\ 1 \in DOMAIN run[r].pending
        /\ Head(run[r].pending) \in Windows
    BY <2>1, <2>2
  <2>4. Inside(Head(run[r].pending), run[r].root)
    BY <2>1, <2>2, <2>3 DEF CursorInv
  <2>5. <<run[r].root, Head(run[r].pending)>> \in Windows \X Windows
    BY <2>2, <2>3
  <2>6. Head(run[r].pending) # run[r].root
    BY <2>4 DEF Inside
  <2>7. QED
    BY <2>2, <2>3, <2>5, <2>6
<1> DEFINE row == [ChildAt(m, key) EXCEPT !.status = "running"]
           l == [run[r] EXCEPT !.pc = "page", !.target = w]
<1>3. /\ Typed /\ run[r] \in Locals /\ RunInv(r) /\ CursorInv(m) /\ run[r].pc = "child"
      /\ run[r].pending # <<>> /\ child' = PutChild(m, key, row)
      /\ run' = [run EXCEPT ![r] = l]
      /\ UNCHANGED <<clock, parent, persisted, origin, verdict>>
  BY <1>1, <1>2 DEF ControlInv, Typed, OpenChild, At, Set
<1>4. row \in Child /\ row.status = "running"
  BY <1>3 DEF Typed, ChildAt, Child, NewChild, CursorStatuses
<1> HIDE DEF row
<1>5. /\ DOMAIN child' = Mappings
      /\ \A n \in Mappings \ {m} : child'[n] = child[n]
      /\ DOMAIN child'[m] = DOMAIN child[m] \cup {key}
      /\ DOMAIN child'[m] \subseteq Windows \X Windows
      /\ \A k \in DOMAIN child'[m] : child'[m][k] \in Child
      /\ child'[m][key] = row
  BY <1>3, <1>4, PutFacts
<1>6. /\ l \in Locals /\ l.pc = "page" /\ l.now = run[r].now /\ l.m = m
      /\ l.root = run[r].root /\ l.pending = run[r].pending /\ l.target = w
  BY <1>1, <1>3 DEF Locals, Labels, M
<1> HIDE DEF l
<1>7. run'[r] = l
  BY <1>3 DEF Typed
<1>8. /\ run[r].m = m /\ run[r].root = parent[m].window /\ run[r].root # NoWindow
      /\ parent[m].status \in Unfinished
      /\ parent[m].partition = [root |-> run[r].root, pending |-> run[r].pending]
      /\ run[r].now <= clock
      /\ \A n \in Mappings : parent[n].until <= run[r].now /\ parent[n].window.until <= run[r].now
  BY <1>1, <1>3 DEF RunInv, M
<1>9. CursorInv(m)'
  <2>1. key[1].until <= clock
    BY <1>2, <1>3, <1>8, Past
  <2>2. \A k \in DOMAIN child'[m] : k[1].until <= clock'
    BY <1>3, <1>5, <2>1 DEF CursorInv
  <2>3. QED
    BY <1>3, <2>2 DEF CursorInv, Inside
<1>10. RunInv(r)'
  <2>1. InHand(r)'
    BY <1>2, <1>3, <1>4, <1>5, <1>6, <1>7 DEF InHand, IsRoot, Key, Status, ChildAt, M
  <2>2. QED
    BY <1>3, <1>6, <1>7, <1>8, <2>1 DEF RunInv, Collecting
<1>11. \A n \in Mappings \ {m} : Same(n)
  BY <1>3, <1>5 DEF Same
<1>12. /\ DOMAIN parent' = Mappings /\ DOMAIN origin' = Mappings /\ clock' = clock
       /\ parent' = [n \in Mappings |-> parent'[n]] /\ origin' = [n \in Mappings |-> origin'[n]]
       /\ persisted' \in [Mappings -> SUBSET Articles] /\ verdict' \in [Runs -> Verdicts]
       /\ origin'[m] \in Ticks \cup {Never} /\ parent'[m] \in Parent
       /\ run' = [run EXCEPT ![r] = l]
  BY <1>3 DEF Typed
<1>13. QED
  BY <1>5, <1>6, <1>9, <1>10, <1>11, <1>12, Assemble

(* No child is left: the parent succeeds.                                   *)
LEMMA CompleteControl ==
  ASSUME OneProcess, ControlInv, NEW r \in Runs, CompletePartition(r)
  PROVE  ControlInv'
<1>1. PICK m \in Mappings : m = M(r)
  BY DEF ControlInv, CompletePartition, At, RunInv, M
<1> DEFINE row == [parent[m] EXCEPT !.status = "succeeded", !.next = 0, !.until = run[r].root.until]
           done == [run[r] EXCEPT !.succeeded = TRUE]
           l == AfterOutcome(done)
<1>2. /\ Typed /\ run[r] \in Locals /\ RunInv(r) /\ CursorInv(m) /\ run[r].pc = "child"
      /\ parent[m] \in Parent /\ parent' = [parent EXCEPT ![m] = row]
      /\ run' = [run EXCEPT ![r] = l]
      /\ UNCHANGED <<clock, child, persisted, origin, verdict>>
  BY <1>1 DEF ControlInv, Typed, CompletePartition, At, Set
<1>3. /\ run[r].m = m /\ run[r].root = parent[m].window /\ run[r].root # NoWindow
      /\ run[r].root \in Windows
      /\ run[r].now <= clock
      /\ \A n \in Mappings : parent[n].until <= run[r].now /\ parent[n].window.until <= run[r].now
  BY <1>1, <1>2 DEF RunInv, M, Locals
<1>4. done \in Locals /\ done.m \in Mappings /\ done.now = run[r].now
  BY <1>2, <1>3 DEF Locals
<1> HIDE DEF done
<1>5. /\ l \in Locals /\ l.pc \in {"finish", "mapping"} /\ l.now = run[r].now
      /\ l.pc = "mapping" => l.m \in Mappings
  BY <1>4, AfterOutcomeFacts
<1> HIDE DEF l
<1>6. /\ row \in Parent /\ row.status = "succeeded" /\ row.window = parent[m].window
      /\ row.until = parent[m].window.until /\ row.partition = parent[m].partition
  BY <1>2, <1>3, WindowFacts DEF Parent, CursorStatuses
<1> HIDE DEF row
<1>7. parent'[m] = row /\ run'[r] = l
  BY <1>2 DEF Typed
<1>8. CursorInv(m)'
  BY <1>2, <1>3, <1>6, <1>7 DEF CursorInv
<1>9. \A n \in Mappings \ {m} : Same(n)
  BY <1>2 DEF Same, Typed
<1>10. RunInv(r)'
  <2>1. Behind(l)
    BY <1>3, <1>5, <1>6, <1>7, <1>9 DEF Behind, Same
  <2>2. QED
    BY <1>2, <1>3, <1>5, <1>7, <2>1, Leaving
<1>11. /\ DOMAIN parent' = Mappings /\ DOMAIN child' = Mappings /\ DOMAIN origin' = Mappings
       /\ parent' = [n \in Mappings |-> parent'[n]] /\ origin' = [n \in Mappings |-> origin'[n]]
       /\ persisted' \in [Mappings -> SUBSET Articles] /\ verdict' \in [Runs -> Verdicts]
       /\ origin'[m] \in Ticks \cup {Never} /\ clock' = clock
       /\ DOMAIN child'[m] \subseteq Windows \X Windows
       /\ \A k \in DOMAIN child'[m] : child'[m][k] \in Child
  BY <1>2 DEF Typed
<1>12. QED
  BY <1>2, <1>5, <1>6, <1>7, <1>8, <1>9, <1>10, <1>11, Assemble

-----------------------------------------------------------------------------
(* The steps: pages *)

(* The cursor of a window is saved; the run keeps the window in hand.       *)
LEMMA SaveControl ==
  ASSUME OneProcess, ControlInv, NEW r \in Runs, run[r].pc \in {"page", "waiting"},
         NEW status \in CursorStatuses, NEW next \in Nat, Save(r, status, next),
         UNCHANGED <<clock, origin, verdict>>, persisted' \in [Mappings -> SUBSET Articles],
         NEW l \in Locals, run' = [run EXCEPT ![r] = l],
         l.m = run[r].m, l.now = run[r].now, l.root = run[r].root,
         l.target = run[r].target, l.pending = run[r].pending,
         \/ l.pc = "page" /\ status = "running"
         \/ /\ l.pc = "outcome"
            /\ l.outcome \in {"succeeded", "partial", "split"}
            /\ status = IF l.outcome = "succeeded" THEN "succeeded" ELSE "partial"
            /\ l.outcome = "split" => l.halves = split_window(l.target) /\ l.halves # <<>>
  PROVE  ControlInv'
<1>1. PICK m \in Mappings : m = M(r)
  BY DEF ControlInv, RunInv, M
<1>2. /\ Typed /\ run[r] \in Locals /\ RunInv(r) /\ CursorInv(m) /\ parent[m] \in Parent
      /\ run[r].m = m /\ run[r].root = parent[m].window /\ run[r].root \in Windows
      /\ run[r].target \in Windows /\ InHand(r) /\ run[r].root # NoWindow
      /\ run[r].now <= clock
      /\ \A n \in Mappings : parent[n].until <= run[r].now /\ parent[n].window.until <= run[r].now
  BY <1>1, HandFacts, WindowFacts DEF ControlInv, Typed, RunInv, Collecting, M
<1>3. run'[r] = l /\ status \in {"running", "partial", "succeeded"}
  BY <1>2 DEF Typed
<1>4. /\ DOMAIN origin' = Mappings /\ origin' = [n \in Mappings |-> origin'[n]]
      /\ verdict' \in [Runs -> Verdicts] /\ origin'[m] \in Ticks \cup {Never}
      /\ clock' = clock
  BY <1>2 DEF Typed
<1>5. CASE IsRoot(r)
  <2> DEFINE row == [parent[m] EXCEPT !.status = status, !.next = next,
                       !.until = IF status = "succeeded" THEN run[r].root.until
                                 ELSE parent[m].until]
  <2>1. parent' = [parent EXCEPT ![m] = row] /\ child' = child
    BY <1>1, <1>5 DEF Save
  <2>2. /\ row \in Parent /\ row.status = status /\ row.window = run[r].root
        /\ row.until = IF status = "succeeded" THEN run[r].root.until ELSE parent[m].until
        /\ row.partition = parent[m].partition /\ row.next = next
    BY <1>2, WindowFacts DEF Parent
  <2> HIDE DEF row
  <2>3. parent'[m] = row
    BY <1>2, <2>1 DEF Typed
  <2>4. parent[m].status = "running" /\ parent[m].partition.root # run[r].root
    BY <1>2, <1>5 DEF InHand, Status, IsRoot, M
  <2>5. CursorInv(m)'
    <3>1. row.partition.root = NoWindow
      BY <1>2, <2>2, <2>4 DEF CursorInv
    <3>2. \A k \in DOMAIN child'[m] : k[1].until <= clock'
      BY <1>2, <1>4, <2>1 DEF CursorInv
    <3>3. /\ run[r].root.until \in 0..clock
          /\ row.until = Never \/ row.until \in 0..clock
          /\ status # "succeeded" =>
               run[r].root.from = IF row.until = Never THEN origin'[m] ELSE row.until - Overlap
      BY <1>2, <2>2, <2>4 DEF CursorInv
    <3>4. QED
      BY <1>2, <1>3, <1>4, <2>2, <2>3, <3>1, <3>2, <3>3 DEF CursorInv
  <2>6. \A n \in Mappings \ {m} : Same(n)
    BY <1>2, <2>1 DEF Same, Typed
  <2>7. RunInv(r)'
    <3>1. \A n \in Mappings : parent'[n].until <= l.now /\ parent'[n].window.until <= l.now
      BY <1>2, <2>2, <2>3, <2>6 DEF Same
    <3>2. IsRoot(r)' /\ Status(r)' = status
      BY <1>2, <1>3, <1>5, <2>2, <2>3 DEF IsRoot, Status, M
    <3>3. InHand(r)'
      BY <1>2, <1>3, <2>2, <2>3, <2>4, <3>2 DEF InHand
    <3>4. QED
      BY <1>2, <1>3, <1>4, <2>2, <2>3, <3>1, <3>2, <3>3 DEF RunInv, Collecting
  <2>8. /\ DOMAIN parent' = Mappings /\ DOMAIN child' = Mappings
        /\ parent' = [n \in Mappings |-> parent'[n]]
        /\ DOMAIN child'[m] \subseteq Windows \X Windows
        /\ \A k \in DOMAIN child'[m] : child'[m][k] \in Child
    BY <1>2, <2>1 DEF Typed
  <2>9. QED
    BY <1>4, <2>2, <2>3, <2>5, <2>6, <2>7, <2>8, Assemble
<1>6. CASE ~IsRoot(r)
  <2> DEFINE row == [status |-> status, next |-> next]
  <2>1. PICK key \in Windows \X Windows : key = Key(r) /\ key = <<run[r].root, run[r].target>>
    BY <1>2 DEF Key
  <2>2. parent' = parent /\ child' = PutChild(m, key, row)
    BY <1>1, <1>6, <2>1 DEF Save
  <2>3. row \in Child /\ row.status = status
    BY DEF Child
  <2> HIDE DEF row
  <2>4. /\ DOMAIN child' = Mappings
        /\ \A n \in Mappings \ {m} : child'[n] = child[n]
        /\ DOMAIN child'[m] = DOMAIN child[m] \cup {key}
        /\ DOMAIN child'[m] \subseteq Windows \X Windows
        /\ \A k \in DOMAIN child'[m] : child'[m][k] \in Child
        /\ child'[m][key] = row
    BY <1>2, <2>2, <2>3, PutFacts
  <2>5. CursorInv(m)'
    <3>1. \A k \in DOMAIN child'[m] : k[1].until <= clock'
      BY <1>1, <1>2, <1>4, <2>1, <2>4, Past DEF CursorInv
    <3>2. QED
      BY <1>2, <1>4, <2>2, <3>1 DEF CursorInv, Inside
  <2>6. \A n \in Mappings \ {m} : Same(n)
    BY <1>2, <2>2, <2>4 DEF Same, Typed
  <2>7. RunInv(r)'
    <3>1. ~IsRoot(r)' /\ Status(r)' = status /\ Key(r)' = key
      BY <1>2, <1>3, <1>6, <2>1, <2>3, <2>4 DEF IsRoot, Status, M, Key, ChildAt
    <3>2. InHand(r)'
      BY <1>2, <1>3, <1>6, <2>1, <2>4, <3>1 DEF InHand
    <3>3. QED
      BY <1>2, <1>3, <1>4, <1>6, <2>2, <3>1, <3>2 DEF RunInv, Collecting
  <2>8. DOMAIN parent' = Mappings /\ parent' = [n \in Mappings |-> parent'[n]] /\ parent'[m] \in Parent
    BY <1>2, <2>2 DEF Typed
  <2>9. QED
    BY <1>4, <2>4, <2>5, <2>6, <2>7, <2>8, Assemble
<1>7. QED
  BY <1>5, <1>6

(* A window that raises fails, and its parent with it.                      *)
LEMMA FailControl ==
  ASSUME OneProcess, ControlInv, NEW r \in Runs, WindowFails(r) \/ Forbidden(r)
  PROVE  ControlInv'
<1>1. PICK m \in Mappings : m = M(r)
  BY DEF ControlInv, WindowFails, Forbidden, At, RunInv, M, Collecting
<1>2. /\ run[r].pc = "waiting" /\ FailChild(r)
      /\ parent' = [parent EXCEPT ![m].status = "failed"]
      /\ UNCHANGED <<clock, persisted, origin, verdict>>
  BY <1>1 DEF WindowFails, Forbidden, FailCursors, At
<1>3. /\ Typed /\ run[r] \in Locals /\ RunInv(r) /\ CursorInv(m) /\ parent[m] \in Parent
      /\ run[r].m = m /\ run[r].root = parent[m].window /\ run[r].root \in Windows
      /\ run[r].target \in Windows /\ InHand(r) /\ run[r].root # NoWindow
      /\ ~IsRoot(r) => parent[m].status \in Unfinished
      /\ run[r].now <= clock
      /\ \A n \in Mappings : parent[n].until <= run[r].now /\ parent[n].window.until <= run[r].now
  BY <1>1, <1>2, HandFacts, WindowFacts DEF ControlInv, Typed, RunInv, Collecting, M
<1>4. PICK l \in Locals :
        /\ run' = [run EXCEPT ![r] = l] /\ l.pc \in {"finish", "mapping"} /\ l.now = run[r].now
        /\ l.pc = "mapping" => l.m \in Mappings
  <2>1. CASE WindowFails(r)
    <3> DEFINE done == [run[r] EXCEPT !.errors = TRUE]
    <3>1. done \in Locals /\ done.m \in Mappings /\ done.now = run[r].now
      BY <1>3 DEF Locals
    <3>2. run' = [run EXCEPT ![r] = Advance(done)]
      BY <2>1 DEF WindowFails, Set
    <3> HIDE DEF done
    <3>3. QED
      BY <3>1, <3>2, AdvanceFacts
  <2>2. CASE Forbidden(r)
    <3> DEFINE l == [run[r] EXCEPT !.pc = "finish", !.errors = TRUE]
    <3>1. l \in Locals /\ l.pc = "finish" /\ l.now = run[r].now
      BY <1>3 DEF Locals, Labels
    <3>2. QED
      BY <2>2, <3>1 DEF Forbidden, Set
  <2>3. QED
    BY <2>1, <2>2
<1>5. parent[m].status # "succeeded"
  BY <1>2, <1>3 DEF InHand, Status, Unfinished, M
<1>6. /\ parent'[m] \in Parent /\ parent'[m].status = "failed"
      /\ parent'[m].window = parent[m].window /\ parent'[m].until = parent[m].until
      /\ parent'[m].partition = parent[m].partition
      /\ parent'[m].next = parent[m].next
      /\ DOMAIN parent' = Mappings /\ parent' = [n \in Mappings |-> parent'[n]]
      /\ \A n \in Mappings \ {m} : parent'[n] = parent[n]
  BY <1>2, <1>3 DEF Typed, Parent, CursorStatuses
<1>7. /\ DOMAIN child' = Mappings
      /\ \A n \in Mappings \ {m} : child'[n] = child[n]
      /\ DOMAIN child'[m] \subseteq DOMAIN child[m] \cup {Key(r)}
      /\ DOMAIN child'[m] \subseteq Windows \X Windows
      /\ \A k \in DOMAIN child'[m] : child'[m][k] \in Child
  <2>1. CASE IsRoot(r)
    BY <1>2, <1>3, <2>1 DEF FailChild, Typed
  <2>2. CASE ~IsRoot(r)
    <3> DEFINE row == [ChildAt(m, Key(r)) EXCEPT !.status = "failed"]
    <3>1. Key(r) \in Windows \X Windows
      BY <1>3 DEF Key
    <3>2. row \in Child
      BY <1>3 DEF Typed, ChildAt, Child, NewChild, CursorStatuses
    <3>3. child' = PutChild(m, Key(r), row)
      BY <1>1, <1>2, <2>2 DEF FailChild
    <3> HIDE DEF row
    <3>4. QED
      BY <1>3, <3>1, <3>2, <3>3, PutFacts
  <2>3. QED
    BY <2>1, <2>2
<1>8. CursorInv(m)'
  <2>1. Key(r)[1].until <= clock
    BY <1>1, <1>3, Past DEF Key
  <2>2. \A k \in DOMAIN child'[m] : k[1].until <= clock'
    BY <1>2, <1>3, <1>7, <2>1 DEF CursorInv
  <2>3. QED
    BY <1>2, <1>3, <1>5, <1>6, <2>2 DEF CursorInv, Inside
<1>9. \A n \in Mappings \ {m} : Same(n)
  BY <1>2, <1>6, <1>7 DEF Same
<1>10. RunInv(r)'
  <2>1. Behind(l)
    BY <1>3, <1>4, <1>6, <1>9 DEF Behind, Same
  <2>2. run'[r] = l /\ l.now <= clock'
    BY <1>2, <1>3, <1>4 DEF Typed
  <2>3. QED
    BY <1>4, <2>1, <2>2, Leaving
<1>11. /\ DOMAIN origin' = Mappings /\ origin' = [n \in Mappings |-> origin'[n]]
       /\ persisted' \in [Mappings -> SUBSET Articles] /\ verdict' \in [Runs -> Verdicts]
       /\ origin'[m] \in Ticks \cup {Never} /\ clock' = clock
  BY <1>2, <1>3 DEF Typed
<1>12. QED
  BY <1>4, <1>6, <1>7, <1>8, <1>9, <1>10, <1>11, Assemble

(* The locals of a run whose window ends, or goes on with its next page.    *)
LEMMA HandLocals ==
  ASSUME NEW r \in Runs, run[r] \in Locals,
         NEW pc \in {"outcome", "page"}, NEW outcome \in Outcomes,
         NEW halves \in Seq(Windows), NEW safety \in BOOLEAN
  PROVE  LET l == [run[r] EXCEPT !.pc = pc, !.outcome = outcome, !.halves = halves,
                                 !.safety = safety] IN
         /\ l \in Locals /\ l.pc = pc /\ l.outcome = outcome /\ l.halves = halves
         /\ l.m = run[r].m /\ l.now = run[r].now /\ l.root = run[r].root
         /\ l.target = run[r].target /\ l.pending = run[r].pending
<1>1. pc \in Labels
  BY DEF Labels
<1>2. QED
  BY <1>1 DEF Locals

LEMMA PauseControl ==
  ASSUME OneProcess, ControlInv, NEW r \in Runs, run[r].pc \in {"page", "waiting"}, Pause(r),
         UNCHANGED <<clock, persisted, origin, verdict>>
  PROVE  ControlInv'
<1>1. /\ run[r] \in Locals /\ NextStart(r) \in Nat /\ persisted' \in [Mappings -> SUBSET Articles]
  BY HandFacts DEF Collecting, ControlInv, Typed
<1>2. Save(r, "partial", NextStart(r)) /\ "partial" \in CursorStatuses
  BY DEF Pause, CursorStatuses
<1> DEFINE l == [run[r] EXCEPT !.pc = "outcome", !.outcome = "partial", !.safety = TRUE]
<1>3. run' = [run EXCEPT ![r] = l]
  BY <1>1 DEF Pause, EndWindow, Set, Locals
<1>4. /\ l \in Locals /\ l.pc = "outcome" /\ l.outcome = "partial"
      /\ l.m = run[r].m /\ l.now = run[r].now /\ l.root = run[r].root
      /\ l.target = run[r].target /\ l.pending = run[r].pending
  BY <1>1 DEF Locals, Labels, Outcomes
<1> HIDE DEF l
<1>5. UNCHANGED <<clock, origin, verdict>>
  OBVIOUS
<1>6. PICK next \in Nat : next = NextStart(r)
  BY <1>1
<1>7. QED
  BY <1>1, <1>2, <1>3, <1>4, <1>5, <1>6, SaveControl

LEMMA SplitControl ==
  ASSUME OneProcess, ControlInv, NEW r \in Runs, SplitWindow(r)
  PROVE  ControlInv'
<1>1. /\ run[r].pc = "waiting" /\ UNCHANGED <<clock, persisted, origin, verdict>>
  BY DEF SplitWindow, At
<1>2. /\ run[r] \in Locals /\ NextStart(r) \in Nat /\ persisted' \in [Mappings -> SUBSET Articles]
      /\ run[r].target \in Windows /\ run[r].root \in Windows
      /\ run[r].target = run[r].root \/ Inside(run[r].target, run[r].root)
  BY <1>1, HandFacts DEF Collecting, ControlInv, Typed, IsRoot
<1>3. CASE split_window(run[r].target) = <<>>
  BY <1>1, <1>3, PauseControl DEF SplitWindow
<1>4. CASE split_window(run[r].target) # <<>>
  <2>1. PICK halves \in Seq(Windows) : halves = split_window(run[r].target) /\ halves # <<>>
    BY <1>2, <1>4, HalvesQueued
  <2> DEFINE l == [run[r] EXCEPT !.pc = "outcome", !.outcome = "split", !.halves = halves]
  <2>2. Save(r, "partial", NextStart(r)) /\ "partial" \in CursorStatuses
        /\ run' = [run EXCEPT ![r] = l]
    BY <1>4, <2>1 DEF SplitWindow, Set, CursorStatuses
  <2>3. /\ l \in Locals /\ l.pc = "outcome" /\ l.outcome = "split"
        /\ l.m = run[r].m /\ l.now = run[r].now /\ l.root = run[r].root
        /\ l.target = run[r].target /\ l.pending = run[r].pending
        /\ l.halves = split_window(l.target) /\ l.halves # <<>>
    BY <1>2, <2>1 DEF Locals, Labels, Outcomes
  <2> HIDE DEF l
  <2>4. PICK next \in Nat : next = NextStart(r)
    BY <1>2
  <2>5. UNCHANGED <<clock, origin, verdict>>
    BY <1>1
  <2>6. QED
    BY <1>1, <1>2, <2>2, <2>3, <2>4, <2>5, SaveControl
<1>5. QED
  BY <1>3, <1>4

(* A page was persisted: the window ends, or goes on.                       *)
LEMMA PersistControl ==
  ASSUME OneProcess, ControlInv, NEW r \in Runs, run[r].pc = "waiting",
         NEW page \in SUBSET Articles, NEW next \in Nat, PersistPage(r, page, next),
         UNCHANGED <<clock, origin, verdict>>
  PROVE  ControlInv'
<1>1. /\ run[r] \in Locals /\ Status(r) = "running"
      /\ persisted' \in [Mappings -> SUBSET Articles]
  <2>1. run[r] \in Locals /\ InHand(r)
    BY HandFacts DEF Collecting
  <2>2. Status(r) = "running"
    BY <2>1 DEF InHand
  <2>3. persisted' \in [Mappings -> SUBSET Articles]
    BY DEF PersistPage, persist_feed, ControlInv, Typed
  <2>4. QED
    BY <2>1, <2>2, <2>3
<1>2. CASE next >= Cardinality(Found(run[r].target))
  <2> DEFINE l == [run[r] EXCEPT !.pc = "outcome", !.outcome = "succeeded",
                                 !.safety = @ \/ "succeeded" = "partial"]
  <2>1. Save(r, "succeeded", next) /\ run' = [run EXCEPT ![r] = l]
        /\ "succeeded" \in CursorStatuses
    BY <1>2 DEF PersistPage, EndWindow, Set, CursorStatuses
  <2>2. /\ l \in Locals /\ l.pc = "outcome" /\ l.outcome = "succeeded"
        /\ l.m = run[r].m /\ l.now = run[r].now /\ l.root = run[r].root
        /\ l.target = run[r].target /\ l.pending = run[r].pending
    BY <1>1 DEF Locals, Labels, Outcomes
  <2> HIDE DEF l
  <2>3. QED
    BY <1>1, <2>1, <2>2, SaveControl
<1>3. CASE ~(next >= Cardinality(Found(run[r].target)))
  <2> DEFINE l == [run[r] EXCEPT !.pc = "page"]
  <2>1. Save(r, "running", next) /\ run' = [run EXCEPT ![r] = l]
        /\ "running" \in CursorStatuses
    BY <1>1, <1>3 DEF PersistPage, Set, CursorStatuses
  <2>2. /\ l \in Locals /\ l.pc = "page"
        /\ l.m = run[r].m /\ l.now = run[r].now /\ l.root = run[r].root
        /\ l.target = run[r].target /\ l.pending = run[r].pending
    BY <1>1 DEF Locals, Labels
  <2> HIDE DEF l
  <2>3. QED
    BY <1>1, <2>1, <2>2, SaveControl
<1>4. QED
  BY <1>2, <1>3

(* What a received page is: some articles, a next start, a persisted page.  *)
LEMMA Received ==
  ASSUME ControlInv, NEW r \in Runs, ReceivePage(r)
  PROVE  /\ run[r].pc = "waiting" /\ UNCHANGED <<clock, origin, verdict>>
         /\ \E size \in 1..PageSize :
              LET page == Page(Found(run[r].target), run[r].start, size) IN
              /\ run[r].start + size \in Nat
              /\ page \in SUBSET Articles
              /\ \/ PersistPage(r, page, run[r].start + size)
                 \/ /\ "short_page" \in Faults
                    /\ \E some \in SUBSET page : PersistPage(r, some, run[r].start + size)
<1>1. run[r].pc = "waiting" /\ UNCHANGED <<clock, origin, verdict>>
  BY DEF ReceivePage, At
<1>2. run[r].start \in Nat
  BY DEF ControlInv, Typed, Locals
<1>3. PICK size \in 1..PageSize :
        LET page == Page(Found(run[r].target), run[r].start, size) IN
        \/ PersistPage(r, page, run[r].start + size)
        \/ /\ "short_page" \in Faults
           /\ \E some \in SUBSET page : PersistPage(r, some, run[r].start + size)
  BY DEF ReceivePage, Inject
<1>4. Page(Found(run[r].target), run[r].start, size) \in SUBSET Articles
  BY DEF Page, Found, Matching
<1>5. run[r].start + size \in Nat
  BY <1>2, SettingsAssumption
<1>6. QED
  BY <1>1, <1>3, <1>4, <1>5

LEMMA ReceiveControl ==
  ASSUME OneProcess, ControlInv, NEW r \in Runs, ReceivePage(r)
  PROVE  ControlInv'
<1>1. PICK page \in SUBSET Articles, next \in Nat : PersistPage(r, page, next)
  BY Received
<1>2. QED
  BY <1>1, Received, PersistControl

LEMMA EmptyControl ==
  ASSUME OneProcess, ControlInv, NEW r \in Runs, ReceiveEmpty(r)
  PROVE  ControlInv'
<1>1. run[r].pc = "waiting" /\ UNCHANGED <<clock, origin, verdict>>
  BY DEF ReceiveEmpty, At
<1>2. CASE PersistPage(r, {}, Cardinality(Found(run[r].target)))
  <2>1. PICK total \in Nat : total = Cardinality(Found(run[r].target))
    <3>1. Found(run[r].target) \in SUBSET Articles
      BY DEF Found, Matching
    <3>2. QED
      BY <3>1, PositionBound
  <2>2. QED
    BY <1>1, <1>2, <2>1, PersistControl
<1>3. CASE Pause(r) /\ UNCHANGED persisted
  BY <1>1, <1>3, PauseControl
<1>4. QED
  BY <1>2, <1>3 DEF ReceiveEmpty

-----------------------------------------------------------------------------
(* The invariant *)

LEMMA TickControl ==
  ASSUME ControlInv, Tick
  PROVE  ControlInv'
<1>1. Typed /\ clock' = clock + 1 /\ clock < MaxClock /\ clock \in 0..MaxClock /\ MaxClock \in Nat
      /\ UNCHANGED <<parent, child, persisted, origin, run, verdict>>
  BY BoundAssumption DEF ControlInv, Typed, Tick
<1>2. clock' \in 0..MaxClock /\ clock' \in Nat /\ clock <= clock'
  BY <1>1
<1>3. Typed'
  BY <1>1, <1>2 DEF Typed
<1>4. ASSUME NEW m \in Mappings
      PROVE  CursorInv(m)'
  BY <1>1, <1>2, SameCursor DEF Same
<1>5. ASSUME NEW r \in Runs
      PROVE  RunInv(r)'
  <2>1. RunInv(r) /\ run[r] \in Locals
    BY <1>1 DEF ControlInv, Typed
  <2>2. InHand(r) => InHand(r)'
    BY <1>1 DEF InHand, IsRoot, Key, Status, ChildAt, NextStart, M
  <2>3. run[r].now <= clock => run[r].now <= clock'
    BY <1>1, <2>1 DEF Locals
  <2>4. QED
    BY <1>1, <2>1, <2>2, <2>3 DEF RunInv, IsRoot
<1>6. QED
  BY <1>3, <1>4, <1>5 DEF ControlInv

LEMMA InitControl == Init => ControlInv
<1> SUFFICES ASSUME Init PROVE ControlInv
  OBVIOUS
<1>1. MappingCount \in Nat \ {0} /\ MaxRequests \in Nat /\ MaxClock \in Nat
  BY SettingsAssumption, BoundAssumption
<1>2. 1 \in 1..(MappingCount + 1) /\ 0 \in 0..MaxRequests /\ <<>> \in Seq(Windows)
      /\ 0 \in 0..MaxClock
  BY <1>1
<1>3. Idle \in Locals /\ Idle.pc = "idle"
  BY <1>2 DEF Idle, Locals, Labels, Outcomes
<1>4. NewParent \in Parent
  BY <1>2 DEF NewParent, Parent, NoPartition, Partition, CursorStatuses
<1>5. Typed
  <2>1. parent \in [Mappings -> Parent]
    BY <1>4 DEF Init
  <2>2. \A m \in Mappings : DOMAIN child[m] = {}
    BY DEF Init
  <2>3. run \in [Runs -> Locals]
    BY <1>3 DEF Init
  <2>4. QED
    BY <1>2, <2>1, <2>2, <2>3 DEF Init, Typed, Verdicts
<1>6. \A m \in Mappings : CursorInv(m)
  BY <1>1 DEF Init, CursorInv, NewParent, NoPartition, NoWindow
<1>7. \A r \in Runs : RunInv(r)
  BY <1>3 DEF Init, RunInv, Collecting
<1>8. QED
  BY <1>5, <1>6, <1>7 DEF ControlInv

LEMMA ControlStep == ASSUME OneProcess PROVE ControlInv /\ [Next]_vars => ControlInv'
<1> SUFFICES ASSUME ControlInv, [Next]_vars PROVE ControlInv'
  OBVIOUS
<1>1. CASE Tick
  BY <1>1, TickControl
<1>2. ASSUME NEW r \in Runs, StartRun(r) \/ Collect(r) \/ Fails(r)
      PROVE  ControlInv'
  <2>1. CASE StartRun(r)
    BY <2>1, StartControl
  <2>2. CASE ResumePartition(r)
    BY <2>2, ResumeControl
  <2>3. CASE OpenRoot(r)
    BY <2>3, OpenRootControl
  <2>4. CASE SkipChild(r)
    BY <2>4, SkipControl
  <2>5. CASE OpenChild(r)
    BY <2>5, OpenChildControl
  <2>6. CASE CompletePartition(r)
    BY <2>6, CompleteControl
  <2>7. CASE LimitReached(r)
    BY <2>7, PauseControl DEF LimitReached, At
  <2>8. CASE Send(r) \/ Retry(r)
    BY <2>8, SendControl
  <2>9. CASE SplitWindow(r)
    BY <2>9, SplitControl
  <2>10. CASE ReceivePage(r)
    BY <2>10, ReceiveControl
  <2>11. CASE ReceiveEmpty(r)
    BY <2>11, EmptyControl
  <2>12. CASE RootOutcome(r)
    BY <2>12, RootControl, SplitRootControl
  <2>13. CASE ChildOutcome(r)
    BY <2>13, ChildControl
  <2>14. CASE RunTooSlow(r) \/ FinishRun(r) \/ Crash(r)
    BY <2>14, EndControl
  <2>15. CASE WindowFails(r) \/ Forbidden(r)
    BY <2>15, FailControl
  <2>16. QED
    BY <1>2, <2>1, <2>2, <2>3, <2>4, <2>5, <2>6, <2>7, <2>8, <2>9, <2>10, <2>11, <2>12,
       <2>13, <2>14, <2>15 DEF Collect, Fails
<1>3. CASE UNCHANGED vars
  <2>1. \A m \in Mappings : CursorInv(m)'
    BY <1>3, SameCursor DEF vars, Same, ControlInv, Typed
  <2>2. \A r \in Runs : RunInv(r)'
    BY <1>3 DEF vars, ControlInv, RunInv, InHand, IsRoot, Key, Status, ChildAt, NextStart, M
  <2>3. Typed'
    BY <1>3 DEF vars, ControlInv, Typed
  <2>4. QED
    BY <2>1, <2>2, <2>3 DEF ControlInv
<1>4. QED
  BY <1>1, <1>2, <1>3 DEF Next

LEMMA ControlAlways == ASSUME OneProcess PROVE Spec => []ControlInv
  BY InitControl, ControlStep, PTL DEF Spec

(* Cursors, partitions and matches keep their types: a cursor's window is   *)
(* a proper interval of the calendar, however often it is split.            *)
THEOREM TypeCorrect == ASSUME OneProcess PROVE Spec => []TypeOK
<1>1. ControlInv => TypeOK
  <2> SUFFICES ASSUME ControlInv PROVE TypeOK
    OBVIOUS
  <2>1. Typed
    BY DEF ControlInv
  <2>2. ASSUME NEW m \in Mappings
        PROVE  /\ parent[m] \in Parent
               /\ \A i \in DOMAIN parent[m].partition.pending :
                    parent[m].partition.pending[i] \in Windows
    <3>1. parent[m] \in Parent
      BY <2>1 DEF Typed
    <3>2. parent[m].partition.pending \in Seq(Windows)
      BY <3>1 DEF Parent, Partition
    <3>3. QED
      BY <3>1, <3>2
  <2>3. QED
    BY <2>1, <2>2 DEF TypeOK, Typed, Parent
<1>2. QED
  BY <1>1, ControlAlways, PTL

-----------------------------------------------------------------------------
(* What the steps do to the cursors: nothing, or one of five changes       *)

(* Steps that change no cursor and no row.                                 *)
QuietStep(r) ==
  \/ StartRun(r) \/ RunTooSlow(r) \/ ResumePartition(r) \/ Send(r) \/ Retry(r)
  \/ FinishRun(r) \/ Crash(r) \/ (RootOutcome(r) /\ run[r].outcome # "split")

LEMMA Quiet ==
  ASSUME NEW r \in Runs, QuietStep(r)
  PROVE  UNCHANGED <<clock, parent, child, persisted, origin>>
  BY DEF QuietStep, StartRun, RunTooSlow, ResumePartition, Send, Retry, FinishRun, Crash, RootOutcome

(* The parent of mapping m is checkpointed with a new queue.                *)
Repartitions(m, queue) ==
  /\ parent[m] \in Parent /\ parent[m].status \in Unfinished /\ parent[m].window \in Windows
  /\ UNCHANGED <<clock, child, persisted, origin>>
  /\ \A n \in Mappings \ {m} : parent'[n] = parent[n]
  /\ parent'[m].status = "partial" /\ parent'[m].window = parent[m].window
  /\ parent'[m].next = parent[m].next /\ parent'[m].until = parent[m].until
  /\ parent'[m].partition = [root |-> parent[m].window, pending |-> queue]

(* The head of the queue is left where it is, struck off, or replaced by    *)
(* its halves.                                                              *)
Requeues(m, w, queue) ==
  LET pending == parent[m].partition.pending
      key == <<parent[m].window, w>> IN
  /\ parent[m].partition.root = parent[m].window
  /\ pending \in Seq(Windows) /\ pending # <<>> /\ w = Head(pending) /\ w \in Windows
  /\ \/ queue = pending
     \/ /\ queue = Tail(pending)
        /\ key \in DOMAIN child[m] /\ child[m][key].status = "succeeded"
     \/ split_window(w) # <<>> /\ queue = split_window(w) \o Tail(pending)

LEMMA SavedPartition ==
  ASSUME Typed, NEW r \in Runs, NEW m \in Mappings, m = M(r),
         run[r].root = parent[m].window, parent[m].window \in Windows,
         parent[m].status \in Unfinished, NEW queue, SavePartition(r, queue),
         UNCHANGED <<clock, child, persisted, origin>>
  PROVE  Repartitions(m, queue)
<1> DEFINE row == [parent[m] EXCEPT !.status = "partial",
                      !.partition = [root |-> run[r].root, pending |-> queue]]
<1>1. parent' = [parent EXCEPT ![m] = row] /\ parent[m] \in Parent /\ parent \in [Mappings -> Parent]
  BY DEF SavePartition, Typed
<1>2. /\ row.status = "partial" /\ row.window = parent[m].window
      /\ row.next = parent[m].next /\ row.until = parent[m].until
      /\ row.partition = [root |-> parent[m].window, pending |-> queue]
  BY <1>1 DEF Parent
<1> HIDE DEF row
<1>3. QED
  BY <1>1, <1>2 DEF Repartitions

LEMMA Requeued ==
  ASSUME ControlInv, NEW r \in Runs, NEW m \in Mappings, m = M(r),
         SkipChild(r) \/ ChildOutcome(r)
  PROVE  \E w, queue : Repartitions(m, queue) /\ Requeues(m, w, queue)
<1> DEFINE pending == run[r].pending
           w == Head(pending)
           key == <<parent[m].window, w>>
<1>1. /\ Typed /\ run[r] \in Locals /\ RunInv(r) /\ run[r].m = m /\ CursorInv(m)
      /\ parent[m] \in Parent /\ UNCHANGED <<clock, child, persisted, origin>>
  BY DEF ControlInv, Typed, M, SkipChild, ChildOutcome
<1>2. /\ run[r].root = parent[m].window /\ run[r].root \in Windows
      /\ parent[m].status \in Unfinished
      /\ parent[m].partition = [root |-> run[r].root, pending |-> pending]
      /\ pending \in Seq(Windows)
  BY <1>1 DEF RunInv, SkipChild, ChildOutcome, At, Locals, Collecting
<1>6. parent[m].partition.pending = pending /\ parent[m].partition.root = parent[m].window
  BY <1>2
<1>3. CASE SkipChild(r)
  <2>1. pending # <<>> /\ ChildDone(r, w) /\ SavePartition(r, Tail(pending))
    BY <1>3 DEF SkipChild
  <2>2. key \in DOMAIN child[m] /\ child[m][key].status = "succeeded"
    BY <1>2, <2>1 DEF ChildDone, ChildAt, NewChild
  <2>3. w \in Windows
    BY <1>2, <2>1
  <2>4. Repartitions(m, Tail(pending))
    BY <1>1, <1>2, <2>1, SavedPartition
  <2>5. Requeues(m, w, Tail(pending))
    <3> HIDE DEF pending
    <3>1. w = Head(parent[m].partition.pending) /\ Tail(pending) = Tail(parent[m].partition.pending)
      BY <1>6
    <3> HIDE DEF w
    <3>2. QED
      BY <1>2, <1>6, <2>1, <2>2, <2>3, <3>1 DEF Requeues
  <2>6. QED
    BY <2>4, <2>5
<1>4. CASE ChildOutcome(r)
  <2>1. run[r].pc = "outcome" /\ ~IsRoot(r)
    BY <1>4 DEF ChildOutcome, At
  <2>2. /\ InHand(r) /\ run[r].target = w /\ pending # <<>> /\ Key(r) \in DOMAIN child[m]
        /\ w \in Windows
    BY <2>1, HandFacts DEF Collecting
  <2>3. /\ run[r].outcome \in {"split", "succeeded", "partial"}
        /\ run[r].outcome = "split" => run[r].halves = split_window(w) /\ split_window(w) # <<>>
        /\ run[r].outcome = "succeeded" => child[m][Key(r)].status = "succeeded"
    BY <1>1, <2>1, <2>2 DEF InHand, Locals, Outcomes, Status, ChildAt, M
  <2>4. Key(r) = key
    BY <1>2, <2>2 DEF Key
  <2>5. CASE run[r].outcome = "split"
    <3>1. SavePartition(r, split_window(w) \o Tail(pending))
      BY <1>4, <2>3, <2>5 DEF ChildOutcome, requeue
    <3>2. Repartitions(m, split_window(w) \o Tail(pending))
      BY <1>1, <1>2, <3>1, SavedPartition
    <3>3. Requeues(m, w, split_window(w) \o Tail(pending))
      <4> HIDE DEF pending
      <4>1. w = Head(parent[m].partition.pending) /\ Tail(pending) = Tail(parent[m].partition.pending)
        BY <1>6
      <4> HIDE DEF w
      <4>2. QED
        BY <1>2, <1>6, <2>2, <2>3, <2>5, <4>1 DEF Requeues
    <3>4. QED
      BY <3>2, <3>3
  <2>6. CASE run[r].outcome = "succeeded"
    <3>1. SavePartition(r, Tail(pending))
      BY <1>4, <2>6 DEF ChildOutcome
    <3>2. Repartitions(m, Tail(pending))
      BY <1>1, <1>2, <3>1, SavedPartition
    <3>3. Requeues(m, w, Tail(pending))
      <4> HIDE DEF pending
      <4>1. w = Head(parent[m].partition.pending) /\ Tail(pending) = Tail(parent[m].partition.pending)
        BY <1>6
      <4> HIDE DEF w
      <4>2. QED
        BY <1>2, <1>6, <2>2, <2>3, <2>4, <2>6, <4>1 DEF Requeues
    <3>4. QED
      BY <3>2, <3>3
  <2>7. CASE run[r].outcome = "partial"
    <3>1. SavePartition(r, pending)
      BY <1>4, <2>7 DEF ChildOutcome
    <3>2. Repartitions(m, pending)
      BY <1>1, <1>2, <3>1, SavedPartition
    <3>3. Requeues(m, w, pending)
      BY <1>2, <2>2 DEF Requeues
    <3>4. QED
      BY <3>2, <3>3
  <2>8. QED
    BY <2>3, <2>5, <2>6, <2>7
<1>5. QED
  BY <1>3, <1>4

LEMMA RootSplit ==
  ASSUME ControlInv, NEW r \in Runs, NEW m \in Mappings, m = M(r),
         RootOutcome(r), run[r].outcome = "split"
  PROVE  \E queue : /\ Repartitions(m, queue) /\ queue # <<>>
                    /\ queue = split_window(parent[m].window)
<1>1. /\ run[r].pc = "outcome" /\ IsRoot(r) /\ SavePartition(r, run[r].halves)
      /\ UNCHANGED <<clock, child, persisted, origin>>
  BY DEF RootOutcome, At
<1>2. /\ Typed /\ InHand(r) /\ run[r].root = parent[m].window /\ parent[m].window \in Windows
  BY <1>1, HandFacts DEF Collecting, ControlInv
<1>3. /\ run[r].halves = split_window(parent[m].window) /\ run[r].halves # <<>>
      /\ parent[m].status \in Unfinished
  BY <1>1, <1>2 DEF InHand, Status, IsRoot, M, Unfinished
<1>4. PICK queue : queue = run[r].halves
  OBVIOUS
<1>5. SavePartition(r, queue)
  BY <1>1, <1>4 DEF SavePartition
<1>6. Repartitions(m, queue)
  BY <1>1, <1>2, <1>3, <1>5, SavedPartition
<1>7. QED
  BY <1>3, <1>4, <1>6

(* What is left in the queue, or replaced, after a step on its head.        *)
LEMMA QueueFacts ==
  ASSUME NEW m, NEW w, NEW queue, Requeues(m, w, queue),
         NEW i \in DOMAIN parent[m].partition.pending,
         w \in Windows => split_window(w) \in Seq(Windows)
  PROVE  LET v == parent[m].partition.pending[i] IN
         \/ \E j \in DOMAIN queue : queue[j] = v
         \/ /\ v = w /\ <<parent[m].window, w>> \in DOMAIN child[m]
            /\ child[m][<<parent[m].window, w>>].status = "succeeded"
         \/ /\ v = w /\ split_window(w) # <<>>
            /\ \A h \in DOMAIN split_window(w) :
                 \E j \in DOMAIN queue : queue[j] = split_window(w)[h]
<1> DEFINE pending == parent[m].partition.pending
           tail == Tail(pending)
           halves == split_window(w)
<1>1. /\ pending \in Seq(Windows) /\ pending # <<>> /\ w = pending[1] /\ w \in Windows
      /\ halves \in Seq(Windows)
  BY DEF Requeues
<1>2. i = 1 \/ (i - 1 \in DOMAIN tail /\ tail[i - 1] = pending[i])
  <2> HIDE DEF pending
  <2>1. i \in 1..Len(pending) /\ tail \in Seq(Windows) /\ Len(tail) = Len(pending) - 1
        /\ \A j \in 1..Len(tail) : tail[j] = pending[j + 1]
    BY <1>1 DEF pending
  <2> HIDE DEF tail
  <2>2. i = 1 \/ i - 1 \in 1..Len(tail)
    BY <1>1, <2>1
  <2>3. QED
    BY <1>1, <2>1, <2>2
<1>3. CASE queue = pending
  BY <1>3
<1>4. CASE /\ queue = tail
           /\ <<parent[m].window, w>> \in DOMAIN child[m]
           /\ child[m][<<parent[m].window, w>>].status = "succeeded"
  BY <1>1, <1>2, <1>4
<1>5. CASE halves # <<>> /\ queue = halves \o tail
  <2> HIDE DEF halves
  <2>1. tail \in Seq(Windows)
    BY <1>1
  <2> HIDE DEF tail
  <2>2. \A h \in DOMAIN halves : h \in DOMAIN queue /\ queue[h] = halves[h]
    BY <1>1, <1>5, <2>1
  <2>3. \A j \in DOMAIN tail : j + Len(halves) \in DOMAIN queue /\ queue[j + Len(halves)] = tail[j]
    BY <1>1, <1>5, <2>1
  <2>4. CASE i = 1
    BY <1>1, <1>5, <2>2, <2>4 DEF halves
  <2>5. CASE i # 1
    BY <1>2, <2>3, <2>5
  <2>6. QED
    BY <2>4, <2>5
<1>6. QED
  BY <1>3, <1>4, <1>5 DEF Requeues

(* A child of the window at hand is opened or fails: not one that           *)
(* succeeded, and its pages stay as they are.                               *)
Touches(m) ==
  \E key \in Windows \X Windows, row \in Child :
    /\ child' = PutChild(m, key, row) /\ key[1] = parent[m].window
    /\ row.status # "succeeded" /\ ChildAt(m, key).status # "succeeded"
    /\ row.next = ChildAt(m, key).next

LEMMA Opened ==
  ASSUME ControlInv, NEW r \in Runs, NEW m \in Mappings, m = M(r), OpenChild(r)
  PROVE  Touches(m) /\ UNCHANGED <<clock, parent, persisted, origin>>
<1> DEFINE w == Head(run[r].pending)
           key == <<run[r].root, w>>
           row == [ChildAt(m, key) EXCEPT !.status = "running"]
<1>1. /\ Typed /\ run[r] \in Locals /\ RunInv(r) /\ run[r].m = m
      /\ run[r].pc = "child" /\ run[r].pending # <<>> /\ ~ChildDone(r, w)
      /\ child' = PutChild(m, key, row) /\ UNCHANGED <<clock, parent, persisted, origin>>
  BY DEF ControlInv, Typed, M, OpenChild, At
<1>2. run[r].root = parent[m].window /\ run[r].root \in Windows
  BY <1>1 DEF RunInv, Locals
<1>3. run[r].pending \in Seq(Windows) /\ w \in Windows
  BY <1>1 DEF Locals
<1>4. key \in Windows \X Windows /\ key[1] = parent[m].window
  BY <1>2, <1>3
<1>5. ChildAt(m, key).status # "succeeded"
  BY <1>1 DEF ChildDone
<1> HIDE DEF key
<1>6. ChildAt(m, key) \in Child
  BY <1>1 DEF Typed, ChildAt, NewChild, Child, CursorStatuses
<1>7. row \in Child /\ row.status = "running" /\ row.next = ChildAt(m, key).next
  BY <1>6 DEF Child, CursorStatuses
<1> HIDE DEF row
<1>8. QED
  BY <1>1, <1>4, <1>5, <1>7 DEF Touches

LEMMA Failed ==
  ASSUME ControlInv, NEW r \in Runs, NEW m \in Mappings, m = M(r),
         WindowFails(r) \/ Forbidden(r)
  PROVE  /\ UNCHANGED <<clock, persisted, origin>>
         /\ child' = child \/ Touches(m)
         /\ parent[m].status # "succeeded"
         /\ parent'[m].status = "failed" /\ parent'[m].window = parent[m].window
         /\ parent'[m].next = parent[m].next /\ parent'[m].until = parent[m].until
         /\ parent'[m].partition = parent[m].partition
         /\ \A n \in Mappings \ {m} : parent'[n] = parent[n]
<1>1. /\ run[r].pc = "waiting" /\ FailChild(r) /\ UNCHANGED <<clock, persisted, origin>>
      /\ parent' = [parent EXCEPT ![m].status = "failed"]
  BY DEF WindowFails, Forbidden, FailCursors, At
<1>2. /\ Typed /\ run[r].root = parent[m].window /\ InHand(r)
      /\ run[r].root \in Windows /\ run[r].target \in Windows
      /\ ~IsRoot(r) => Key(r) \in DOMAIN child[m] /\ parent[m].status \in Unfinished
  BY <1>1, HandFacts DEF Collecting, ControlInv
<1>3. Status(r) = "running"
  BY <1>1, <1>2 DEF InHand
<1>4. parent[m].status # "succeeded"
  BY <1>2, <1>3 DEF Status, M, Unfinished
<1>5. /\ parent'[m].status = "failed" /\ parent'[m].window = parent[m].window
      /\ parent'[m].next = parent[m].next /\ parent'[m].until = parent[m].until
      /\ parent'[m].partition = parent[m].partition
      /\ \A n \in Mappings \ {m} : parent'[n] = parent[n]
  BY <1>1, <1>2 DEF Typed, Parent
<1>6. child' = child \/ Touches(m)
  <2>1. CASE IsRoot(r)
    BY <1>1, <2>1 DEF FailChild
  <2>2. CASE ~IsRoot(r)
    <3>1. PICK key \in Windows \X Windows : key = Key(r) /\ key[1] = parent[m].window
      BY <1>2 DEF Key
    <3> DEFINE row == [ChildAt(m, key) EXCEPT !.status = "failed"]
    <3>2. child' = PutChild(m, key, row)
      BY <1>1, <2>2, <3>1 DEF FailChild
    <3>3. ChildAt(m, key) \in Child /\ ChildAt(m, key).status = "running"
      BY <1>2, <1>3, <2>2, <3>1 DEF Typed, ChildAt, Status, M
    <3>4. row \in Child /\ row.status = "failed" /\ row.next = ChildAt(m, key).next
      BY <3>3 DEF Child, CursorStatuses
    <3> HIDE DEF row
    <3>5. QED
      BY <3>1, <3>2, <3>3, <3>4 DEF Touches
  <2>3. QED
    BY <2>1, <2>2
<1>7. QED
  BY <1>1, <1>4, <1>5, <1>6

(* A window's query opens: the old window where it was, or a fresh one.     *)
LEMMA RootOpened ==
  ASSUME ControlInv, NEW r \in Runs, NEW m \in Mappings, m = M(r), OpenRoot(r)
  PROVE  /\ UNCHANGED <<clock, persisted>>
         /\ \A n \in Mappings \ {m} : Same(n)
         /\ parent'[m].status = "running" /\ parent'[m].until = parent[m].until
         /\ parent'[m].partition.root = NoWindow
         /\ DOMAIN child'[m] \subseteq DOMAIN child[m]
         /\ \A k \in DOMAIN child'[m] : child'[m][k] = child[m][k]
         /\ \/ /\ parent[m].status \in Unfinished /\ parent'[m].window = parent[m].window
               /\ parent'[m].next = parent[m].next /\ origin'[m] = origin[m]
            \/ /\ parent[m].status \notin Unfinished /\ parent'[m].next = 0
               /\ origin'[m] = origin[m] \/ parent[m].until = Never
<1> DEFINE fresh == ~Resumable(m)
           root == incremental_window(m, run[r].now)
           row == [parent[m] EXCEPT !.status = "running", !.window = root,
                     !.next = IF fresh THEN 0 ELSE parent[m].next,
                     !.partition = IF fresh THEN NoPartition ELSE parent[m].partition]
           kept == [k \in {k \in DOMAIN child[m] : fresh => k[1] # root} |-> child[m][k]]
<1>1. fresh \/ parent[m].partition.root # root
  BY DEF OpenRoot
<1>2. parent' = [parent EXCEPT ![m] = row]
  BY DEF OpenRoot
<1>3. child' = [child EXCEPT ![m] = kept]
  BY DEF OpenRoot
<1>4. origin' = [origin EXCEPT ![m] = IF parent[m].window = NoWindow THEN root.from ELSE @]
      /\ UNCHANGED <<clock, persisted>>
  BY DEF OpenRoot
<1>5. Typed /\ CursorInv(m) /\ parent[m] \in Parent
  BY DEF ControlInv, Typed
<1>6. fresh <=> parent[m].status \notin Unfinished
  BY <1>5 DEF Resumable, Unfinished, CursorInv
<1>7. ~fresh => root = parent[m].window
  BY DEF incremental_window
<1> HIDE DEF root
<1>8. /\ row.status = "running" /\ row.until = parent[m].until /\ row.window = root
      /\ row.next = IF fresh THEN 0 ELSE parent[m].next
      /\ row.partition = IF fresh THEN NoPartition ELSE parent[m].partition
  BY <1>5 DEF Parent
<1>9. row.partition.root = NoWindow
  BY <1>1, <1>5, <1>7, <1>8 DEF CursorInv, NoPartition
<1>10. /\ DOMAIN kept \subseteq DOMAIN child[m]
       /\ \A k \in DOMAIN kept : kept[k] = child[m][k]
  OBVIOUS
<1> HIDE DEF row
<1> HIDE DEF kept
<1>12. parent'[m] = row /\ child'[m] = kept /\ \A n \in Mappings \ {m} : Same(n)
  BY <1>2, <1>3, <1>4, <1>5 DEF Typed, Same
<1>13. /\ origin'[m] = origin[m] \/ parent[m].until = Never
       /\ ~fresh => origin'[m] = origin[m]
  <2>1. ~fresh => parent[m].window # NoWindow
    BY DEF Resumable
  <2>2. QED
    BY <1>4, <1>5, <2>1 DEF Typed, CursorInv
<1> HIDE DEF fresh
<1>14. QED
  BY <1>4, <1>6, <1>7, <1>8, <1>9, <1>10, <1>12, <1>13

PagedStep(r) == LimitReached(r) \/ SplitWindow(r) \/ ReceivePage(r) \/ ReceiveEmpty(r)

(* A page of window w is persisted and its cursor moves from start to next, *)
(* or ends.                                                                 *)
Paged(m, w, start, next, status, page) ==
  /\ w \in Windows /\ next \in Nat /\ page \in SUBSET Articles
  /\ UNCHANGED <<clock, origin>> /\ persisted' = persist_feed(persisted, m, page)
  /\ HonestPages => \A a \in Found(w) :
       Position(a, Found(w)) < next => a \in page \/ Position(a, Found(w)) < start
  /\ status \in {"running", "partial", "succeeded"}
  /\ status = "succeeded" => next >= Cardinality(Found(w))
  /\ next >= start \/ status = "succeeded"

LEMMA PausedPage ==
  ASSUME ControlInv, NEW r \in Runs, NEW m \in Mappings, m = M(r),
         run[r].pc \in {"page", "waiting"}, UNCHANGED <<clock, persisted, origin>>
  PROVE  Paged(m, run[r].target, NextStart(r), NextStart(r), "partial", {})
<1>1. run[r].target \in Windows /\ NextStart(r) \in Nat
  BY HandFacts DEF Collecting
<1>2. persisted' = persist_feed(persisted, m, {})
  BY DEF persist_feed, ControlInv, Typed
<1>3. QED
  BY <1>1, <1>2 DEF Paged

(* A persisted page, from the step that received it.                        *)
LEMMA PersistedPage ==
  ASSUME ControlInv, NEW r \in Runs, NEW m \in Mappings, m = M(r), run[r].pc = "waiting",
         NEW page \in SUBSET Articles, NEW next \in Nat, PersistPage(r, page, next),
         UNCHANGED <<clock, origin>>, next >= NextStart(r) \/ next >= Cardinality(Found(run[r].target)),
         HonestPages => \A a \in Found(run[r].target) :
           Position(a, Found(run[r].target)) < next =>
             a \in page \/ Position(a, Found(run[r].target)) < NextStart(r)
  PROVE  \E status : /\ Save(r, status, next)
                     /\ Paged(m, run[r].target, NextStart(r), next, status, page)
<1>1. run[r].target \in Windows /\ InHand(r)
  BY HandFacts DEF Collecting
<1>2. Status(r) = "running"
  BY <1>1 DEF InHand
<1>3. persisted' = persist_feed(persisted, m, page)
  BY DEF PersistPage
<1>4. CASE next >= Cardinality(Found(run[r].target))
  <2>1. Save(r, "succeeded", next)
    BY <1>4 DEF PersistPage
  <2>2. Paged(m, run[r].target, NextStart(r), next, "succeeded", page)
    BY <1>1, <1>3, <1>4 DEF Paged
  <2>3. QED
    BY <2>1, <2>2
<1>5. CASE ~(next >= Cardinality(Found(run[r].target)))
  <2>1. Save(r, "running", next)
    BY <1>2, <1>5 DEF PersistPage
  <2>2. Paged(m, run[r].target, NextStart(r), next, "running", page)
    BY <1>1, <1>3, <1>5 DEF Paged
  <2>3. QED
    BY <2>1, <2>2
<1>6. QED
  BY <1>4, <1>5

LEMMA PagedSave ==
  ASSUME ControlInv, NEW r \in Runs, NEW m \in Mappings, m = M(r), PagedStep(r)
  PROVE  \E w, start, status, next, page :
           /\ w = run[r].target /\ start = NextStart(r)
           /\ Save(r, status, next) /\ Paged(m, w, start, next, status, page)
<1>1. /\ run[r].pc \in {"page", "waiting"} /\ UNCHANGED <<clock, origin>>
  BY DEF PagedStep, LimitReached, SplitWindow, ReceivePage, ReceiveEmpty, At
<1>2. NextStart(r) \in Nat /\ InHand(r) /\ Found(run[r].target) \in SUBSET Articles
  BY <1>1, HandFacts DEF Collecting, Found, Matching
<1> SUFFICES \E status, next, page :
                 /\ Save(r, status, next)
                 /\ Paged(m, run[r].target, NextStart(r), next, status, page)
  BY DEF Paged
<1>3. CASE Save(r, "partial", NextStart(r)) /\ UNCHANGED persisted
  BY <1>1, <1>3, PausedPage
<1>4. CASE ReceivePage(r)
  <2> DEFINE F == Found(run[r].target)
  <2>1. run[r].pc = "waiting" /\ run[r].start = NextStart(r)
    BY <1>2, <1>4, Received DEF InHand
  <2>2. PICK size \in 1..PageSize :
          LET page == Page(F, run[r].start, size) IN
          /\ run[r].start + size \in Nat
          /\ page \in SUBSET Articles
          /\ \/ PersistPage(r, page, run[r].start + size)
             \/ /\ "short_page" \in Faults
                /\ \E some \in SUBSET page : PersistPage(r, some, run[r].start + size)
    BY <1>4, Received
  <2> DEFINE page == Page(F, run[r].start, size)
             next == run[r].start + size
  <2>3. next \in Nat /\ next >= NextStart(r) /\ size \in Nat
    BY <1>2, <2>1, <2>2, SettingsAssumption
  <2>4. \A a \in F : Position(a, F) < next => a \in page \/ Position(a, F) < NextStart(r)
    <3> SUFFICES ASSUME NEW a \in F, Position(a, F) < next, ~(Position(a, F) < NextStart(r))
                 PROVE  a \in page
      OBVIOUS
    <3>1. Position(a, F) \in Nat
      BY <1>2, PositionBound
    <3> HIDE DEF F
    <3>2. QED
      BY <1>2, <2>1, <2>3, <3>1 DEF Page
  <2>5. PICK some \in SUBSET Articles :
          PersistPage(r, some, next) /\ (HonestPages => some = page)
    BY <2>2 DEF HonestPages
  <2> HIDE DEF next
  <2>6. next >= NextStart(r)
    BY <2>3
  <2> HIDE DEF F, page
  <2>7. HonestPages => \A a \in F : Position(a, F) < next => a \in some \/ Position(a, F) < NextStart(r)
    BY <2>4, <2>5
  <2>8. \E status : /\ Save(r, status, next)
                   /\ Paged(m, run[r].target, NextStart(r), next, status, some)
    BY <1>1, <2>1, <2>3, <2>5, <2>6, <2>7, PersistedPage DEF F
  <2>9. QED
    BY <2>8
<1>5. CASE /\ ReceiveEmpty(r) /\ run[r].start >= Cardinality(Found(run[r].target))
           /\ PersistPage(r, {}, Cardinality(Found(run[r].target)))
  <2> DEFINE F == Found(run[r].target)
  <2>1. run[r].pc = "waiting" /\ run[r].start = NextStart(r)
    BY <1>2, <1>5 DEF ReceiveEmpty, At, InHand
  <2>2. PICK total \in Nat : total = Cardinality(F)
    BY <1>2, PositionBound
  <2>3. \A a \in F : Position(a, F) \in Nat
    BY <1>2, PositionBound
  <2> HIDE DEF F
  <2>4. \A a \in F : Position(a, F) < total => Position(a, F) < NextStart(r)
    BY <1>2, <1>5, <2>1, <2>2, <2>3 DEF F
  <2>5. PersistPage(r, {}, total) /\ total >= Cardinality(F)
    BY <1>5, <2>2 DEF F
  <2>6. QED
    BY <1>1, <2>1, <2>4, <2>5, PersistedPage DEF F
<1>6. QED
  BY <1>3, <1>4, <1>5 DEF PagedStep, LimitReached, SplitWindow, ReceiveEmpty, Pause

(* What a page leaves in the cursors, of the root or of a child.            *)
RootSaved(m, w, start, status, next) ==
  /\ w = parent[m].window /\ start = parent[m].next
  /\ parent[m].status = "running" /\ parent[m].partition.root = NoWindow
  /\ child' = child /\ \A n \in Mappings \ {m} : parent'[n] = parent[n]
  /\ parent'[m] = [parent[m] EXCEPT !.status = status, !.next = next,
        !.until = IF status = "succeeded" THEN w.until ELSE parent[m].until]

ChildSaved(m, key, start, status, next) ==
  /\ key \in DOMAIN child[m] /\ key \in Windows \X Windows /\ key[1] = parent[m].window
  /\ start = child[m][key].next /\ child[m][key].status = "running"
  /\ [status |-> status, next |-> next] \in Child
  /\ parent' = parent /\ child' = PutChild(m, key, [status |-> status, next |-> next])

LEMMA SavedPage ==
  ASSUME ControlInv, NEW r \in Runs, NEW m \in Mappings, m = M(r), PagedStep(r)
  PROVE  \E w, start, status, next, page :
           /\ Paged(m, w, start, next, status, page)
           /\ \/ RootSaved(m, w, start, status, next)
              \/ \E key : key[2] = w /\ ChildSaved(m, key, start, status, next)
<1>1. run[r].pc \in {"page", "waiting"}
  BY DEF PagedStep, LimitReached, SplitWindow, ReceivePage, ReceiveEmpty, At
<1>2. /\ Typed /\ run[r].root = parent[m].window /\ InHand(r) /\ CursorInv(m)
      /\ run[r].root \in Windows /\ run[r].target \in Windows
      /\ ~IsRoot(r) => Key(r) \in DOMAIN child[m]
  BY <1>1, HandFacts DEF Collecting, ControlInv
<1>3. Status(r) = "running"
  BY <1>1, <1>2 DEF InHand
<1>4. PICK w, start, status, next, page :
        /\ w = run[r].target /\ start = NextStart(r)
        /\ Save(r, status, next) /\ Paged(m, w, start, next, status, page)
  BY PagedSave
<1>5. CASE IsRoot(r)
  <2>1. /\ run[r].target = parent[m].window /\ NextStart(r) = parent[m].next
        /\ parent[m].status = "running" /\ parent[m].partition.root # parent[m].window
    BY <1>2, <1>3, <1>5 DEF IsRoot, NextStart, Status, InHand, M
  <2>2. parent[m].partition.root = NoWindow
    BY <1>2, <2>1 DEF CursorInv
  <2>3. /\ child' = child
        /\ parent' = [parent EXCEPT ![m] = [parent[m] EXCEPT !.status = status, !.next = next,
              !.until = IF status = "succeeded" THEN w.until ELSE parent[m].until]]
    BY <1>2, <1>4, <1>5, <2>1 DEF Save
  <2>4. /\ \A n \in Mappings \ {m} : parent'[n] = parent[n]
        /\ parent'[m] = [parent[m] EXCEPT !.status = status, !.next = next,
             !.until = IF status = "succeeded" THEN w.until ELSE parent[m].until]
    BY <1>2, <2>3 DEF Typed
  <2>5. RootSaved(m, w, start, status, next)
    BY <1>4, <2>1, <2>2, <2>3, <2>4 DEF RootSaved
  <2>6. QED
    BY <1>4, <2>5
<1>6. CASE ~IsRoot(r)
  <2>1. PICK key \in Windows \X Windows :
          key = Key(r) /\ key[1] = parent[m].window /\ key[2] = run[r].target
    BY <1>2 DEF Key
  <2>2. key \in DOMAIN child[m] /\ child[m][key].status = "running"
        /\ NextStart(r) = child[m][key].next
    BY <1>2, <1>3, <1>6, <2>1 DEF NextStart, Status, ChildAt, M
  <2>3. parent' = parent /\ child' = PutChild(m, key, [status |-> status, next |-> next])
    BY <1>4, <1>6, <2>1 DEF Save
  <2>4. [status |-> status, next |-> next] \in Child
    BY <1>4 DEF Paged, Child, CursorStatuses
  <2>5. ChildSaved(m, key, start, status, next)
    BY <1>4, <2>1, <2>2, <2>3, <2>4 DEF ChildSaved
  <2>6. QED
    BY <1>4, <2>1, <2>5
<1>7. QED
  BY <1>5, <1>6

(* The last of the changes: the parent of a drained queue succeeds.         *)
LEMMA Completed ==
  ASSUME ControlInv, NEW r \in Runs, NEW m \in Mappings, m = M(r), CompletePartition(r)
  PROVE  /\ UNCHANGED <<clock, child, persisted, origin>>
         /\ \A n \in Mappings \ {m} : parent'[n] = parent[n]
         /\ parent[m].status \in Unfinished /\ parent[m].window \in Windows
         /\ parent[m].partition = [root |-> parent[m].window, pending |-> <<>>]
         /\ parent'[m].status = "succeeded" /\ parent'[m].next = 0
         /\ parent'[m].window = parent[m].window /\ parent'[m].partition = parent[m].partition
         /\ parent'[m].until = parent[m].window.until
<1> DEFINE row == [parent[m] EXCEPT !.status = "succeeded", !.next = 0, !.until = run[r].root.until]
<1>1. /\ Typed /\ run[r] \in Locals /\ RunInv(r) /\ parent[m] \in Parent /\ run[r].pc = "child"
      /\ run[r].m = m /\ run[r].pending = <<>> /\ parent' = [parent EXCEPT ![m] = row]
      /\ UNCHANGED <<clock, child, persisted, origin>>
  BY DEF ControlInv, Typed, CompletePartition, At, M
<1>2. /\ run[r].root = parent[m].window /\ parent[m].window \in Windows
      /\ parent[m].status \in Unfinished
      /\ parent[m].partition = [root |-> parent[m].window, pending |-> <<>>]
  BY <1>1 DEF RunInv, Locals
<1>3. /\ row.status = "succeeded" /\ row.next = 0 /\ row.window = parent[m].window
      /\ row.partition = parent[m].partition /\ row.until = parent[m].window.until
  BY <1>1, <1>2 DEF Parent
<1> HIDE DEF row
<1>4. QED
  BY <1>1, <1>2, <1>3 DEF Typed

LEMMA StepCases ==
  ASSUME ControlInv, [Next]_vars
  PROVE  \/ UNCHANGED <<parent, child, persisted, origin>> /\ (Tick \/ UNCHANGED clock)
         \/ \E r \in Runs : \E m \in Mappings :
              /\ m = M(r)
              /\ \/ OpenRoot(r) \/ SkipChild(r) \/ ChildOutcome(r)
                 \/ RootOutcome(r) /\ run[r].outcome = "split"
                 \/ OpenChild(r) \/ CompletePartition(r) \/ PagedStep(r)
                 \/ WindowFails(r) \/ Forbidden(r)
<1>1. CASE Tick
  BY <1>1 DEF Tick
<1>2. CASE UNCHANGED vars
  BY <1>2 DEF vars
<1>3. ASSUME NEW r \in Runs, StartRun(r) \/ Collect(r) \/ Fails(r), ~QuietStep(r)
      PROVE  \E m \in Mappings :
              /\ m = M(r)
              /\ \/ OpenRoot(r) \/ SkipChild(r) \/ ChildOutcome(r)
                 \/ RootOutcome(r) /\ run[r].outcome = "split"
                 \/ OpenChild(r) \/ CompletePartition(r) \/ PagedStep(r)
                 \/ WindowFails(r) \/ Forbidden(r)
  <2>1. \/ OpenRoot(r) \/ SkipChild(r) \/ ChildOutcome(r)
        \/ RootOutcome(r) /\ run[r].outcome = "split"
        \/ OpenChild(r) \/ CompletePartition(r) \/ PagedStep(r)
        \/ WindowFails(r) \/ Forbidden(r)
    BY <1>3 DEF Collect, Fails, QuietStep, PagedStep
  <2>2. run[r].pc \notin {"idle", "finish"}
    BY <2>1 DEF OpenRoot, SkipChild, ChildOutcome, RootOutcome, OpenChild, CompletePartition,
       PagedStep, LimitReached, SplitWindow, ReceivePage, ReceiveEmpty, WindowFails, Forbidden, At
  <2>3. M(r) \in Mappings
    BY <2>2 DEF ControlInv, RunInv, M
  <2>4. QED
    BY <2>1, <2>3
<1>4. ASSUME NEW r \in Runs, QuietStep(r)
      PROVE  UNCHANGED <<clock, parent, child, persisted, origin>>
  BY <1>4, Quiet
<1>5. QED
  BY <1>1, <1>2, <1>3, <1>4 DEF Next

-----------------------------------------------------------------------------
(* Children that succeeded, and windows that did not *)

LEMMA PutKeeps ==
  ASSUME Typed, NEW m \in Mappings, NEW key \in Windows \X Windows, NEW row \in Child,
         child' = PutChild(m, key, row), ChildAt(m, key).status # "succeeded",
         NEW n \in Mappings, NEW k \in DOMAIN child[n], child[n][k].status = "succeeded"
  PROVE  k \in DOMAIN child'[n] /\ child'[n][k] = child[n][k]
<1>1. CASE n # m
  BY <1>1, PutFacts
<1>2. CASE n = m
  <2>1. k # key
    BY <1>2 DEF ChildAt
  <2>2. QED
    BY <1>2, <2>1, PutFacts
<1>3. QED
  BY <1>1, <1>2

LEMMA TouchKeeps ==
  ASSUME Typed, NEW m \in Mappings, Touches(m),
         NEW n \in Mappings, NEW k \in DOMAIN child[n], child[n][k].status = "succeeded"
  PROVE  k \in DOMAIN child'[n] /\ child'[n][k] = child[n][k]
  BY PutKeeps DEF Touches

(* A child that succeeded stays, or goes with the partition it belonged to. *)
LEMMA ChildrenKept ==
  ASSUME ControlInv, [Next]_vars,
         NEW n \in Mappings, NEW k \in DOMAIN child[n], child[n][k].status = "succeeded"
  PROVE  /\ k \in DOMAIN child'[n] => child'[n][k] = child[n][k]
         /\ k \notin DOMAIN child'[n] => parent'[n].partition.root = NoWindow
<1> SUFFICES ASSUME NEW r \in Runs, NEW m \in Mappings, m = M(r),
                    \/ OpenRoot(r) \/ SkipChild(r) \/ ChildOutcome(r)
                    \/ RootOutcome(r) /\ run[r].outcome = "split"
                    \/ OpenChild(r) \/ CompletePartition(r) \/ PagedStep(r)
                    \/ WindowFails(r) \/ Forbidden(r)
             PROVE  /\ k \in DOMAIN child'[n] => child'[n][k] = child[n][k]
                    /\ k \notin DOMAIN child'[n] => parent'[n].partition.root = NoWindow
  BY StepCases
<1>1. Typed
  BY DEF ControlInv
<1>2. CASE OpenRoot(r)
  <2>1. CASE n = m
    BY <1>2, <2>1, RootOpened
  <2>2. CASE n # m
    BY <1>2, <2>2, RootOpened DEF Same
  <2>3. QED
    BY <2>1, <2>2
<1>3. CASE SkipChild(r) \/ ChildOutcome(r) \/ RootOutcome(r) \/ CompletePartition(r)
  BY <1>3 DEF SkipChild, ChildOutcome, RootOutcome, CompletePartition
<1>4. CASE OpenChild(r)
  BY <1>1, <1>4, Opened, TouchKeeps
<1>5. CASE WindowFails(r) \/ Forbidden(r)
  BY <1>1, <1>5, Failed, TouchKeeps
<1>6. CASE PagedStep(r)
  <2>1. PICK w, start, status, next :
          \/ RootSaved(m, w, start, status, next)
          \/ \E key : key[2] = w /\ ChildSaved(m, key, start, status, next)
    BY <1>6, SavedPage
  <2>2. CASE RootSaved(m, w, start, status, next)
    BY <2>2 DEF RootSaved
  <2>3. ASSUME NEW key, ChildSaved(m, key, start, status, next)
        PROVE  k \in DOMAIN child'[n] /\ child'[n][k] = child[n][k]
    <3>1. /\ key \in Windows \X Windows /\ [status |-> status, next |-> next] \in Child
          /\ child' = PutChild(m, key, [status |-> status, next |-> next])
          /\ ChildAt(m, key).status # "succeeded"
      BY <2>3 DEF ChildSaved, ChildAt
    <3>2. QED
      BY <1>1, <3>1, PutKeeps
  <2>4. QED
    BY <2>1, <2>2, <2>3
<1>7. QED
  BY <1>2, <1>3, <1>4, <1>5, <1>6

(* A child window that was collected is never queried again, and its cursor *)
(* never changes: a crash between a child's last page and its parent's      *)
(* checkpoint repeats nothing.                                              *)
THEOREM ChildrenDone == ASSUME OneProcess PROVE Spec => ChildrenStayDone
<1>1. ControlInv /\ [Next]_vars =>
        [\A m \in Mappings : \A k \in DOMAIN child[m] \cap DOMAIN child'[m] :
           child[m][k].status = "succeeded" => child'[m][k] = child[m][k]]_vars
  BY ChildrenKept
<1>2. QED
  BY <1>1, ControlAlways, PTL DEF Spec, ChildrenStayDone

(* The window a mapping has begun is resumed until it succeeds, and its     *)
(* position in the result never moves backwards.                            *)
THEOREM WindowsResumed == ASSUME OneProcess PROVE Spec => UnfinishedIsResumed
<1> DEFINE Resumed(n) ==
      /\ parent'[n].window = parent[n].window
      /\ parent'[n].next >= parent[n].next \/ parent'[n].status = "succeeded"
<1>1. ASSUME ControlInv, [Next]_vars, NEW n \in Mappings, parent[n].status \in Unfinished
      PROVE  Resumed(n)
  <2>1. Typed /\ parent[n].next \in Nat
    BY <1>1 DEF ControlInv, Typed, Parent
  <2>2. CASE parent'[n] = parent[n]
    BY <2>1, <2>2
  <2>3. ASSUME NEW r \in Runs, NEW m \in Mappings, m = M(r),
               \/ OpenRoot(r) \/ SkipChild(r) \/ ChildOutcome(r)
               \/ RootOutcome(r) /\ run[r].outcome = "split"
               \/ OpenChild(r) \/ CompletePartition(r) \/ PagedStep(r)
               \/ WindowFails(r) \/ Forbidden(r)
        PROVE  Resumed(n)
    <3>1. CASE OpenRoot(r)
      <4>1. CASE n = m
        <5>1. parent'[m].window = parent[m].window /\ parent'[m].next = parent[m].next
          BY <1>1, <2>3, <3>1, <4>1, RootOpened
        <5>2. QED
          BY <2>1, <4>1, <5>1
      <4>2. CASE n # m
        BY <1>1, <2>2, <2>3, <3>1, <4>2, RootOpened DEF Same
      <4>3. QED
        BY <4>1, <4>2
    <3>2. CASE SkipChild(r) \/ ChildOutcome(r)
      <4>1. PICK queue : Repartitions(m, queue)
        BY <1>1, <2>3, <3>2, Requeued
      <4>2. QED
        BY <2>1, <2>2, <4>1 DEF Repartitions
    <3>3. CASE RootOutcome(r) /\ run[r].outcome = "split"
      <4>1. PICK queue : Repartitions(m, queue)
        BY <1>1, <2>3, <3>3, RootSplit
      <4>2. QED
        BY <2>1, <2>2, <4>1 DEF Repartitions
    <3>4. CASE OpenChild(r)
      BY <1>1, <2>2, <2>3, <3>4, Opened
    <3>5. CASE CompletePartition(r)
      BY <1>1, <2>1, <2>2, <2>3, <3>5, Completed
    <3>6. CASE WindowFails(r) \/ Forbidden(r)
      BY <1>1, <2>1, <2>2, <2>3, <3>6, Failed
    <3>7. CASE PagedStep(r)
      <4>1. PICK w, start, status, next, page :
              /\ Paged(m, w, start, next, status, page)
              /\ \/ RootSaved(m, w, start, status, next)
                 \/ \E key : key[2] = w /\ ChildSaved(m, key, start, status, next)
        BY <1>1, <2>3, <3>7, SavedPage
      <4>2. CASE RootSaved(m, w, start, status, next)
        <5>1. next >= start \/ status = "succeeded"
          BY <4>1 DEF Paged
        <5>2. parent[m] \in Parent
          BY <2>1 DEF Typed
        <5>3. /\ parent'[m].window = parent[m].window /\ parent'[m].next = next
              /\ parent'[m].status = status /\ start = parent[m].next
              /\ \A q \in Mappings \ {m} : parent'[q] = parent[q]
          BY <4>2, <5>2 DEF RootSaved, Parent
        <5>4. QED
          BY <2>2, <5>1, <5>3
      <4>3. CASE \E key : key[2] = w /\ ChildSaved(m, key, start, status, next)
        BY <2>2, <4>3 DEF ChildSaved
      <4>4. QED
        BY <4>1, <4>2, <4>3
    <3>8. QED
      BY <2>3, <3>1, <3>2, <3>3, <3>4, <3>5, <3>6, <3>7
  <2>4. QED
    BY <1>1, <2>2, <2>3, StepCases
<1>2. ControlInv /\ [Next]_vars =>
        [\A m \in Mappings :
           parent[m].status \in {"running", "partial", "failed"} => Resumed(m)]_vars
  BY <1>1 DEF Unfinished
<1>3. QED
  BY <1>2, ControlAlways, PTL DEF Spec, UnfinishedIsResumed

-----------------------------------------------------------------------------
(* Partitions lose no instant *)

(* Instant t of the partition of mapping m is still to be collected, or     *)
(* has been.                                                                *)
Queued(m, t) ==
  \E i \in DOMAIN parent[m].partition.pending :
    t \in parent[m].partition.pending[i].from..parent[m].partition.pending[i].until
Collected(m, t) ==
  \E k \in DOMAIN child[m] :
    /\ k[1] = parent[m].partition.root /\ child[m][k].status = "succeeded"
    /\ t \in k[2].from..k[2].until

Covered(m) ==
  LET root == parent[m].partition.root IN
  root # NoWindow =>
    /\ root = parent[m].window
    /\ \A t \in root.from..root.until : Queued(m, t) \/ Collected(m, t)

LEMMA CoveredSame ==
  ASSUME ControlInv, [Next]_vars, NEW n \in Mappings, Covered(n),
         parent'[n].partition = parent[n].partition, parent'[n].window = parent[n].window
  PROVE  Covered(n)'
<1>1. SUFFICES ASSUME parent[n].partition.root # NoWindow,
                      NEW t \in parent[n].partition.root.from..parent[n].partition.root.until
               PROVE  Queued(n, t)' \/ Collected(n, t)'
  BY DEF Covered
<1>2. CASE Queued(n, t)
  BY <1>2 DEF Queued
<1>3. CASE Collected(n, t)
  BY <1>1, <1>3, ChildrenKept DEF Collected
<1>4. QED
  BY <1>1, <1>2, <1>3 DEF Covered

LEMMA CoveredRequeue ==
  ASSUME ControlInv, NEW m \in Mappings, Covered(m), NEW w, NEW queue,
         Repartitions(m, queue), Requeues(m, w, queue)
  PROVE  Covered(m)'
<1>1. /\ parent[m].partition.root = parent[m].window /\ parent[m].window \in Windows
      /\ parent'[m].window = parent[m].window /\ child' = child
      /\ parent'[m].partition = [root |-> parent[m].window, pending |-> queue]
      /\ w \in Windows
  BY DEF Repartitions, Requeues
<1>2. parent[m].window # NoWindow
  BY <1>1, WindowFacts
<1>3. SUFFICES ASSUME NEW t \in parent[m].window.from..parent[m].window.until
               PROVE  Queued(m, t)' \/ Collected(m, t)'
  BY <1>1 DEF Covered
<1>4. CASE Collected(m, t)
  BY <1>1, <1>4 DEF Collected
<1>5. CASE Queued(m, t)
  <2>1. PICK i \in DOMAIN parent[m].partition.pending :
          t \in parent[m].partition.pending[i].from..parent[m].partition.pending[i].until
    BY <1>5 DEF Queued
  <2>2. split_window(w) # <<>> => split_window(w) \in Seq(Windows)
    BY <1>1, HalvesQueued
  <2>3. CASE \E j \in DOMAIN queue : queue[j] = parent[m].partition.pending[i]
    BY <1>1, <2>1, <2>3 DEF Queued
  <2>4. CASE /\ parent[m].partition.pending[i] = w
             /\ <<parent[m].window, w>> \in DOMAIN child[m]
             /\ child[m][<<parent[m].window, w>>].status = "succeeded"
    BY <1>1, <2>1, <2>4 DEF Collected
  <2>5. CASE /\ parent[m].partition.pending[i] = w /\ split_window(w) # <<>>
             /\ \A h \in DOMAIN split_window(w) :
                  \E j \in DOMAIN queue : queue[j] = split_window(w)[h]
    <3>1. PICK h \in DOMAIN split_window(w) :
            t \in split_window(w)[h].from..split_window(w)[h].until
      BY <1>1, <2>1, <2>5, WindowFacts, HalvesSpan
    <3>2. QED
      BY <1>1, <2>5, <3>1 DEF Queued
  <2>6. split_window(w) \in Seq(Windows)
    <3>1. <<>> \in Seq(Windows)
      OBVIOUS
    <3>2. QED
      BY <2>2, <3>1
  <2>7. QED
    BY <2>3, <2>4, <2>5, <2>6, QueueFacts
<1>6. QED
  BY <1>1, <1>2, <1>3, <1>4, <1>5 DEF Covered

LEMMA CoveredSplit ==
  ASSUME NEW m \in Mappings, NEW queue, Repartitions(m, queue), queue # <<>>,
         queue = split_window(parent[m].window)
  PROVE  Covered(m)'
<1>1. /\ parent[m].window \in Windows /\ parent'[m].window = parent[m].window
      /\ parent'[m].partition = [root |-> parent[m].window, pending |-> queue]
  BY DEF Repartitions
<1>2. ASSUME NEW t \in parent[m].window.from..parent[m].window.until
      PROVE  Queued(m, t)'
  <2>1. PICK h \in DOMAIN queue : t \in queue[h].from..queue[h].until
    BY <1>1, <1>2, WindowFacts, HalvesSpan
  <2>2. QED
    BY <1>1, <2>1 DEF Queued
<1>3. QED
  BY <1>1, <1>2 DEF Covered

LEMMA CoveredStep ==
  ASSUME ControlInv, [Next]_vars, NEW n \in Mappings, Covered(n)
  PROVE  Covered(n)'
<1>1. CASE parent'[n] = parent[n]
  BY <1>1, CoveredSame
<1>2. ASSUME NEW r \in Runs, NEW m \in Mappings, m = M(r),
             \/ OpenRoot(r) \/ SkipChild(r) \/ ChildOutcome(r)
             \/ RootOutcome(r) /\ run[r].outcome = "split"
             \/ OpenChild(r) \/ CompletePartition(r) \/ PagedStep(r)
             \/ WindowFails(r) \/ Forbidden(r)
      PROVE  Covered(n)'
  <2>1. CASE OpenRoot(r)
    <3>1. CASE n = m
      BY <1>2, <2>1, <3>1, RootOpened DEF Covered
    <3>2. CASE n # m
      BY <1>1, <1>2, <2>1, <3>2, RootOpened DEF Same
    <3>3. QED
      BY <3>1, <3>2
  <2>2. CASE SkipChild(r) \/ ChildOutcome(r)
    <3>1. PICK w, queue : Repartitions(m, queue) /\ Requeues(m, w, queue)
      BY <1>2, <2>2, Requeued
    <3>2. CASE n = m
      BY <3>1, <3>2, CoveredRequeue
    <3>3. CASE n # m
      BY <1>1, <3>1, <3>3 DEF Repartitions
    <3>4. QED
      BY <3>2, <3>3
  <2>3. CASE RootOutcome(r) /\ run[r].outcome = "split"
    <3>1. PICK queue : /\ Repartitions(m, queue) /\ queue # <<>>
                       /\ queue = split_window(parent[m].window)
      BY <1>2, <2>3, RootSplit
    <3>2. CASE n = m
      BY <3>1, <3>2, CoveredSplit
    <3>3. CASE n # m
      BY <1>1, <3>1, <3>3 DEF Repartitions
    <3>4. QED
      BY <3>2, <3>3
  <2>4. CASE OpenChild(r)
    BY <1>1, <1>2, <2>4, Opened
  <2>5. CASE CompletePartition(r)
    BY <1>1, <1>2, <2>5, Completed, CoveredSame
  <2>6. CASE WindowFails(r) \/ Forbidden(r)
    BY <1>1, <1>2, <2>6, Failed, CoveredSame
  <2>7. CASE PagedStep(r)
    <3>1. PICK w, start, status, next :
            \/ RootSaved(m, w, start, status, next)
            \/ \E key : key[2] = w /\ ChildSaved(m, key, start, status, next)
      BY <1>2, <2>7, SavedPage
    <3>2. CASE RootSaved(m, w, start, status, next)
      <4>1. parent[m] \in Parent
        BY DEF ControlInv, Typed
      <4>2. parent'[m].window = parent[m].window /\ parent'[m].partition = parent[m].partition
            /\ \A q \in Mappings \ {m} : parent'[q] = parent[q]
        BY <3>2, <4>1 DEF RootSaved, Parent
      <4>3. QED
        BY <1>1, <4>2, CoveredSame
    <3>3. CASE \E key : key[2] = w /\ ChildSaved(m, key, start, status, next)
      BY <1>1, <3>3 DEF ChildSaved
    <3>4. QED
      BY <3>1, <3>2, <3>3
  <2>8. QED
    BY <1>2, <2>1, <2>2, <2>3, <2>4, <2>5, <2>6, <2>7
<1>3. QED
  BY <1>1, <1>2, StepCases

(* The checkpoint of a partition loses no instant of the window, however    *)
(* often it is split, wherever a run stops and whatever a crash undoes.     *)
THEOREM PartitionsCover == ASSUME OneProcess PROVE Spec => []PartitionCovers
<1> DEFINE AllCovered == \A m \in Mappings : Covered(m)
<1>1. Init => AllCovered
  BY DEF Init, Covered, NewParent, NoPartition
<1>2. ControlInv /\ AllCovered /\ [Next]_vars => AllCovered'
  BY CoveredStep
<1>3. AllCovered => PartitionCovers
  BY DEF Covered, Queued, Collected, PartitionCovers
<1>4. QED
  BY <1>1, <1>2, <1>3, ControlAlways, PTL DEF Spec

-----------------------------------------------------------------------------
(* Verdicts *)

(* A step of a run touches the cursor of its own mapping only.              *)
LEMMA Others ==
  ASSUME ControlInv, NEW r \in Runs, Collect(r) \/ Fails(r),
         NEW n \in Mappings, n # M(r)
  PROVE  parent'[n] = parent[n]
<1>1. Typed
  BY DEF ControlInv
<1>2. CASE WindowFails(r) \/ Forbidden(r)
  BY <1>1, <1>2 DEF WindowFails, Forbidden, FailCursors, Typed
<1>3. CASE SkipChild(r) \/ ChildOutcome(r) \/ RootOutcome(r)
  BY <1>1, <1>3 DEF SkipChild, ChildOutcome, RootOutcome, SavePartition, Typed
<1>4. CASE OpenRoot(r)
  BY <1>1, <1>4 DEF OpenRoot, Typed
<1>5. CASE OpenChild(r) \/ ResumePartition(r) \/ Send(r) \/ FinishRun(r)
           \/ RunTooSlow(r) \/ Retry(r) \/ Crash(r)
  BY <1>5 DEF OpenChild, ResumePartition, Send, FinishRun, RunTooSlow, Retry, Crash
<1>6. CASE CompletePartition(r)
  BY <1>1, <1>6 DEF CompletePartition, Typed
<1>7. CASE LimitReached(r) \/ SplitWindow(r) \/ ReceivePage(r) \/ ReceiveEmpty(r)
  <2>1. PICK status, next : Save(r, status, next)
    BY <1>7 DEF LimitReached, SplitWindow, ReceivePage, ReceiveEmpty, PersistPage, Pause
  <2>2. QED
    BY <1>1, <2>1 DEF Save, Typed
<1>8. QED
  BY <1>2, <1>3, <1>4, <1>5, <1>6, <1>7 DEF Collect, Fails

(* A step that stays with the mapping at hand.                              *)
LEMMA HonestKeep ==
  ASSUME ControlInv, NEW r \in Runs, HonestInv(r), Collect(r) \/ Fails(r),
         run[r].pc \notin {"idle", "finish"}, run'[r].pc # "finish", run'[r].m = run[r].m,
         run[r].errors => run'[r].errors, run[r].safety => run'[r].safety,
         run'[r].pc = "outcome" /\ run'[r].outcome = "partial" => run'[r].safety
  PROVE  HonestInv(r)'
<1>1. run[r].m \in Nat /\ Mappings \subseteq Nat
  BY SettingsAssumption DEF ControlInv, Typed, Locals, Mappings
<1>2. ASSUME NEW n \in Mappings, n < run[r].m
      PROVE  parent'[n] = parent[n]
  BY <1>1, <1>2, Others DEF M
<1>3. QED
  BY <1>2 DEF HonestInv

(* A step that leaves the mapping with its cursor succeeded, or with a mark.*)
LEMMA HonestLeave ==
  ASSUME ControlInv, NEW r \in Runs, HonestInv(r), Collect(r) \/ Fails(r),
         run[r].pc \notin {"idle", "finish"}, run[r].m \in Mappings,
         run'[r].pc \in {"mapping", "finish"},
         run[r].errors => run'[r].errors, run[r].safety => run'[r].safety,
         ~run'[r].errors /\ ~run'[r].safety =>
           /\ parent'[run[r].m].status = "succeeded"
           /\ run'[r].pc = "mapping" => run'[r].m = run[r].m + 1
           /\ run'[r].pc = "finish" => run[r].m = MappingCount
  PROVE  HonestInv(r)'
<1>1. run[r].m \in Nat /\ Mappings = 1..MappingCount /\ MappingCount \in Nat
  BY SettingsAssumption DEF Mappings
<1>2. ASSUME NEW n \in Mappings, n # run[r].m
      PROVE  parent'[n] = parent[n]
  BY <1>2, Others DEF M
<1>3. ASSUME ~run'[r].errors, ~run'[r].safety, NEW n \in Mappings,
             n < run'[r].m \/ run'[r].pc = "finish"
      PROVE  parent'[n].status = "succeeded"
  <2>1. n < run[r].m \/ n = run[r].m
    <3>1. CASE run'[r].pc = "mapping"
      BY <1>1, <1>3, <3>1
    <3>2. CASE run'[r].pc = "finish"
      BY <1>1, <1>3, <3>2
    <3>3. QED
      BY <3>1, <3>2
  <2>2. CASE n < run[r].m
    BY <1>1, <1>2, <1>3, <2>2 DEF HonestInv
  <2>3. CASE n = run[r].m
    BY <1>3, <2>3
  <2>4. QED
    BY <2>1, <2>2, <2>3
<1>4. QED
  BY <1>3 DEF HonestInv

LEMMA HonestStep ==
  ASSUME OneProcess, ControlInv, [Next]_vars, \A r \in Runs : HonestInv(r)
  PROVE  \A r \in Runs : HonestInv(r)'
<1>1. CASE UNCHANGED <<run, parent>>
  BY <1>1 DEF HonestInv
<1>2. ASSUME NEW r \in Runs, StartRun(r) \/ Collect(r) \/ Fails(r)
      PROVE  HonestInv(r)'
  <2>1. /\ Typed /\ run \in [Runs -> Locals] /\ run[r] \in Locals /\ HonestInv(r) /\ RunInv(r)
    BY DEF ControlInv, Typed
  <2>2. CASE StartRun(r)
    <3>1. run'[r] = [Idle EXCEPT !.pc = "mapping", !.now = clock]
      BY <2>1, <2>2 DEF StartRun, Set
    <3>2. run'[r].pc = "mapping" /\ run'[r].m = 1
      BY <3>1 DEF Idle
    <3>3. QED
      BY <3>2, SettingsAssumption DEF HonestInv, Mappings
  <2>3. CASE FinishRun(r) \/ Crash(r)
    <3>1. run'[r].pc = "idle"
      BY <2>1, <2>3 DEF FinishRun, Crash, Set, Idle
    <3>2. QED
      BY <3>1 DEF HonestInv
  <2>4. CASE RunTooSlow(r)
    <3>1. run'[r] = [run[r] EXCEPT !.pc = "finish", !.safety = TRUE]
      BY <2>1, <2>4 DEF RunTooSlow, Set
    <3>2. run'[r].pc = "finish" /\ run'[r].safety
      BY <2>1, <3>1 DEF Locals
    <3>3. QED
      BY <3>2 DEF HonestInv
  <2>5. CASE ResumePartition(r) \/ OpenRoot(r) \/ SkipChild(r) \/ OpenChild(r) \/ Send(r) \/ Retry(r)
    <3>1. /\ run[r].pc \notin {"idle", "finish"}
          /\ run'[r].pc \notin {"outcome", "finish"} /\ run'[r].m = run[r].m
          /\ run'[r].errors = run[r].errors /\ run'[r].safety = run[r].safety
      <4>1. CASE ResumePartition(r)
        BY <2>1, <4>1 DEF ResumePartition, Set, At, Locals
      <4>2. CASE OpenRoot(r)
        BY <2>1, <4>2 DEF OpenRoot, Set, At, Locals
      <4>3. CASE SkipChild(r)
        BY <2>1, <4>3 DEF SkipChild, Set, At, Locals
      <4>4. CASE OpenChild(r)
        BY <2>1, <4>4 DEF OpenChild, Set, At, Locals
      <4>5. CASE Send(r)
        BY <2>1, <4>5 DEF Send, Set, At, Locals
      <4>6. CASE Retry(r)
        BY <2>1, <4>6 DEF Retry, Set, At, Locals
      <4>7. QED
        BY <2>5, <4>1, <4>2, <4>3, <4>4, <4>5, <4>6
    <3>2. QED
      BY <2>1, <2>5, <3>1, HonestKeep DEF Collect, Fails
  <2>6. CASE CompletePartition(r)
    <3> DEFINE done == [run[r] EXCEPT !.succeeded = TRUE]
    <3>1. /\ run[r].pc = "child" /\ run[r].m \in Mappings /\ run'[r] = AfterOutcome(done)
          /\ parent'[run[r].m].status = "succeeded"
      BY <2>1, <2>6, Completed DEF CompletePartition, Set, At, RunInv, M
    <3>2. /\ done \in Locals /\ done.m = run[r].m /\ done.errors = run[r].errors
          /\ done.safety = run[r].safety
      BY <2>1 DEF Locals
    <3> HIDE DEF done
    <3>3. /\ run'[r].pc \in {"finish", "mapping"} /\ run'[r].errors = run[r].errors
          /\ run[r].safety => run'[r].safety
          /\ run'[r].pc = "mapping" => run'[r].m = run[r].m + 1
          /\ run'[r].pc = "finish" => run'[r].safety \/ run[r].m = MappingCount
      BY <3>1, <3>2, AfterOutcomeFacts
    <3>4. QED
      BY <2>1, <2>6, <3>1, <3>3, HonestLeave DEF Collect
  <2>7. CASE Pause(r) /\ (LimitReached(r) \/ SplitWindow(r) \/ ReceiveEmpty(r))
    <3>1. /\ run[r].pc \notin {"idle", "finish"}
          /\ run'[r].pc = "outcome" /\ run'[r].m = run[r].m
          /\ run'[r].errors = run[r].errors /\ run'[r].safety
      BY <2>1, <2>7 DEF LimitReached, SplitWindow, ReceiveEmpty, Pause, EndWindow, Set, At, Locals
    <3>2. QED
      BY <2>1, <2>7, <3>1, HonestKeep DEF Collect
  <2>8. CASE SplitWindow(r) /\ run' = [run EXCEPT ![r] =
               [run[r] EXCEPT !.pc = "outcome", !.outcome = "split",
                              !.halves = split_window(run[r].target)]]
    <3>1. /\ run[r].pc \notin {"idle", "finish"}
          /\ run'[r].pc = "outcome" /\ run'[r].outcome = "split" /\ run'[r].m = run[r].m
          /\ run'[r].errors = run[r].errors /\ run'[r].safety = run[r].safety
      BY <2>1, <2>8 DEF SplitWindow, At, Locals
    <3>2. QED
      BY <2>1, <2>8, <3>1, HonestKeep DEF Collect
  <2>9. ASSUME NEW page, NEW next, PersistPage(r, page, next), ReceivePage(r) \/ ReceiveEmpty(r)
        PROVE  HonestInv(r)'
    <3>1. /\ run[r].pc \notin {"idle", "finish"}
          /\ \/ run'[r].pc = "page"
             \/ run'[r].pc = "outcome" /\ run'[r].outcome = "succeeded"
          /\ run'[r].m = run[r].m
          /\ run'[r].errors = run[r].errors
          /\ run[r].safety => run'[r].safety
      <4>1. run[r].pc = "waiting"
        BY <2>9 DEF ReceivePage, ReceiveEmpty, At
      <4>2. CASE next >= Cardinality(Found(run[r].target))
        <5>1. run'[r] = [run[r] EXCEPT !.pc = "outcome", !.outcome = "succeeded",
                                       !.safety = @ \/ "succeeded" = "partial"]
          BY <2>1, <2>9, <4>2 DEF PersistPage, EndWindow, Set
        <5>2. QED
          BY <2>1, <4>1, <5>1 DEF Locals
      <4>3. CASE ~(next >= Cardinality(Found(run[r].target)))
        <5>1. run'[r] = [run[r] EXCEPT !.pc = "page"]
          BY <2>1, <2>9, <4>3 DEF PersistPage, Set
        <5>2. QED
          BY <2>1, <4>1, <5>1 DEF Locals
      <4>4. QED
        BY <4>2, <4>3
    <3>2. QED
      BY <2>1, <2>9, <3>1, HonestKeep DEF Collect
  <2>10. CASE RootOutcome(r) /\ run[r].outcome = "split"
    <3>1. /\ run[r].pc \notin {"idle", "finish"}
          /\ run'[r].pc = "child" /\ run'[r].m = run[r].m
          /\ run'[r].errors = run[r].errors /\ run'[r].safety = run[r].safety
      BY <2>1, <2>10 DEF RootOutcome, Set, At, Locals
    <3>2. QED
      BY <2>1, <2>10, <3>1, HonestKeep DEF Collect
  <2>11. CASE RootOutcome(r) /\ run[r].outcome # "split"
    <3> DEFINE done == [run[r] EXCEPT !.succeeded = @ \/ run[r].outcome = "succeeded"]
    <3>1. /\ run[r].pc = "outcome" /\ IsRoot(r) /\ run'[r] = AfterOutcome(done)
          /\ parent' = parent
      BY <2>1, <2>11 DEF RootOutcome, Set, At
    <3>2. /\ done \in Locals /\ done.m = run[r].m /\ done.errors = run[r].errors
          /\ done.safety = run[r].safety
      BY <2>1 DEF Locals
    <3> HIDE DEF done
    <3>3. InHand(r) /\ run[r].m \in Mappings
      BY <3>1, HandFacts DEF Collecting, M
    <3>4. run[r].outcome = "partial" \/ parent[run[r].m].status = "succeeded"
      BY <2>1, <2>11, <3>1, <3>3 DEF InHand, Status, M, Locals, Outcomes
    <3>5. run[r].outcome = "partial" => run[r].safety
      BY <2>1, <3>1 DEF HonestInv
    <3>6. /\ run'[r].pc \in {"finish", "mapping"} /\ run'[r].errors = run[r].errors
          /\ run[r].safety => run'[r].safety
          /\ run'[r].pc = "mapping" => run'[r].m = run[r].m + 1
          /\ run'[r].pc = "finish" => run'[r].safety \/ run[r].m = MappingCount
      BY <3>1, <3>2, <3>3, AfterOutcomeFacts
    <3>7. QED
      BY <2>1, <2>11, <3>1, <3>3, <3>4, <3>5, <3>6, HonestLeave DEF Collect
  <2>12. CASE ChildOutcome(r) /\ run[r].outcome # "partial"
    <3>1. /\ run[r].pc \notin {"idle", "finish"}
          /\ run'[r].pc = "child" /\ run'[r].m = run[r].m
          /\ run'[r].errors = run[r].errors /\ run'[r].safety = run[r].safety
      BY <2>1, <2>12 DEF ChildOutcome, Set, At, Locals
    <3>2. QED
      BY <2>1, <2>12, <3>1, HonestKeep DEF Collect
  <2>13. CASE ChildOutcome(r) /\ run[r].outcome = "partial"
    <3>1. /\ run[r].pc = "outcome" /\ run'[r] = AfterOutcome(run[r]) /\ run[r].safety
      BY <2>1, <2>13 DEF ChildOutcome, Set, At, HonestInv
    <3>2. run[r].m \in Mappings
      BY <3>1, HandFacts DEF Collecting, M
    <3>3. run'[r].pc \in {"finish", "mapping"} /\ run'[r].safety
      BY <2>1, <3>1, <3>2, AfterOutcomeFacts
    <3>4. QED
      BY <3>3 DEF HonestInv
  <2>14. CASE WindowFails(r)
    <3> DEFINE done == [run[r] EXCEPT !.errors = TRUE]
    <3>1. run[r].pc = "waiting" /\ run'[r] = Advance(done)
      BY <2>1, <2>14 DEF WindowFails, Set, At
    <3>2. run[r].m \in Mappings
      BY <3>1, HandFacts DEF Collecting, M
    <3>3. done \in Locals /\ done.m = run[r].m /\ done.errors
      BY <2>1 DEF Locals
    <3> HIDE DEF done
    <3>4. run'[r].pc \in {"finish", "mapping"} /\ run'[r].errors
      BY <3>1, <3>2, <3>3, AdvanceFacts
    <3>5. QED
      BY <3>4 DEF HonestInv
  <2>15. CASE Forbidden(r)
    <3>1. run'[r] = [run[r] EXCEPT !.pc = "finish", !.errors = TRUE]
      BY <2>1, <2>15 DEF Forbidden, Set
    <3>2. run'[r].pc = "finish" /\ run'[r].errors
      BY <2>1, <3>1 DEF Locals
    <3>3. QED
      BY <3>2 DEF HonestInv
  <2>16. CASE LimitReached(r)
    BY <2>7, <2>16 DEF LimitReached
  <2>17. CASE SplitWindow(r)
    BY <2>7, <2>8, <2>17 DEF SplitWindow, Set
  <2>18. CASE ReceivePage(r)
    BY <2>9, <2>18 DEF ReceivePage
  <2>19. CASE ReceiveEmpty(r)
    BY <2>7, <2>9, <2>19 DEF ReceiveEmpty
  <2>20. QED
    BY <1>2, <2>2, <2>3, <2>4, <2>5, <2>6, <2>10, <2>11, <2>12, <2>13, <2>14, <2>15, <2>16,
       <2>17, <2>18, <2>19 DEF Collect, Fails
<1>3. QED
  BY <1>1, <1>2 DEF Next, Tick, vars, OneProcess

(* A run reported as succeeded has brought the cursor of every mapping to   *)
(* the end of its window: no limit, error or split on the way is glossed    *)
(* over.                                                                    *)
THEOREM VerdictsAreHonest == ASSUME OneProcess PROVE Spec => HonestVerdict
<1> DEFINE Honest == \A r \in Runs : HonestInv(r)
<1>1. Init => Honest
  BY DEF Init, HonestInv, Idle
<1>2. ControlInv /\ Honest /\ [Next]_vars => Honest'
  BY HonestStep
<1>3. ControlInv /\ Honest /\ [Next]_vars =>
        [\A r \in Runs : verdict[r] = "running" /\ verdict'[r] = "succeeded" =>
           \A m \in Mappings : parent[m].status = "succeeded"]_vars
  <2> SUFFICES ASSUME ControlInv, Honest, Next, NEW r \in Runs,
                      verdict[r] = "running", verdict'[r] = "succeeded",
                      NEW m \in Mappings
               PROVE  parent[m].status = "succeeded"
    BY DEF vars
  <2>1. verdict \in [Runs -> Verdicts] /\ run[r] \in Locals
    BY DEF ControlInv, Typed
  <2>2. FinishRun(r)
    BY <2>1 DEF Next, Tick, StartRun, Collect, Fails, ResumePartition, OpenRoot, SkipChild,
       OpenChild, CompletePartition, LimitReached, Send, SplitWindow, ReceivePage, ReceiveEmpty,
       RootOutcome, ChildOutcome, FinishRun, RunTooSlow, Retry, WindowFails, Forbidden, Crash
  <2>3. run[r].pc = "finish" /\ ~run[r].errors /\ ~run[r].safety
    BY <2>1, <2>2 DEF FinishRun, At, terminal_status, Locals
  <2>4. QED
    BY <2>3 DEF HonestInv
<1>4. QED
  BY <1>1, <1>2, <1>3, ControlAlways, PTL DEF Spec, HonestVerdict

-----------------------------------------------------------------------------
(* No article is skipped *)

(* Articles only appear, in arXiv and in Silver.                            *)
Grows ==
  /\ clock \in Nat /\ clock' \in Nat /\ clock <= clock'
  /\ \A m \in Mappings : persisted[m] \subseteq persisted'[m]

LEMMA GrowsStep ==
  ASSUME ControlInv, [Next]_vars
  PROVE  Grows
<1>1. Typed /\ clock \in Nat
  BY DEF ControlInv, Typed
<1>2. clock' \in Nat /\ clock <= clock'
  <2>1. CASE Tick
    BY <1>1, <2>1 DEF Tick
  <2>2. CASE clock' = clock
    BY <1>1, <2>2
  <2>3. QED
    BY <2>1, <2>2 DEF Next, vars, StartRun, Collect, Fails, ResumePartition, OpenRoot, SkipChild,
       OpenChild, CompletePartition, LimitReached, Send, SplitWindow, ReceivePage, ReceiveEmpty,
       RootOutcome, ChildOutcome, FinishRun, RunTooSlow, Retry, WindowFails, Forbidden, Crash
<1>3. CASE UNCHANGED persisted
  BY <1>1, <1>2, <1>3 DEF Grows
<1>4. ASSUME NEW r \in Runs, NEW m \in Mappings, m = M(r), PagedStep(r)
      PROVE  Grows
  <2>1. PICK page : persisted' = persist_feed(persisted, m, page)
    BY <1>4, SavedPage DEF Paged
  <2>2. QED
    BY <1>1, <1>2, <2>1 DEF Grows, persist_feed, Typed
<1>5. QED
  BY <1>3, <1>4, StepCases
  DEF OpenRoot, SkipChild, ChildOutcome, RootOutcome, OpenChild, CompletePartition, WindowFails,
      Forbidden

LEMMA FoundGrows ==
  ASSUME Grows, NEW w
  PROVE  /\ Found(w) \in SUBSET Articles /\ Found(w)' \in SUBSET Articles
         /\ Found(w) \subseteq Found(w)'
  BY DelayAssumption DEF Grows, Found, Matching

(* New articles push those not yet collected back, never forward.           *)
LEMMA HeldGrows ==
  ASSUME Grows, NEW m \in Mappings, NEW w, NEW t, NEW n \in Nat, Held(m, w, t, n)
  PROVE  Held(m, w, t, n)'
<1> SUFFICES ASSUME NEW a \in Due(w, t), Position(a, Found(w)') < n
             PROVE  a \in persisted'[m]
  BY DEF Held
<1>1. PICK F \in SUBSET Articles, G \in SUBSET Articles :
        F = Found(w) /\ G = Found(w)' /\ F \subseteq G
  BY FoundGrows
<1>2. Position(a, F) <= Position(a, G) /\ Position(a, F) \in Nat /\ Position(a, G) \in Nat
  BY <1>1, PositionGrows
<1>3. Position(a, F) < n
  BY <1>1, <1>2
<1>4. QED
  BY <1>1, <1>3 DEF Held, Grows

LEMMA HeldNothing ==
  ASSUME NEW m, NEW w, NEW t
  PROVE  Held(m, w, t, 0) /\ Held(m, w, t, 0)'
<1>1. PICK F \in SUBSET Articles, G \in SUBSET Articles : F = Found(w) /\ G = Found(w)'
  BY DEF Found, Matching
<1>2. \A a : Position(a, F) \in Nat /\ Position(a, G) \in Nat
  BY <1>1, PositionGrows
<1>3. QED
  BY <1>1, <1>2 DEF Held

(* A page adds what its positions promise; the last page is the whole.      *)
LEMMA HeldPage ==
  ASSUME HonestPages, Typed, NEW m \in Mappings, NEW w, NEW start, NEW status, NEW next, NEW page,
         Paged(m, w, start, next, status, page), NEW t \in Int, t <= clock, Held(m, w, t, start)
  PROVE  /\ Held(m, w, t, next)'
         /\ status = "succeeded" => Due(w, t) \subseteq persisted'[m]
<1>1. PICK F \in SUBSET Articles : F = Found(w) /\ F = Found(w)'
  BY DEF Paged, Found, Matching
<1>2. /\ \A a \in F : Position(a, F) < next => a \in page \/ Position(a, F) < start
      /\ status = "succeeded" => next >= Cardinality(F)
      /\ next \in Nat /\ persisted' = persist_feed(persisted, m, page)
  BY <1>1 DEF Paged
<1>3. /\ page \subseteq persisted'[m] /\ persisted[m] \subseteq persisted'[m]
  BY <1>2 DEF Typed, persist_feed
<1>4. Due(w, t) \subseteq F
  <2>1. clock \in Nat
    BY DEF Typed
  <2>2. QED
    BY <1>1, <2>1, DelayAssumption DEF Due, Found, Matching
<1>5. \A a \in Due(w, t) : Position(a, F) < next => a \in persisted'[m]
  BY <1>1, <1>2, <1>3, <1>4 DEF Held
<1>6. Held(m, w, t, next)'
  BY <1>1, <1>5 DEF Held
<1>7. status = "succeeded" => Due(w, t) \subseteq persisted'[m]
  <2> SUFFICES ASSUME status = "succeeded", NEW a \in Due(w, t)
               PROVE  a \in persisted'[m]
    OBVIOUS
  <2>1. Position(a, F) \in Nat /\ Cardinality(F) \in Nat /\ Position(a, F) < Cardinality(F)
    BY <1>4, PositionBound
  <2>2. Position(a, F) < next
    BY <1>2, <2>1
  <2>3. QED
    BY <1>5, <2>2
<1>8. QED
  BY <1>6, <1>7

(* The pages of the root, and of a child, before and after a step.          *)
LEMMA RootHeldIs ==
  ASSUME NEW m, NEW w, NEW t, NEW n
  PROVE  /\ w = parent[m].window /\ t = parent[m].window.until /\ n = parent[m].next =>
              (RootHeld(m) <=> Held(m, w, t, n))
         /\ w = parent'[m].window /\ t = parent'[m].window.until /\ n = parent'[m].next =>
              (RootHeld(m)' <=> Held(m, w, t, n)')
  BY DEF RootHeld, Held, Due, Found

LEMMA ChildHeldIs ==
  ASSUME NEW m, NEW k, NEW w, NEW t, NEW n, w = k[2], t = k[1].until
  PROVE  /\ n = child[m][k].next =>
              (ChildHeld(m, k) <=>
                 /\ Held(m, w, t, n)
                 /\ child[m][k].status = "succeeded" => Due(w, t) \subseteq persisted[m])
         /\ n = child'[m][k].next =>
              (ChildHeld(m, k)' <=>
                 /\ Held(m, w, t, n)'
                 /\ child'[m][k].status = "succeeded" => Due(w, t) \subseteq persisted'[m])
  BY DEF ChildHeld, Held, Found

LEMMA RootSame ==
  ASSUME Typed, Grows, NEW n \in Mappings, RootHeld(n),
         parent'[n].window = parent[n].window,
         parent'[n].next = parent[n].next
  PROVE  RootHeld(n)'
<1>1. PICK w, t, x : w = parent[n].window /\ t = parent[n].window.until /\ x = parent[n].next
  OBVIOUS
<1>2. x \in Nat
  BY <1>1 DEF Typed, Parent
<1>3. Held(n, w, t, x)
  BY <1>1, RootHeldIs
<1>4. Held(n, w, t, x)'
  BY <1>2, <1>3, HeldGrows
<1>5. QED
  BY <1>1, <1>4, RootHeldIs

LEMMA RootFresh ==
  ASSUME NEW n \in Mappings, parent'[n].next = 0
  PROVE  RootHeld(n)'
<1>1. PICK w, t : w = parent'[n].window /\ t = parent'[n].window.until
  OBVIOUS
<1>2. Held(n, w, t, 0)'
  BY HeldNothing
<1>3. QED
  BY <1>1, <1>2, RootHeldIs

(* A page of the root: it is held, and is the whole window when it is last. *)
LEMMA RootPage ==
  ASSUME HonestPages, ControlInv, NEW m \in Mappings, RootHeld(m),
         NEW w, NEW start, NEW status, NEW next, NEW page,
         Paged(m, w, start, next, status, page), RootSaved(m, w, start, status, next)
  PROVE  /\ RootHeld(m)'
         /\ status = "succeeded" => Due(w, w.until) \subseteq persisted'[m]
<1>1. /\ Typed /\ parent[m] \in Parent /\ w = parent[m].window /\ start = parent[m].next
      /\ w.until \in Int /\ w.until <= clock
  BY Past DEF ControlInv, RootSaved
<1>2. PICK t \in Int : t = w.until /\ t <= clock
  BY <1>1
<1>3. Held(m, w, t, start)
  BY <1>1, <1>2, RootHeldIs
<1>4. Held(m, w, t, next)' /\ (status = "succeeded" => Due(w, t) \subseteq persisted'[m])
  BY <1>1, <1>2, <1>3, HeldPage
<1>5. parent'[m].window = w /\ parent'[m].next = next
  BY <1>1 DEF RootSaved, Parent
<1>6. RootHeld(m)'
  BY <1>2, <1>4, <1>5, RootHeldIs
<1>7. QED
  BY <1>2, <1>4, <1>6

LEMMA RootStep ==
  ASSUME HonestPages, ControlInv, [Next]_vars, NEW n \in Mappings, RootHeld(n)
  PROVE  RootHeld(n)'
<1>1. Typed /\ Grows
  BY GrowsStep DEF ControlInv
<1>2. CASE parent'[n].window = parent[n].window /\ parent'[n].next = parent[n].next
  BY <1>1, <1>2, RootSame
<1>3. ASSUME NEW r \in Runs, NEW m \in Mappings, m = M(r),
             \/ OpenRoot(r) \/ SkipChild(r) \/ ChildOutcome(r)
             \/ RootOutcome(r) /\ run[r].outcome = "split"
             \/ OpenChild(r) \/ CompletePartition(r) \/ PagedStep(r)
             \/ WindowFails(r) \/ Forbidden(r)
      PROVE  RootHeld(n)'
  <2>1. CASE OpenRoot(r)
    <3>1. CASE n # m
      BY <1>2, <1>3, <2>1, <3>1, RootOpened DEF Same
    <3>2. CASE n = m
      BY <1>2, <1>3, <2>1, <3>2, RootOpened, RootFresh
    <3>3. QED
      BY <3>1, <3>2
  <2>2. CASE SkipChild(r) \/ ChildOutcome(r)
    <3>1. PICK queue : Repartitions(m, queue)
      BY <1>3, <2>2, Requeued
    <3>2. QED
      BY <1>2, <3>1 DEF Repartitions
  <2>3. CASE RootOutcome(r) /\ run[r].outcome = "split"
    <3>1. PICK queue : Repartitions(m, queue)
      BY <1>3, <2>3, RootSplit
    <3>2. QED
      BY <1>2, <3>1 DEF Repartitions
  <2>4. CASE OpenChild(r)
    BY <1>2, <1>3, <2>4, Opened
  <2>5. CASE CompletePartition(r)
    BY <1>2, <1>3, <2>5, Completed, RootFresh
  <2>6. CASE WindowFails(r) \/ Forbidden(r)
    BY <1>2, <1>3, <2>6, Failed
  <2>7. CASE PagedStep(r)
    <3>1. PICK w, start, status, next, page :
            /\ Paged(m, w, start, next, status, page)
            /\ \/ RootSaved(m, w, start, status, next)
               \/ \E key : key[2] = w /\ ChildSaved(m, key, start, status, next)
      BY <1>3, <2>7, SavedPage
    <3>2. CASE RootSaved(m, w, start, status, next) /\ n = m
      BY <3>1, <3>2, RootPage
    <3>3. CASE RootSaved(m, w, start, status, next) /\ n # m
      BY <1>2, <3>3 DEF RootSaved
    <3>4. CASE \E key : key[2] = w /\ ChildSaved(m, key, start, status, next)
      BY <1>2, <3>4 DEF ChildSaved
    <3>5. QED
      BY <3>1, <3>2, <3>3, <3>4
  <2>8. QED
    BY <1>3, <2>1, <2>2, <2>3, <2>4, <2>5, <2>6, <2>7
<1>4. QED
  BY <1>2, <1>3, StepCases

-----------------------------------------------------------------------------
(* The pages of the children *)

LEMMA ChildSame ==
  ASSUME Typed, Grows, NEW n \in Mappings, NEW k \in DOMAIN child[n], ChildHeld(n, k),
         child'[n][k].next = child[n][k].next,
         child'[n][k].status = "succeeded" => child[n][k].status = "succeeded"
  PROVE  ChildHeld(n, k)'
<1>1. PICK w, t, x : w = k[2] /\ t = k[1].until /\ x = child[n][k].next
  OBVIOUS
<1>2. x \in Nat
  BY <1>1 DEF Typed, Child
<1>3. /\ Held(n, w, t, x)
      /\ child[n][k].status = "succeeded" => Due(w, t) \subseteq persisted[n]
  BY <1>1, ChildHeldIs
<1>4. Held(n, w, t, x)'
  BY <1>2, <1>3, HeldGrows
<1>5. child'[n][k].status = "succeeded" => Due(w, t) \subseteq persisted'[n]
  BY <1>3 DEF Grows
<1>6. QED
  BY <1>1, <1>4, <1>5, ChildHeldIs

LEMMA ChildFresh ==
  ASSUME NEW n, NEW k, child'[n][k].next = 0, child'[n][k].status # "succeeded"
  PROVE  ChildHeld(n, k)'
<1>1. PICK w, t : w = k[2] /\ t = k[1].until
  OBVIOUS
<1>2. Held(n, w, t, 0)'
  BY HeldNothing
<1>3. QED
  BY <1>1, <1>2, ChildHeldIs

LEMMA ChildPage ==
  ASSUME HonestPages, ControlInv, NEW m \in Mappings,
         NEW w, NEW start, NEW status, NEW next, NEW page, NEW key \in DOMAIN child[m],
         Paged(m, w, start, next, status, page), key[2] = w,
         ChildSaved(m, key, start, status, next), ChildHeld(m, key)
  PROVE  ChildHeld(m, key)'
<1>1. /\ Typed /\ CursorInv(m) /\ clock \in Nat /\ key \in Windows \X Windows
      /\ start = child[m][key].next
      /\ child' = PutChild(m, key, [status |-> status, next |-> next])
      /\ [status |-> status, next |-> next] \in Child
  BY DEF ControlInv, Typed, ChildSaved
<1>2. key[1].until <= clock /\ key[1].until \in Int
  BY <1>1, WindowFacts DEF CursorInv
<1>3. PICK t \in Int : t = key[1].until /\ t <= clock
  BY <1>2
<1>4. Held(m, w, t, start)
  BY <1>1, <1>3, ChildHeldIs
<1>5. Held(m, w, t, next)' /\ (status = "succeeded" => Due(w, t) \subseteq persisted'[m])
  BY <1>1, <1>3, <1>4, HeldPage
<1>6. child'[m][key] = [status |-> status, next |-> next]
  BY <1>1, PutFacts
<1>7. child'[m][key].status = status /\ child'[m][key].next = next
  BY <1>6
<1>8. QED
  BY <1>3, <1>5, <1>7, ChildHeldIs

LEMMA ChildTouched ==
  ASSUME ControlInv, Grows, NEW m \in Mappings, Touches(m), NEW n \in Mappings,
         \A k \in DOMAIN child[n] : ChildHeld(n, k), NEW k \in DOMAIN child'[n]
  PROVE  ChildHeld(n, k)'
<1>1. Typed
  BY DEF ControlInv
<1>2. PICK key \in Windows \X Windows, row \in Child :
        /\ child' = PutChild(m, key, row)
        /\ row.status # "succeeded" /\ row.next = ChildAt(m, key).next
  BY DEF Touches
<1>3. CASE n # m
  BY <1>1, <1>2, <1>3, PutFacts, ChildSame
<1>4. CASE n = m /\ k # key
  BY <1>1, <1>2, <1>4, PutFacts, ChildSame
<1>5. CASE n = m /\ k = key
  <2>1. child'[m][key] = row
    BY <1>1, <1>2, PutFacts
  <2>2. CASE key \in DOMAIN child[m]
    BY <1>1, <1>2, <1>5, <2>1, <2>2, ChildSame DEF ChildAt
  <2>3. CASE key \notin DOMAIN child[m]
    BY <1>2, <1>5, <2>1, <2>3, ChildFresh DEF ChildAt, NewChild
  <2>4. QED
    BY <2>2, <2>3
<1>6. QED
  BY <1>3, <1>4, <1>5

LEMMA ChildStep ==
  ASSUME HonestPages, ControlInv, [Next]_vars, NEW n \in Mappings,
         \A k \in DOMAIN child[n] : ChildHeld(n, k), NEW k \in DOMAIN child'[n]
  PROVE  ChildHeld(n, k)'
<1>1. Typed /\ Grows
  BY GrowsStep DEF ControlInv
<1>2. CASE k \in DOMAIN child[n] /\ child'[n][k] = child[n][k]
  BY <1>1, <1>2, ChildSame
<1>3. ASSUME NEW r \in Runs, NEW m \in Mappings, m = M(r),
             \/ OpenRoot(r) \/ SkipChild(r) \/ ChildOutcome(r)
             \/ RootOutcome(r) /\ run[r].outcome = "split"
             \/ OpenChild(r) \/ CompletePartition(r) \/ PagedStep(r)
             \/ WindowFails(r) \/ Forbidden(r)
      PROVE  ChildHeld(n, k)'
  <2>1. CASE OpenRoot(r)
    BY <1>2, <1>3, <2>1, RootOpened DEF Same
  <2>2. CASE SkipChild(r) \/ ChildOutcome(r) \/ RootOutcome(r) \/ CompletePartition(r)
    BY <1>2, <2>2 DEF SkipChild, ChildOutcome, RootOutcome, CompletePartition
  <2>3. CASE OpenChild(r)
    BY <1>1, <1>3, <2>3, Opened, ChildTouched
  <2>4. CASE WindowFails(r) \/ Forbidden(r)
    <3>1. child' = child \/ Touches(m)
      BY <1>3, <2>4, Failed
    <3>2. QED
      BY <1>1, <1>2, <3>1, ChildTouched
  <2>5. CASE PagedStep(r)
    <3>1. PICK w, start, status, next, page :
            /\ Paged(m, w, start, next, status, page)
            /\ \/ RootSaved(m, w, start, status, next)
               \/ \E key : key[2] = w /\ ChildSaved(m, key, start, status, next)
      BY <1>3, <2>5, SavedPage
    <3>2. CASE RootSaved(m, w, start, status, next)
      BY <1>2, <3>2 DEF RootSaved
    <3>3. ASSUME NEW key, key[2] = w, ChildSaved(m, key, start, status, next)
          PROVE  ChildHeld(n, k)'
      <4>1. /\ key \in DOMAIN child[m] /\ key \in Windows \X Windows
            /\ [status |-> status, next |-> next] \in Child
            /\ child' = PutChild(m, key, [status |-> status, next |-> next])
        BY <3>3 DEF ChildSaved
      <4>2. CASE n = m /\ k = key
        BY <3>1, <3>3, <4>1, <4>2, ChildPage
      <4>3. CASE n # m \/ k # key
        BY <1>1, <1>2, <4>1, <4>3, PutFacts
      <4>4. QED
        BY <4>2, <4>3
    <3>4. QED
      BY <3>1, <3>2, <3>3
  <2>6. QED
    BY <1>3, <2>1, <2>2, <2>3, <2>4, <2>5
<1>4. QED
  BY <1>2, <1>3, StepCases

-----------------------------------------------------------------------------
(* The queue of a partition *)

LEMMA QueueSame ==
  ASSUME Grows, NEW n \in Mappings, QueueHolds(n),
         parent'[n].partition = parent[n].partition,
         parent'[n].window = parent[n].window
  PROVE  QueueHolds(n)'
  BY DEF QueueHolds, Grows

LEMMA QueueRequeue ==
  ASSUME ControlInv, Grows, NEW m \in Mappings, QueueHolds(m),
         \A k \in DOMAIN child[m] : ChildHeld(m, k),
         NEW w, NEW queue, Repartitions(m, queue), Requeues(m, w, queue)
  PROVE  QueueHolds(m)'
<1>1. /\ parent[m].partition.root = parent[m].window /\ parent[m].window \in Windows
      /\ parent'[m].window = parent[m].window /\ persisted' = persisted
      /\ parent'[m].partition = [root |-> parent[m].window, pending |-> queue]
      /\ w \in Windows
  BY DEF Repartitions, Requeues
<1>2. parent[m].window # NoWindow
  BY <1>1, WindowFacts
<1>3. SUFFICES ASSUME NEW a \in Due(parent[m].window, parent[m].window.until) \ persisted[m]
               PROVE  \E j \in DOMAIN queue : a \in Matching(queue[j], Articles)
  BY <1>1 DEF QueueHolds
<1>4. PICK i \in DOMAIN parent[m].partition.pending :
        a \in Matching(parent[m].partition.pending[i], Articles)
  BY <1>1, <1>2, <1>3 DEF QueueHolds
<1>5. split_window(w) \in Seq(Windows)
  <2>1. <<>> \in Seq(Windows)
    OBVIOUS
  <2>2. QED
    BY <1>1, <2>1, HalvesQueued
<1>6. CASE \E j \in DOMAIN queue : queue[j] = parent[m].partition.pending[i]
  BY <1>4, <1>6
<1>7. CASE /\ parent[m].partition.pending[i] = w
           /\ <<parent[m].window, w>> \in DOMAIN child[m]
           /\ child[m][<<parent[m].window, w>>].status = "succeeded"
  <2>1. PICK key \in DOMAIN child[m] :
          /\ key = <<parent[m].window, w>> /\ child[m][key].status = "succeeded"
          /\ ChildHeld(m, key)
    BY <1>7
  <2>2. Due(w, parent[m].window.until) \subseteq persisted[m]
    BY <2>1 DEF ChildHeld
  <2>3. a \in Due(w, parent[m].window.until)
    BY <1>3, <1>4, <1>7 DEF Due
  <2>4. QED
    BY <1>3, <2>2, <2>3
<1>8. CASE /\ parent[m].partition.pending[i] = w /\ split_window(w) # <<>>
           /\ \A h \in DOMAIN split_window(w) :
                \E j \in DOMAIN queue : queue[j] = split_window(w)[h]
  <2>1. PICK h \in DOMAIN split_window(w) : a \in Matching(split_window(w)[h], Articles)
    BY <1>1, <1>4, <1>8, WindowFacts, HalvesCover
  <2>2. QED
    BY <1>8, <2>1
<1>9. QED
  BY <1>5, <1>6, <1>7, <1>8, QueueFacts

LEMMA QueueSplit ==
  ASSUME NEW m \in Mappings, NEW queue, Repartitions(m, queue), queue # <<>>,
         queue = split_window(parent[m].window)
  PROVE  QueueHolds(m)'
<1>1. /\ parent[m].window \in Windows /\ parent'[m].window = parent[m].window
      /\ parent'[m].partition = [root |-> parent[m].window, pending |-> queue]
  BY DEF Repartitions
<1>2. ASSUME NEW a \in Due(parent[m].window, parent[m].window.until)
      PROVE  \E j \in DOMAIN queue : a \in Matching(queue[j], Articles)
  BY <1>1, <1>2, WindowFacts, HalvesCover DEF Due
<1>3. QED
  BY <1>1, <1>2 DEF QueueHolds

LEMMA QueueStep ==
  ASSUME ControlInv, [Next]_vars, NEW n \in Mappings, QueueHolds(n),
         \A k \in DOMAIN child[n] : ChildHeld(n, k)
  PROVE  QueueHolds(n)'
<1>1. Grows
  BY GrowsStep
<1>2. CASE parent'[n] = parent[n]
  BY <1>1, <1>2, QueueSame
<1>3. ASSUME NEW r \in Runs, NEW m \in Mappings, m = M(r),
             \/ OpenRoot(r) \/ SkipChild(r) \/ ChildOutcome(r)
             \/ RootOutcome(r) /\ run[r].outcome = "split"
             \/ OpenChild(r) \/ CompletePartition(r) \/ PagedStep(r)
             \/ WindowFails(r) \/ Forbidden(r)
      PROVE  QueueHolds(n)'
  <2>1. CASE OpenRoot(r)
    <3>1. CASE n = m
      BY <1>3, <2>1, <3>1, RootOpened DEF QueueHolds
    <3>2. CASE n # m
      BY <1>2, <1>3, <2>1, <3>2, RootOpened DEF Same
    <3>3. QED
      BY <3>1, <3>2
  <2>2. CASE SkipChild(r) \/ ChildOutcome(r)
    <3>1. PICK w, queue : Repartitions(m, queue) /\ Requeues(m, w, queue)
      BY <1>3, <2>2, Requeued
    <3>2. CASE n = m
      BY <1>1, <3>1, <3>2, QueueRequeue
    <3>3. CASE n # m
      BY <1>2, <3>1, <3>3 DEF Repartitions
    <3>4. QED
      BY <3>2, <3>3
  <2>3. CASE RootOutcome(r) /\ run[r].outcome = "split"
    <3>1. PICK queue : /\ Repartitions(m, queue) /\ queue # <<>>
                       /\ queue = split_window(parent[m].window)
      BY <1>3, <2>3, RootSplit
    <3>2. CASE n = m
      BY <3>1, <3>2, QueueSplit
    <3>3. CASE n # m
      BY <1>2, <3>1, <3>3 DEF Repartitions
    <3>4. QED
      BY <3>2, <3>3
  <2>4. CASE OpenChild(r)
    BY <1>2, <1>3, <2>4, Opened
  <2>5. CASE CompletePartition(r)
    BY <1>1, <1>2, <1>3, <2>5, Completed, QueueSame
  <2>6. CASE WindowFails(r) \/ Forbidden(r)
    BY <1>1, <1>2, <1>3, <2>6, Failed, QueueSame
  <2>7. CASE PagedStep(r)
    <3>1. PICK w, start, status, next :
            \/ RootSaved(m, w, start, status, next)
            \/ \E key : key[2] = w /\ ChildSaved(m, key, start, status, next)
      BY <1>3, <2>7, SavedPage
    <3>2. CASE RootSaved(m, w, start, status, next)
      <4>1. parent[m] \in Parent
        BY DEF ControlInv, Typed
      <4>2. /\ parent'[m].window = parent[m].window
            /\ parent'[m].partition = parent[m].partition
            /\ \A q \in Mappings \ {m} : parent'[q] = parent[q]
        BY <3>2, <4>1 DEF RootSaved, Parent
      <4>3. QED
        BY <1>1, <1>2, <4>2, QueueSame
    <3>3. CASE \E key : key[2] = w /\ ChildSaved(m, key, start, status, next)
      BY <1>2, <3>3 DEF ChildSaved
    <3>4. QED
      BY <3>1, <3>2, <3>3
  <2>8. QED
    BY <1>3, <2>1, <2>2, <2>3, <2>4, <2>5, <2>6, <2>7
<1>4. QED
  BY <1>2, <1>3, StepCases

-----------------------------------------------------------------------------
(* From window to window *)

LEMMA NoGapSame ==
  ASSUME Grows, NEW n \in Mappings, NoGapAt(n),
         parent'[n].until = parent[n].until,
         origin'[n] = origin[n] \/ parent[n].until = Never
  PROVE  NoGapAt(n)'
  BY DEF NoGapAt, Grows

(* A window that succeeds links up with the last one: an article before its *)
(* start was submitted more than an overlap before the last query, which    *)
(* therefore could find it.                                                 *)
LEMMA NoGapGrows ==
  ASSUME ControlInv, Grows, NEW n \in Mappings, NoGapAt(n),
         NEW w \in Windows, w = parent[n].window, parent[n].status # "succeeded",
         parent'[n].until = w.until, origin'[n] = origin[n],
         Due(w, w.until) \subseteq persisted'[n]
  PROVE  NoGapAt(n)'
<1>1. /\ CursorInv(n) /\ parent[n].window # NoWindow /\ parent[n] \in Parent
      /\ w.from \in Int /\ w.until \in Int
  BY WindowFacts DEF ControlInv, Typed
<1>2. w.from = IF parent[n].until = Never THEN origin[n] ELSE parent[n].until - Overlap
  BY <1>1 DEF CursorInv
<1>3. SUFFICES ASSUME NEW a \in Articles,
                      Written(origin[n]) <= Submitted[a], Submitted[a] <= Written(w.until),
                      Visible[a] <= w.until
               PROVE  a \in persisted'[n]
  BY DEF NoGapAt
<1>4. CASE Written(w.from) <= Submitted[a]
  BY <1>3, <1>4 DEF Due, Matching
<1>5. CASE ~(Written(w.from) <= Submitted[a])
  <2>1. parent[n].until # Never /\ w.from = parent[n].until - Overlap
    BY <1>2, <1>3, <1>5
  <2>2. PICK until \in Int, from \in Int :
          until = parent[n].until /\ from = w.from /\ from = until - Overlap
    BY <1>1, <2>1, Past
  <2>3. /\ Written(from) \in Int /\ Written(until) \in Int /\ Written(from) <= from
        /\ Written(from) <= Written(until) /\ Overlap \in Nat
    BY <2>2, WrittenGrows, WindowFacts
  <2>4. /\ Submitted[a] \in Int /\ Visible[a] \in Int
        /\ Visible[a] <= Submitted[a] + Overlap
    BY ArticleAssumption, DelayAssumption
  <2>5. Submitted[a] < Written(from)
    BY <1>5, <2>2, <2>3, <2>4
  <2>6. Submitted[a] <= Written(until) /\ Visible[a] <= until
    BY <2>2, <2>3, <2>4, <2>5
  <2>7. a \in persisted[n]
    BY <1>3, <2>1, <2>2, <2>6 DEF NoGapAt
  <2>8. QED
    BY <2>7 DEF Grows
<1>6. QED
  BY <1>4, <1>5

LEMMA NoGapStep ==
  ASSUME HonestPages, ControlInv, [Next]_vars, NEW n \in Mappings, DataInv(n)
  PROVE  NoGapAt(n)'
<1>1. Grows /\ Typed
  BY GrowsStep DEF ControlInv
<1>2. RootHeld(n) /\ QueueHolds(n) /\ NoGapAt(n)
  BY DEF DataInv
<1>3. CASE parent'[n].until = parent[n].until /\ origin'[n] = origin[n]
  BY <1>1, <1>2, <1>3, NoGapSame
<1>4. ASSUME NEW r \in Runs, NEW m \in Mappings, m = M(r),
             \/ OpenRoot(r) \/ SkipChild(r) \/ ChildOutcome(r)
             \/ RootOutcome(r) /\ run[r].outcome = "split"
             \/ OpenChild(r) \/ CompletePartition(r) \/ PagedStep(r)
             \/ WindowFails(r) \/ Forbidden(r)
      PROVE  NoGapAt(n)'
  <2>1. CASE OpenRoot(r)
    <3>1. CASE n = m
      BY <1>1, <1>2, <1>4, <2>1, <3>1, RootOpened, NoGapSame
    <3>2. CASE n # m
      BY <1>3, <1>4, <2>1, <3>2, RootOpened DEF Same
    <3>3. QED
      BY <3>1, <3>2
  <2>2. CASE SkipChild(r) \/ ChildOutcome(r)
    <3>1. PICK queue : Repartitions(m, queue)
      BY <1>4, <2>2, Requeued
    <3>2. QED
      BY <1>3, <3>1 DEF Repartitions
  <2>3. CASE RootOutcome(r) /\ run[r].outcome = "split"
    <3>1. PICK queue : Repartitions(m, queue)
      BY <1>4, <2>3, RootSplit
    <3>2. QED
      BY <1>3, <3>1 DEF Repartitions
  <2>4. CASE OpenChild(r)
    BY <1>3, <1>4, <2>4, Opened
  <2>5. CASE WindowFails(r) \/ Forbidden(r)
    BY <1>3, <1>4, <2>5, Failed
  <2>6. CASE CompletePartition(r)
    <3>1. CASE n # m
      BY <1>3, <1>4, <2>6, <3>1, Completed
    <3>2. CASE n = m
      <4>1. PICK w \in Windows : w = parent[m].window
        BY <1>4, <2>6, Completed
      <4>2. /\ parent[m].partition = [root |-> w, pending |-> <<>>]
            /\ parent[m].status # "succeeded" /\ parent'[m].until = w.until
            /\ origin' = origin /\ persisted' = persisted
        BY <1>4, <2>6, <4>1, Completed DEF Unfinished
      <4>3. Due(w, w.until) \subseteq persisted[m]
        BY <1>2, <3>2, <4>1, <4>2, WindowFacts DEF QueueHolds
      <4>4. QED
        BY <1>1, <1>2, <3>2, <4>1, <4>2, <4>3, NoGapGrows
    <3>3. QED
      BY <3>1, <3>2
  <2>7. CASE PagedStep(r)
    <3>1. PICK w, start, status, next, page :
            /\ Paged(m, w, start, next, status, page)
            /\ \/ RootSaved(m, w, start, status, next)
               \/ \E key : key[2] = w /\ ChildSaved(m, key, start, status, next)
      BY <1>4, <2>7, SavedPage
    <3>2. origin' = origin /\ w \in Windows
      BY <3>1 DEF Paged
    <3>3. CASE \E key : key[2] = w /\ ChildSaved(m, key, start, status, next)
      BY <1>3, <3>2, <3>3 DEF ChildSaved
    <3>4. CASE RootSaved(m, w, start, status, next) /\ n # m
      BY <1>3, <3>2, <3>4 DEF RootSaved
    <3>5. CASE RootSaved(m, w, start, status, next) /\ n = m
      <4>1. /\ parent[m] \in Parent /\ w = parent[m].window /\ parent[m].status # "succeeded"
            /\ parent'[m].until = IF status = "succeeded" THEN w.until ELSE parent[m].until
        BY <1>1, <3>5 DEF RootSaved, Typed, Parent
      <4>2. CASE status = "succeeded"
        <5>1. Due(w, w.until) \subseteq persisted'[m]
          BY <1>2, <3>1, <3>5, <4>2, RootPage
        <5>2. QED
          BY <1>1, <1>2, <3>2, <3>5, <4>1, <4>2, <5>1, NoGapGrows
      <4>3. CASE status # "succeeded"
        BY <1>3, <3>2, <3>5, <4>1, <4>3
      <4>4. QED
        BY <4>2, <4>3
    <3>6. QED
      BY <3>1, <3>3, <3>4, <3>5
  <2>8. QED
    BY <1>4, <2>1, <2>2, <2>3, <2>4, <2>5, <2>6, <2>7
<1>5. QED
  BY <1>3, <1>4, StepCases

LEMMA DataStep ==
  ASSUME HonestPages, ControlInv, [Next]_vars, NEW n \in Mappings, DataInv(n)
  PROVE  DataInv(n)'
<1>1. RootHeld(n) /\ QueueHolds(n) /\ \A k \in DOMAIN child[n] : ChildHeld(n, k)
  BY DEF DataInv
<1>2. RootHeld(n)'
  BY <1>1, RootStep
<1>3. \A k \in DOMAIN child'[n] : ChildHeld(n, k)'
  BY <1>1, ChildStep
<1>4. QueueHolds(n)'
  BY <1>1, QueueStep
<1>5. NoGapAt(n)'
  BY NoGapStep
<1>6. QED
  BY <1>2, <1>3, <1>4, <1>5 DEF DataInv

(* The cursor of a mapping never passes an article that queries could find: *)
(* whatever is split, stopped, resumed, repeated or lost in a crash, and    *)
(* however many articles appear between two pages, what the cursor says has *)
(* been collected is in Silver, from the first window on.                   *)
THEOREM NoArticleSkipped == ASSUME OneProcess, HonestPages PROVE Spec => []NoGap
<1> DEFINE AllData == \A m \in Mappings : DataInv(m)
<1>1. Init => AllData
  <2> SUFFICES ASSUME Init, NEW m \in Mappings
               PROVE  DataInv(m)
    OBVIOUS
  <2>1. parent[m] = NewParent /\ child[m] = <<>>
    BY DEF Init
  <2>2. Held(m, NoWindow, 0, 0)
    BY HeldNothing
  <2>3. RootHeld(m)
    BY <2>1, <2>2 DEF RootHeld, NewParent, NoWindow
  <2>4. QED
    BY <2>1, <2>3 DEF DataInv, QueueHolds, NoGapAt, NewParent, NoPartition
<1>2. ControlInv /\ AllData /\ [Next]_vars => AllData'
  BY DataStep
<1>3. AllData => NoGap
  BY DEF DataInv, NoGapAt, NoGap
<1>4. QED
  BY <1>1, <1>2, <1>3, ControlAlways, PTL DEF Spec
=============================================================================
