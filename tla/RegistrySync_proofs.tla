------------------------ MODULE RegistrySync_proofs ------------------------
(***************************************************************************)
(* Proofs about RegistrySync: a comparison that is still current when its  *)
(* transaction commits, what a transaction has written so far, and from    *)
(* these that the audit log replays, that the files are authoritative,     *)
(* that retirement dates last, that a sync of the same registry does       *)
(* nothing, and that an alias means one topic.                             *)
(***************************************************************************)
EXTENDS RegistrySync, FiniteSetTheorems, SequenceTheorems, TLAPS

-----------------------------------------------------------------------------
(* The invariants *)

(* The definitions a sync's transaction has written.                        *)
Done(l) == {key \in Keys(l.content) : key[1] = "category" \/ key[2] \notin l.todo}
DoneSlugs(l) == Slugs(l.content.topics) \ l.todo

Comparing == {"open", "categories", "topics"}

(* The locals of a sync that has them all.                                  *)
Locals(l) ==
  /\ DOMAIN l = DOMAIN Idle
  /\ l.pc \in {"idle", "latest", "diff"} \cup Comparing
  /\ l.content \in Contents \cup {Empty}
  /\ Valid(l.content)

(* As long as no sync committed since the latest version was read, the      *)
(* comparison is the one of the committed rows.                             *)
ComparisonIsCurrent(l) ==
  l.pc \in Comparing /\ l.latest = Len(versions) =>
    /\ l.changes = compare(l.content, rows, versions)
    /\ l.changes # {}
    /\ l.warned = warnings(l.content, rows)

DateBefore(slug) == IF slug \in DOMAIN deprecated THEN deprecated[slug] ELSE 0

WritesRows(l) ==
  /\ DOMAIN l.rows = DOMAIN rows \cup Done(l)
  /\ \A key \in DOMAIN l.rows :
       l.rows[key] = IF key \in Done(l) THEN Declared(l.content, key) ELSE rows[key]

WritesDates(l) ==
  /\ DOMAIN l.deprecated = DOMAIN deprecated \cup DoneSlugs(l)
  /\ \A slug \in DOMAIN l.deprecated :
       l.deprecated[slug] =
         IF slug \in DoneSlugs(l)
         THEN deprecated_at(Declared(l.content, TopicKey(slug)), DateBefore(slug), l.latest + 1)
         ELSE deprecated[slug]

(* The tables as a transaction sees them: what it has written, and the      *)
(* committed rows.                                                          *)
TransactionTables(l) ==
  /\ l.pc = "categories" => l.rows = rows /\ l.deprecated = deprecated
  /\ l.pc = "topics" =>
       l.todo \subseteq Slugs(l.content.topics) /\ WritesRows(l) /\ WritesDates(l)

(* The number of the version that is open is still the next.                *)
NextVersion(l) == l.pc \in {"categories", "topics"} => l.latest = Len(versions)

Fits(l) ==
  /\ Locals(l) /\ l.latest \in 0..Len(versions)
  /\ ComparisonIsCurrent(l) /\ TransactionTables(l) /\ NextVersion(l)

SyncInv ==
  /\ files \in Contents \cup {Empty}
  /\ DOMAIN sync = Syncs
  /\ \A l \in Range(sync) : Fits(l)
  /\ \A p, q \in Syncs : InTransaction(p) /\ InTransaction(q) => p = q

(* The committed tables, as constants: rows rs, dates, versions vs.         *)
ChangesIn(vs, v, key) == {change \in vs[v].changes : change.key = key}
Audits(vs, key) == {v \in DOMAIN vs : ChangesIn(vs, v, key) # {}}
Retires(change) ==
  /\ \A topic \in change.after : topic.status = "deprecated"
  /\ \A topic \in change.before : topic.status # "deprecated"
Retirements(vs, slug) ==
  {v \in Audits(vs, TopicKey(slug)) : \E c \in ChangesIn(vs, v, TopicKey(slug)) : Retires(c)}

(* A row has an audit entry, and an audited key its row.                    *)
Logged(rs, vs) ==
  /\ \E entries : vs \in Seq(entries)
  /\ \A key \in DOMAIN rs : key # <<"registry">> /\ Audits(vs, key) # {}
  /\ \A v \in DOMAIN vs : vs[v].checksum = registry_checksum(vs[v].content)

(* An entry continues the entry before it, and the last one left the row.   *)
Continues(rs, vs, v, change) ==
  LET earlier == {u \in Audits(vs, change.key) : u < v}
      later == {u \in Audits(vs, change.key) : u > v} IN
  /\ change.before = IF earlier = {} THEN {}
                     ELSE (CHOOSE c \in ChangesIn(vs, Max(earlier), change.key) : TRUE).after
  /\ later = {} => change.after = Before(rs, change.key)

Replays(rs, vs) ==
  \A v \in DOMAIN vs : \A change \in vs[v].changes \ {RegistryUpdate} :
    change.key \in DOMAIN rs /\ Continues(rs, vs, v, change)

Holds(rs, vs) ==
  vs # <<>> =>
    \A key \in Keys(vs[Len(vs)].content) :
      Before(rs, key) = {Declared(vs[Len(vs)].content, key)}

(* Dates are kept for the rows of topics, and a retired topic was retired   *)
(* by a version.                                                            *)
Dated(rs, dates, vs) ==
  /\ \A slug : slug \in DOMAIN dates <=> TopicKey(slug) \in DOMAIN rs
  /\ \A slug \in DOMAIN dates :
       IF rs[TopicKey(slug)].status = "deprecated"
       THEN Retirements(vs, slug) # {} /\ dates[slug] = Max(Retirements(vs, slug))
       ELSE dates[slug] = 0

Differs(vs) ==
  \A v \in 2..Len(vs) :
    vs[v].content # vs[v - 1].content \/ vs[v].warnings # vs[v - 1].warnings

Committed(rs, dates, vs) ==
  Logged(rs, vs) /\ Replays(rs, vs) /\ Holds(rs, vs) /\ Dated(rs, dates, vs) /\ Differs(vs)

CommittedInv == Committed(rows, deprecated, versions)

RegistryInv == SyncInv /\ CommittedInv

-----------------------------------------------------------------------------
(* Least and greatest numbers *)

LEMMA LeastNatural ==
  ASSUME NEW S, S \subseteq Nat, S # {}
  PROVE  \E n \in S : \A k \in S : n <= k
<1> DEFINE below == {ss \in Nat \X Nat : ss[1] < ss[2]}
<1>1. below = OpToRel(<, Nat)
  BY Zenon DEF OpToRel
<1>2. IsWellFoundedOn(below, Nat)
  BY <1>1, NatLessThanWellFounded
<1>3. PICK n \in S : \A k \in S : <<k, n>> \notin below
  <2> HIDE DEF below
  <2> QED
    BY <1>2, WFMin
<1>4. ASSUME NEW k \in S PROVE n <= k
  <2>1. <<k, n>> \in Nat \X Nat /\ <<k, n>> \notin below
    BY <1>3
  <2>2. ~(k < n)
    BY <2>1
  <2>3. QED
    BY <2>2
<1> QED
  BY <1>4

LEMMA MaxOfVersions ==
  ASSUME NEW n \in Nat, NEW S, S \subseteq 1..n, S # {}
  PROVE  Max(S) \in S /\ \A k \in S : k <= Max(S)
<1> DEFINE distances == {n - k : k \in S}
<1>1. distances \subseteq Nat /\ distances # {}
  <2>1. \A k \in S : n - k \in Nat
    OBVIOUS
  <2>2. \A d \in distances : \E k \in S : d = n - k
    BY Zenon
  <2>3. \A k \in S : n - k \in distances
    BY Zenon
  <2> HIDE DEF distances
  <2> QED
    BY <2>1, <2>2, <2>3
<1>2. PICK d \in distances : \A e \in distances : d <= e
  <2> HIDE DEF distances
  <2> QED
    BY <1>1, LeastNatural
<1>3. PICK m \in S : d = n - m
  BY <1>2
<1>4. ASSUME NEW k \in S PROVE m >= k
  BY <1>2, <1>3
<1>5. \E x \in S : \A y \in S : x >= y
  BY <1>4
<1>6. Max(S) \in S /\ \A k \in S : Max(S) >= k
  BY <1>5 DEF Max
<1> QED
  BY <1>6

(* The topic that is written next is one of those still to write.          *)
LEMMA FirstIsOne ==
  ASSUME NEW slugs, slugs \subseteq ToSet(SlugOrder), slugs # {}
  PROVE  First(slugs) \in slugs
<1> DEFINE at == {i \in DOMAIN SlugOrder : SlugOrder[i] \in slugs}
<1>1. DOMAIN SlugOrder \subseteq Nat
  BY RegistryAssumption
<1>2. at # {} /\ at \subseteq Nat
  BY <1>1 DEF ToSet
<1>3. PICK i \in at : \A j \in at : i <= j
  <2> HIDE DEF at
  <2> QED
    BY <1>2, LeastNatural
<1>4. \A j \in 1..(i - 1) : SlugOrder[j] \notin slugs
  <2> SUFFICES ASSUME NEW j \in 1..(i - 1), SlugOrder[j] \in slugs PROVE FALSE
    OBVIOUS
  <2>1. DOMAIN SlugOrder = 1..Len(SlugOrder) /\ Len(SlugOrder) \in Nat
    BY RegistryAssumption
  <2>2. i \in 1..Len(SlugOrder)
    BY <2>1
  <2>3. j \in at
    BY <2>1, <2>2
  <2> QED
    BY <1>3, <2>2, <2>3
<1>5. QED
  BY <1>3, <1>4 DEF First

-----------------------------------------------------------------------------
(* Keys and entries *)

LEMMA EntryOfKey ==
  ASSUME NEW content, NEW entry \in Entries(content)
  PROVE  /\ entry = [key |-> entry.key, after |-> entry.after]
         /\ entry.key # <<"registry">> /\ entry.key \in Keys(content)
<1>1. entry.key \in Keys(content)
  BY DEF Keys
<1>2. CASE \E c \in content.categories : entry = [key |-> CategoryKey(c.slug), after |-> c]
  BY <1>1, <1>2 DEF CategoryKey
<1>3. CASE \E t \in content.topics : entry = [key |-> TopicKey(t.slug), after |-> t]
  BY <1>1, <1>3 DEF TopicKey
<1>4. CASE \E a \in content.aliases : entry = [key |-> AliasKey(a), after |-> a]
  BY <1>1, <1>4 DEF AliasKey
<1>5. CASE \E m \in content.mappings : entry = [key |-> MappingKey(m), after |-> m]
  BY <1>1, <1>5 DEF MappingKey
<1> QED
  BY <1>2, <1>3, <1>4, <1>5 DEF Entries

(* The definitions under topic keys and under category keys.                *)
LEMMA TopicKeys ==
  ASSUME NEW content, NEW slug
  PROVE  TopicKey(slug) \in Keys(content) <=> slug \in Slugs(content.topics)
<1>1. ASSUME slug \in Slugs(content.topics) PROVE TopicKey(slug) \in Keys(content)
  <2>1. PICK t \in content.topics : t.slug = slug
    BY <1>1 DEF Slugs
  <2>2. [key |-> TopicKey(t.slug), after |-> t] \in Entries(content)
    BY DEF Entries
  <2> QED
    BY <2>1, <2>2 DEF Keys
<1>2. ASSUME TopicKey(slug) \in Keys(content) PROVE slug \in Slugs(content.topics)
  <2>1. PICK entry \in Entries(content) : entry.key = TopicKey(slug)
    BY <1>2 DEF Keys
  <2>2. entry.key[1] = "topic" /\ entry.key[2] = slug
    BY <2>1 DEF TopicKey
  <2>3. CASE \E c \in content.categories : entry = [key |-> CategoryKey(c.slug), after |-> c]
    BY <2>2, <2>3 DEF CategoryKey
  <2>4. CASE \E t \in content.topics : entry = [key |-> TopicKey(t.slug), after |-> t]
    BY <2>2, <2>4 DEF TopicKey, Slugs
  <2>5. CASE \E a \in content.aliases : entry = [key |-> AliasKey(a), after |-> a]
    BY <2>2, <2>5 DEF AliasKey
  <2>6. CASE \E m \in content.mappings : entry = [key |-> MappingKey(m), after |-> m]
    BY <2>2, <2>6 DEF MappingKey
  <2> QED
    BY <2>3, <2>4, <2>5, <2>6 DEF Entries
<1> QED
  BY <1>1, <1>2

(* What is written under a key is what is declared for it, when the entries *)
(* written are all those of some keys.                                      *)
EntriesUnder(content, keys) == {e \in Entries(content) : e.key \in keys}

Writes(table, content, keys, written) ==
  /\ DOMAIN written = DOMAIN table \cup keys
  /\ \A key \in keys : written[key] = Declared(content, key)
  /\ \A key \in DOMAIN table \ keys : written[key] = table[key]

LEMMA UpsertWrites ==
  ASSUME NEW table, NEW content, NEW keys, keys \subseteq Keys(content)
  PROVE  Writes(table, content, keys, Upsert(table, EntriesUnder(content, keys)))
<1> DEFINE entries == EntriesUnder(content, keys)
<1>1. {e.key : e \in entries} = keys
  BY DEF Keys, EntriesUnder
<1>2. ASSUME NEW key \in keys
      PROVE  With(entries, key) = With(Entries(content), key) /\ With(entries, key) # {}
  BY DEF With, Keys, EntriesUnder
<1>3. ASSUME NEW key, key \notin keys PROVE With(entries, key) = {}
  BY <1>3 DEF With, EntriesUnder
<1> HIDE DEF entries
<1>4. /\ DOMAIN Upsert(table, entries) = DOMAIN table \cup keys
      /\ \A key \in keys : Upsert(table, entries)[key] = Declared(content, key)
      /\ \A key \in DOMAIN table \ keys : Upsert(table, entries)[key] = table[key]
  BY <1>1, <1>2, <1>3 DEF Upsert, Declared
<1> QED
  BY <1>4 DEF entries, Writes

(* What a comparison holds.                                                 *)
ChangeOf(content, table, key) ==
  [key |-> key, before |-> Before(table, key), after |-> {Declared(content, key)}]

LEMMA Comparison ==
  ASSUME NEW content, NEW table, NEW known
  PROVE  /\ \A change \in compare(content, table, known) \ {RegistryUpdate} :
              /\ change.key \in Keys(content)
              /\ change = ChangeOf(content, table, change.key)
              /\ change.before # change.after
         /\ \A key \in Keys(content) : Before(table, key) # {Declared(content, key)} =>
              ChangeOf(content, table, key) \in compare(content, table, known) \ {RegistryUpdate}
<1> DEFINE changes == Changes(content, table)
<1>1. \A change \in changes :
        /\ change.key \in Keys(content)
        /\ change = ChangeOf(content, table, change.key)
        /\ change.before # change.after
  BY DEF Changes, ChangeOf
<1>2. ASSUME NEW key \in Keys(content), Before(table, key) # {Declared(content, key)}
      PROVE  ChangeOf(content, table, key) \in changes
  BY <1>2 DEF Changes, ChangeOf
<1>3. RegistryUpdate \notin changes
  <2>1. \A change \in changes : change.after # {}
    BY <1>1 DEF ChangeOf
  <2> QED
    BY <2>1 DEF RegistryUpdate
<1>4. compare(content, table, known) = changes
      \/ (changes = {} /\ compare(content, table, known) = {RegistryUpdate})
  BY DEF compare
<1> HIDE DEF changes
<1> QED
  BY <1>1, <1>2, <1>3, <1>4

-----------------------------------------------------------------------------
(* Steps that leave the committed tables as they are *)

LEMMA FitsKept ==
  ASSUME NEW l, Fits(l), UNCHANGED <<rows, deprecated, versions>>
  PROVE  Fits(l)'
<1>1. ComparisonIsCurrent(l)'
  BY DEF Fits, ComparisonIsCurrent
<1>2. TransactionTables(l)'
  BY DEF Fits, TransactionTables, WritesRows, WritesDates, DateBefore
<1> QED
  BY <1>1, <1>2 DEF Fits, NextVersion

LEMMA CommittedKept ==
  ASSUME CommittedInv, UNCHANGED <<rows, deprecated, versions>>
  PROVE  CommittedInv'
BY DEF CommittedInv

LEMMA SyncOf ==
  ASSUME SyncInv, NEW p \in Syncs
  PROVE  Fits(sync[p])
BY DEF SyncInv, Range

(* A sync that moves on to locals that fit, alone in its transaction.       *)
LEMMA LocalStep ==
  ASSUME RegistryInv, NEW p \in Syncs, NEW l, Fits(l), Set(p, l),
         UNCHANGED <<files, rows, deprecated, versions>>,
         l.pc \in {"categories", "topics"} => \A q \in Syncs : InTransaction(q) => q = p
  PROVE  RegistryInv'
<1>1. DOMAIN sync = Syncs /\ \A m \in Range(sync) : Fits(m)
  BY DEF RegistryInv, SyncInv
<1>2. DOMAIN sync' = Syncs /\ \A q \in Syncs : sync'[q] = IF q = p THEN l ELSE sync[q]
  BY <1>1 DEF Set
<1>3. ASSUME NEW m \in Range(sync)' PROVE Fits(m)'
  <2>1. m = l \/ m \in Range(sync)
    BY <1>1, <1>2 DEF Range
  <2> QED
    BY <1>1, <2>1, FitsKept
<1>4. ASSUME NEW q \in Syncs, NEW r \in Syncs, InTransaction(q)', InTransaction(r)'
      PROVE  q = r
  <2>1. q # p => InTransaction(q)
    BY <1>2, <1>4 DEF InTransaction
  <2>2. r # p => InTransaction(r)
    BY <1>2, <1>4 DEF InTransaction
  <2>3. q = p \/ r = p => l.pc \in {"categories", "topics"}
    BY <1>2, <1>4 DEF InTransaction
  <2> QED
    BY <2>1, <2>2, <2>3 DEF RegistryInv, SyncInv
<1>5. SyncInv'
  BY <1>2, <1>3, <1>4 DEF RegistryInv, SyncInv
<1> QED
  BY <1>5, CommittedKept DEF RegistryInv

LEMMA EmptyIsValid == Valid(Empty)
<1>1. ~HasCycle({})
  <2>1. ASSUME NEW cycle \in SUBSET {}, cycle # {} PROVE FALSE
    <3>1. \A x : x \in cycle => x \in {}
      OBVIOUS
    <3> QED
      BY <2>1, <3>1
  <2> QED
    BY <2>1 DEF HasCycle
<1>2. CategoriesValid(Empty.categories)
  BY <1>1 DEF Empty, CategoriesValid, Unique, Slugs
<1>3. TopicsValid(Empty)
  BY DEF Empty, TopicsValid, Unique, Slugs
<1>4. Collisions(Empty) = {}
  BY DEF Collisions, Empty
<1>5. AliasesValid(Empty)
  BY <1>4 DEF Empty, AliasesValid, Unique, Slugs
<1> QED
  BY <1>2, <1>3, <1>5 DEF Valid

LEMMA IdleFits ==
  ASSUME NEW n \in Nat, Len(versions) = n
  PROVE  Fits(Idle)
BY EmptyIsValid DEF Fits, Locals, Idle, ComparisonIsCurrent, TransactionTables, NextVersion,
   Comparing

LEMMA VersionsAreCounted ==
  ASSUME CommittedInv
  PROVE  Len(versions) \in Nat
BY DEF CommittedInv, Committed, Logged

(* A sync that ends without a version.                                      *)
LEMMA ToIdle ==
  ASSUME RegistryInv, NEW p \in Syncs, Set(p, Idle),
         UNCHANGED <<files, rows, deprecated, versions>>
  PROVE  RegistryInv'
<1>1. Fits(Idle)
  BY VersionsAreCounted, IdleFits DEF RegistryInv
<1>2. Idle.pc \notin {"categories", "topics"}
  BY DEF Idle
<1> QED
  BY <1>1, <1>2, LocalStep

LEMMA LocalFields ==
  DOMAIN Idle = {"pc", "content", "latest", "changes", "warned", "rows", "deprecated", "todo"}
BY DEF Idle

LEMMA LoadKeeps ==
  ASSUME RegistryInv, NEW p \in Syncs, Load(p)
  PROVE  RegistryInv'
<1> DEFINE l == [Idle EXCEPT !.pc = "latest", !.content = files]
<1>1. DOMAIN l = DOMAIN Idle /\ l.pc = "latest" /\ l.content = files /\ l.latest = 0
  BY LocalFields DEF Idle
<1>2. Set(p, l) /\ UNCHANGED <<files, rows, deprecated, versions>> /\ Valid(files)
  BY DEF Load
<1> HIDE DEF l
<1>3. Locals(l) /\ l.latest \in 0..Len(versions)
  BY <1>1, <1>2, VersionsAreCounted DEF RegistryInv, SyncInv, Locals
<1>4. Fits(l)
  BY <1>1, <1>3 DEF Fits, ComparisonIsCurrent, TransactionTables, NextVersion, Comparing
<1> QED
  BY <1>1, <1>2, <1>4, LocalStep

LEMMA ReadLatestKeeps ==
  ASSUME RegistryInv, NEW p \in Syncs, ReadLatest(p)
  PROVE  RegistryInv'
<1> DEFINE l == [sync[p] EXCEPT !.pc = "diff", !.latest = Len(versions)]
<1>1. Fits(sync[p])
  BY SyncOf DEF RegistryInv
<1>2. /\ DOMAIN l = DOMAIN Idle /\ l.pc = "diff"
      /\ l.content = sync[p].content /\ l.latest = Len(versions)
  BY <1>1, LocalFields DEF Fits, Locals
<1>3. Set(p, l) /\ UNCHANGED <<files, rows, deprecated, versions>>
  BY DEF ReadLatest
<1> HIDE DEF l
<1>4. Locals(l) /\ l.latest \in 0..Len(versions)
  BY <1>1, <1>2, VersionsAreCounted DEF RegistryInv, Fits, Locals
<1>5. Fits(l)
  BY <1>2, <1>4 DEF Fits, ComparisonIsCurrent, TransactionTables, NextVersion, Comparing
<1> QED
  BY <1>2, <1>3, <1>5, LocalStep

LEMMA DiffKeeps ==
  ASSUME RegistryInv, NEW p \in Syncs, Diff(p)
  PROVE  RegistryInv'
<1> DEFINE changes == compare(sync[p].content, rows, Known(p))
           l == [sync[p] EXCEPT !.pc = "open", !.changes = changes,
                                !.warned = warnings(sync[p].content, rows)]
<1>1. Fits(sync[p])
  BY SyncOf DEF RegistryInv
<1>2. CASE Set(p, Idle)
  BY <1>2, ToIdle DEF Diff
<1>3. CASE changes # {} /\ Set(p, l)
  <2>1. /\ DOMAIN l = DOMAIN Idle /\ l.pc = "open"
        /\ l.content = sync[p].content /\ l.latest = sync[p].latest
        /\ l.changes = changes /\ l.warned = warnings(sync[p].content, rows)
    BY <1>1, LocalFields DEF Fits, Locals
  <2>2. sync[p].latest = Len(versions) => Known(p) = versions
    BY SubSeqFull DEF Known, RegistryInv, CommittedInv, Committed, Logged
  <2>3. l.latest = Len(versions) => l.changes = compare(l.content, rows, versions)
    BY <2>1, <2>2
  <2> HIDE DEF l, changes
  <2>4. Locals(l) /\ l.latest \in 0..Len(versions)
    BY <1>1, <2>1 DEF Fits, Locals, Comparing
  <2>5. ComparisonIsCurrent(l)
    BY <1>3, <2>1, <2>3 DEF ComparisonIsCurrent
  <2>6. Fits(l)
    BY <2>1, <2>4, <2>5 DEF Fits, TransactionTables, NextVersion
  <2> QED
    BY <1>3, <2>1, <2>6, LocalStep DEF Diff
<1> QED
  BY <1>2, <1>3 DEF Diff

LEMMA OpenVersionKeeps ==
  ASSUME RegistryInv, NEW p \in Syncs, OpenVersion(p)
  PROVE  RegistryInv'
<1> DEFINE l == [sync[p] EXCEPT !.pc = "categories", !.rows = rows, !.deprecated = deprecated]
<1>1. Fits(sync[p]) /\ sync[p].pc = "open"
  BY SyncOf DEF RegistryInv, OpenVersion, At
<1>2. CASE Set(p, Idle)
  BY <1>2, ToIdle DEF OpenVersion
<1>3. CASE Set(p, l) /\ VersionFree(p)
  <2>1. /\ DOMAIN l = DOMAIN Idle /\ l.pc = "categories"
        /\ l.content = sync[p].content /\ l.latest = sync[p].latest
        /\ l.changes = sync[p].changes /\ l.warned = sync[p].warned
        /\ l.rows = rows /\ l.deprecated = deprecated
    BY <1>1, LocalFields DEF Fits, Locals
  <2> HIDE DEF l
  <2>2. Locals(l) /\ l.latest \in 0..Len(versions)
    BY <1>1, <2>1 DEF Fits, Locals, Comparing
  <2>3. ComparisonIsCurrent(l)
    BY <1>1, <2>1 DEF Fits, ComparisonIsCurrent, Comparing
  <2>4. Fits(l)
    BY <1>3, <2>1, <2>2, <2>3 DEF Fits, TransactionTables, NextVersion, VersionFree
  <2> QED
    BY <1>3, <2>4, LocalStep DEF OpenVersion
<1> QED
  BY <1>2, <1>3 DEF OpenVersion

(* All definitions but categories are of a topic of the content.            *)
LEMMA KeysAreOfTopics ==
  ASSUME NEW content \in Contents \cup {Empty}, NEW key \in Keys(content),
         key[1] # "category"
  PROVE  key[2] \in Slugs(content.topics)
<1>1. PICK entry \in Entries(content) : entry.key = key
  BY DEF Keys
<1>2. Topics(content.aliases \cup content.mappings) \subseteq Slugs(content.topics)
  BY RegistryAssumption DEF Empty, Topics
<1>3. CASE \E c \in content.categories : entry = [key |-> CategoryKey(c.slug), after |-> c]
  BY <1>1, <1>3 DEF CategoryKey
<1>4. CASE \E t \in content.topics : entry = [key |-> TopicKey(t.slug), after |-> t]
  BY <1>1, <1>4 DEF TopicKey, Slugs
<1>5. CASE \E a \in content.aliases : entry = [key |-> AliasKey(a), after |-> a]
  BY <1>1, <1>2, <1>5 DEF AliasKey, Topics
<1>6. CASE \E m \in content.mappings : entry = [key |-> MappingKey(m), after |-> m]
  BY <1>1, <1>2, <1>6 DEF MappingKey, Topics
<1> QED
  BY <1>3, <1>4, <1>5, <1>6 DEF Entries

LEMMA SlugsAreOrdered ==
  ASSUME NEW content \in Contents \cup {Empty}
  PROVE  Slugs(content.topics) \subseteq ToSet(SlugOrder)
<1>1. CASE content \in Contents
  BY <1>1, RegistryAssumption
<1>2. CASE content = Empty
  BY <1>2 DEF Empty, Slugs
<1> QED
  BY <1>1, <1>2

LEMMA SyncCategoriesKeeps ==
  ASSUME RegistryInv, NEW p \in Syncs, SyncCategories(p)
  PROVE  RegistryInv'
<1> DEFINE registry == sync[p].content
           entries == {e \in Entries(registry) : e.key[1] = "category"}
           newrows == Upsert(sync[p].rows, entries)
           l == [sync[p] EXCEPT !.pc = "topics", !.rows = newrows, !.todo = Slugs(registry.topics)]
           keys == {key \in Keys(registry) : key[1] = "category"}
<1>1. Fits(sync[p]) /\ sync[p].pc = "categories" /\ registry \in Contents \cup {Empty}
  BY SyncOf DEF RegistryInv, SyncCategories, At, Fits, Locals
<1>2. CASE Set(p, Idle)
  BY <1>2, ToIdle DEF SyncCategories
<1>3. CASE Set(p, l)
  <2>1. /\ DOMAIN l = DOMAIN Idle /\ l.pc = "topics"
        /\ l.content = registry /\ l.latest = sync[p].latest
        /\ l.changes = sync[p].changes /\ l.warned = sync[p].warned
        /\ l.rows = newrows /\ l.deprecated = sync[p].deprecated
        /\ l.todo = Slugs(registry.topics)
    BY <1>1, LocalFields DEF Fits, Locals
  <2>2. sync[p].rows = rows /\ sync[p].deprecated = deprecated
    BY <1>1 DEF Fits, TransactionTables
  <2>3. keys \subseteq Keys(registry) /\ entries = EntriesUnder(registry, keys)
    BY DEF Keys, EntriesUnder
  <2>4. /\ DOMAIN newrows = DOMAIN rows \cup keys
        /\ \A key \in keys : newrows[key] = Declared(registry, key)
        /\ \A key \in DOMAIN rows \ keys : newrows[key] = rows[key]
    <3>1. Writes(rows, registry, keys, newrows)
      BY <2>2, <2>3, UpsertWrites
    <3> HIDE DEF registry, keys, newrows
    <3> QED
      BY <3>1 DEF Writes
  <2> HIDE DEF l, newrows, entries
  <2>5. Done(l) = keys /\ DoneSlugs(l) = {}
    BY <1>1, <2>1, KeysAreOfTopics DEF Done, DoneSlugs
  <2> HIDE DEF registry, keys
  <2>6. WritesRows(l) /\ WritesDates(l)
    BY <2>1, <2>2, <2>4, <2>5 DEF WritesRows, WritesDates
  <2>7. Locals(l) /\ l.latest \in 0..Len(versions)
    BY <1>1, <2>1 DEF Fits, Locals, Comparing, registry
  <2>8. ComparisonIsCurrent(l) /\ NextVersion(l)
    BY <1>1, <2>1 DEF Fits, ComparisonIsCurrent, NextVersion, Comparing, registry
  <2>9. Fits(l)
    BY <2>1, <2>6, <2>7, <2>8 DEF Fits, TransactionTables
  <2>10. \A q \in Syncs : InTransaction(q) => q = p
    BY <1>1 DEF RegistryInv, SyncInv, InTransaction
  <2> QED
    BY <1>3, <2>9, <2>10, LocalStep DEF SyncCategories
<1> QED
  BY <1>2, <1>3 DEF SyncCategories

LEMMA SyncTopicKeeps ==
  ASSUME RegistryInv, NEW p \in Syncs, SyncTopic(p)
  PROVE  RegistryInv'
<1> DEFINE registry == sync[p].content
           todo == sync[p].todo
           slug == First(todo)
           topic == Declared(registry, TopicKey(slug))
           table == sync[p].deprecated
           before == IF slug \in DOMAIN table THEN table[slug] ELSE 0
           newrows == Upsert(sync[p].rows, TopicEntries(p, slug))
           dates == [s \in DOMAIN table \cup {slug} |->
                       IF s = slug THEN deprecated_at(topic, before, sync[p].latest + 1)
                       ELSE table[s]]
           l == [sync[p] EXCEPT !.rows = newrows, !.deprecated = dates, !.todo = todo \ {slug}]
           keys == {key \in Keys(registry) : key[2] = slug /\ key[1] # "category"}
<1>1. Fits(sync[p]) /\ sync[p].pc = "topics" /\ todo # {}
  BY SyncOf DEF RegistryInv, SyncTopic, At
<1>2. CASE Set(p, Idle)
  BY <1>2, ToIdle DEF SyncTopic
<1>3. CASE Set(p, l)
  <2>1. /\ DOMAIN l = DOMAIN Idle /\ l.pc = "topics"
        /\ l.content = registry /\ l.latest = sync[p].latest
        /\ l.changes = sync[p].changes /\ l.warned = sync[p].warned
        /\ l.rows = newrows /\ l.deprecated = dates /\ l.todo = todo \ {slug}
    BY <1>1, LocalFields DEF Fits, Locals
  <2>2. /\ todo \subseteq Slugs(registry.topics)
        /\ WritesRows(sync[p]) /\ WritesDates(sync[p])
    BY <1>1 DEF Fits, TransactionTables
  <2>3. slug \in todo
    <3>1. Slugs(registry.topics) \subseteq ToSet(SlugOrder)
      BY <1>1, SlugsAreOrdered DEF Fits, Locals
    <3> QED
      BY <1>1, <2>2, <3>1, FirstIsOne
  <2>4. keys \subseteq Keys(registry)
        /\ TopicEntries(p, slug) = EntriesUnder(registry, keys)
    BY DEF TopicEntries, Keys, EntriesUnder
  <2>5. /\ DOMAIN newrows = DOMAIN sync[p].rows \cup keys
        /\ \A key \in keys : newrows[key] = Declared(registry, key)
        /\ \A key \in DOMAIN sync[p].rows \ keys : newrows[key] = sync[p].rows[key]
    <3>1. Writes(sync[p].rows, registry, keys, newrows)
      BY <2>4, UpsertWrites
    <3> HIDE DEF registry, keys, slug, newrows
    <3> QED
      BY <3>1 DEF Writes
  <2>6. /\ Done(l) = Done(sync[p]) \cup keys
        /\ DoneSlugs(l) = DoneSlugs(sync[p]) \cup {slug} /\ slug \notin DoneSlugs(sync[p])
    <3> HIDE DEF l, newrows, dates, slug
    <3> QED
      BY <2>1, <2>2, <2>3 DEF Done, DoneSlugs
  <2>7. before = DateBefore(slug)
    <3> HIDE DEF slug
    <3> QED
      BY <2>2, <2>6 DEF WritesDates, DateBefore
  <2>8. dates = [s \in DOMAIN table \cup {slug} |->
                   IF s = slug THEN deprecated_at(topic, DateBefore(slug), sync[p].latest + 1)
                   ELSE table[s]]
    BY <2>7
  <2> HIDE DEF l, newrows, dates, slug, keys, before
  <2>9. WritesRows(l)
    BY <2>1, <2>2, <2>5, <2>6 DEF WritesRows
  <2>10. WritesDates(l)
    BY <2>1, <2>2, <2>6, <2>8 DEF WritesDates
  <2>11. Locals(l) /\ l.latest \in 0..Len(versions)
    BY <1>1, <2>1 DEF Fits, Locals
  <2>12. ComparisonIsCurrent(l) /\ NextVersion(l)
    BY <1>1, <2>1 DEF Fits, ComparisonIsCurrent, NextVersion, Comparing
  <2>13. Fits(l)
    BY <2>1, <2>2, <2>9, <2>10, <2>11, <2>12 DEF Fits, TransactionTables
  <2>14. \A q \in Syncs : InTransaction(q) => q = p
    BY <1>1 DEF RegistryInv, SyncInv, InTransaction
  <2> QED
    BY <1>3, <2>13, <2>14, LocalStep DEF SyncTopic
<1> QED
  BY <1>2, <1>3 DEF SyncTopic

-----------------------------------------------------------------------------
(* A commit *)

Version(content, rs, vs) ==
  [content |-> content, checksum |-> registry_checksum(content),
   warnings |-> warnings(content, rs), changes |-> compare(content, rs, vs)]

(* A transaction of content on the tables rs, dates, vs leaves the tables   *)
(* rs2, dates2, vs2.                                                        *)
Commits(content, rs, dates, vs, rs2, dates2, vs2) ==
  /\ compare(content, rs, vs) # {}
  /\ Writes(rs, content, Keys(content), rs2)
  /\ DOMAIN dates2 = DOMAIN dates \cup Slugs(content.topics)
  /\ \A slug \in Slugs(content.topics) :
       dates2[slug] = deprecated_at(Declared(content, TopicKey(slug)),
                        IF slug \in DOMAIN dates THEN dates[slug] ELSE 0, Len(vs) + 1)
  /\ \A slug \in DOMAIN dates \ Slugs(content.topics) : dates2[slug] = dates[slug]
  /\ vs2 = Append(vs, Version(content, rs, vs))

(* vs2 is vs with one more version.                                         *)
Appends(vs, version, vs2) ==
  /\ Len(vs) \in Nat /\ DOMAIN vs = 1..Len(vs)
  /\ Len(vs2) = Len(vs) + 1 /\ DOMAIN vs2 = DOMAIN vs \cup {Len(vs) + 1}
  /\ \A v \in DOMAIN vs : vs2[v] = vs[v]
  /\ vs2[Len(vs) + 1] = version
  /\ \E entries : vs2 \in Seq(entries)

LEMMA VersionAppended ==
  ASSUME NEW vs, \E entries : vs \in Seq(entries), NEW version
  PROVE  Appends(vs, version, Append(vs, version))
<1>1. PICK S : vs \in Seq(S)
  OBVIOUS
<1> DEFINE T == S \cup {version}
<1>2. vs \in Seq(T) /\ version \in T
  BY <1>1, SeqMonotonic
<1>3. /\ Append(vs, version) \in Seq(T) /\ Append(vs, version) # <<>>
      /\ Len(Append(vs, version)) = Len(vs) + 1
      /\ \A i \in 1..Len(vs) : Append(vs, version)[i] = vs[i]
      /\ Append(vs, version)[Len(vs) + 1] = version
  <2> HIDE DEF T
  <2> QED
    BY <1>2, AppendProperties
<1>4. /\ Len(vs) \in Nat /\ DOMAIN vs = 1..Len(vs)
      /\ DOMAIN Append(vs, version) = 1..(Len(vs) + 1)
  <2> HIDE DEF T
  <2> QED
    BY <1>2, <1>3, LenProperties
<1>5. 1..(Len(vs) + 1) = 1..Len(vs) \cup {Len(vs) + 1}
  BY <1>4
<1> HIDE DEF T
<1> QED
  BY <1>3, <1>4, <1>5 DEF Appends

Changed(content, rs, key) ==
  key \in Keys(content) /\ Before(rs, key) # {Declared(content, key)}

LEMMA VersionsAfter ==
  ASSUME NEW content, NEW rs, NEW dates, NEW vs, NEW rs2, NEW dates2, NEW vs2,
         Committed(rs, dates, vs), Commits(content, rs, dates, vs, rs2, dates2, vs2)
  PROVE  Appends(vs, Version(content, rs, vs), vs2)
<1>1. \E entries : vs \in Seq(entries)
  BY DEF Committed, Logged
<1>2. vs2 = Append(vs, Version(content, rs, vs))
  BY DEF Commits
<1> QED
  BY <1>1, <1>2, VersionAppended

(* The audit entries after a commit.                                        *)
AppendsAudits(content, rs, vs, vs2, key) ==
  /\ \A v \in DOMAIN vs : ChangesIn(vs2, v, key) = ChangesIn(vs, v, key)
  /\ ChangesIn(vs2, Len(vs) + 1, key) =
       IF Changed(content, rs, key) THEN {ChangeOf(content, rs, key)} ELSE {}
  /\ Audits(vs2, key) = Audits(vs, key) \cup
       IF Changed(content, rs, key) THEN {Len(vs) + 1} ELSE {}

LEMMA AuditsAfter ==
  ASSUME NEW content, NEW rs, NEW dates, NEW vs, NEW rs2, NEW dates2, NEW vs2,
         Committed(rs, dates, vs), Commits(content, rs, dates, vs, rs2, dates2, vs2),
         NEW key, key # <<"registry">>
  PROVE  AppendsAudits(content, rs, vs, vs2, key)
<1>a. Appends(vs, Version(content, rs, vs), vs2)
  BY VersionsAfter
<1>1. /\ DOMAIN vs2 = DOMAIN vs \cup {Len(vs) + 1}
      /\ \A v \in DOMAIN vs : vs2[v] = vs[v]
      /\ vs2[Len(vs) + 1] = Version(content, rs, vs)
  BY <1>a DEF Appends
<1>2. ASSUME NEW v \in DOMAIN vs PROVE ChangesIn(vs2, v, key) = ChangesIn(vs, v, key)
  BY <1>1 DEF ChangesIn
<1>3. ChangesIn(vs2, Len(vs) + 1, key)
        = {change \in compare(content, rs, vs) : change.key = key}
  BY <1>1 DEF ChangesIn, Version
<1>4. {change \in compare(content, rs, vs) : change.key = key}
        = IF Changed(content, rs, key) THEN {ChangeOf(content, rs, key)} ELSE {}
  <2>1. ASSUME NEW change \in compare(content, rs, vs), change.key = key
        PROVE  change = ChangeOf(content, rs, key) /\ Changed(content, rs, key)
    <3>1. change # RegistryUpdate
      BY <2>1 DEF RegistryUpdate
    <3>2. /\ change.key \in Keys(content) /\ change = ChangeOf(content, rs, change.key)
          /\ change.before # change.after
      BY <3>1, Comparison
    <3>3. change = ChangeOf(content, rs, key) /\ key \in Keys(content)
      BY <2>1, <3>2
    <3>4. change.before = Before(rs, key) /\ change.after = {Declared(content, key)}
      BY <3>3 DEF ChangeOf
    <3> QED
      BY <3>2, <3>3, <3>4 DEF Changed
  <2>2. ASSUME Changed(content, rs, key)
        PROVE  ChangeOf(content, rs, key) \in compare(content, rs, vs)
               /\ ChangeOf(content, rs, key).key = key
    BY <2>2, Comparison DEF Changed, ChangeOf
  <2> QED
    BY <2>1, <2>2
<1>5. Audits(vs2, key) = Audits(vs, key) \cup
        IF Changed(content, rs, key) THEN {Len(vs) + 1} ELSE {}
  BY <1>1, <1>2, <1>3, <1>4 DEF Audits
<1> QED
  BY <1>2, <1>3, <1>4, <1>5 DEF AppendsAudits

(* The rows after a commit.                                                 *)
LEMMA RowsAfter ==
  ASSUME NEW content, NEW rs, NEW rs2, Writes(rs, content, Keys(content), rs2), NEW key
  PROVE  /\ key \in DOMAIN rs2 <=> key \in DOMAIN rs \/ key \in Keys(content)
         /\ key \in Keys(content) =>
              rs2[key] = Declared(content, key) /\ Before(rs2, key) = {Declared(content, key)}
         /\ ~Changed(content, rs, key) => Before(rs2, key) = Before(rs, key)
         /\ key \notin Keys(content) /\ key \in DOMAIN rs => rs2[key] = rs[key]
BY DEF Writes, Before, Changed

LEMMA LoggedAfter ==
  ASSUME NEW content, NEW rs, NEW dates, NEW vs, NEW rs2, NEW dates2, NEW vs2,
         Committed(rs, dates, vs), Commits(content, rs, dates, vs, rs2, dates2, vs2)
  PROVE  Logged(rs2, vs2)
<1>a. Appends(vs, Version(content, rs, vs), vs2)
  BY VersionsAfter
<1>1. /\ DOMAIN vs2 = DOMAIN vs \cup {Len(vs) + 1}
      /\ \A v \in DOMAIN vs : vs2[v] = vs[v]
      /\ vs2[Len(vs) + 1] = Version(content, rs, vs)
      /\ \E entries : vs2 \in Seq(entries)
  BY <1>a DEF Appends
<1>2. ASSUME NEW key \in DOMAIN rs2
      PROVE  key # <<"registry">> /\ Audits(vs2, key) # {}
  <2>1. key \in DOMAIN rs \/ key \in Keys(content)
    BY RowsAfter DEF Commits
  <2>2. key # <<"registry">>
    BY <2>1, EntryOfKey DEF Committed, Logged, Keys
  <2>b. AppendsAudits(content, rs, vs, vs2, key)
    BY <2>2, AuditsAfter
  <2>3. Audits(vs2, key) = Audits(vs, key) \cup
          IF Changed(content, rs, key) THEN {Len(vs) + 1} ELSE {}
    BY <2>b DEF AppendsAudits
  <2>4. CASE key \in DOMAIN rs
    BY <2>2, <2>3, <2>4 DEF Committed, Logged
  <2>5. CASE key \notin DOMAIN rs
    <3>1. Changed(content, rs, key)
      BY <2>1, <2>5 DEF Changed, Before
    <3> QED
      BY <2>2, <2>3, <3>1
  <2> QED
    BY <2>4, <2>5
<1>3. ASSUME NEW v \in DOMAIN vs2 PROVE vs2[v].checksum = registry_checksum(vs2[v].content)
  BY <1>1 DEF Version, Committed, Logged
<1> QED
  BY <1>1, <1>2, <1>3 DEF Logged

LEMMA HoldsAfter ==
  ASSUME NEW content, NEW rs, NEW dates, NEW vs, NEW rs2, NEW dates2, NEW vs2,
         Committed(rs, dates, vs), Commits(content, rs, dates, vs, rs2, dates2, vs2)
  PROVE  Holds(rs2, vs2)
<1>a. Appends(vs, Version(content, rs, vs), vs2)
  BY VersionsAfter
<1>1. vs2[Len(vs2)] = Version(content, rs, vs)
  BY <1>a DEF Appends
<1>2. vs2[Len(vs2)].content = content
  BY <1>1 DEF Version
<1>3. \A key \in Keys(content) : Before(rs2, key) = {Declared(content, key)}
  BY RowsAfter DEF Commits
<1> QED
  BY <1>2, <1>3 DEF Holds

(* An entry of an earlier version still continues the one before it.        *)
LEMMA EarlierEntriesContinue ==
  ASSUME NEW content, NEW rs, NEW dates, NEW vs, NEW rs2, NEW dates2, NEW vs2,
         Committed(rs, dates, vs), Commits(content, rs, dates, vs, rs2, dates2, vs2),
         NEW v \in DOMAIN vs, NEW change \in vs[v].changes \ {RegistryUpdate}
  PROVE  change.key \in DOMAIN rs2 /\ Continues(rs2, vs2, v, change)
<1>a. Appends(vs, Version(content, rs, vs), vs2)
  BY VersionsAfter
<1> DEFINE key == change.key
           n == Len(vs) + 1
           earlier == {u \in Audits(vs, key) : u < v}
           later == {u \in Audits(vs, key) : u > v}
           earlier2 == {u \in Audits(vs2, key) : u < v}
           later2 == {u \in Audits(vs2, key) : u > v}
<1>1. key \in DOMAIN rs /\ Continues(rs, vs, v, change)
  BY DEF Committed, Replays
<1>2. key # <<"registry">>
  BY <1>1 DEF Committed, Logged
<1>3. Len(vs) \in Nat /\ DOMAIN vs = 1..Len(vs)
  BY <1>a DEF Appends
<1>b. AppendsAudits(content, rs, vs, vs2, key)
  BY <1>2, AuditsAfter
<1>4. /\ \A u \in DOMAIN vs : ChangesIn(vs2, u, key) = ChangesIn(vs, u, key)
      /\ Audits(vs2, key) = Audits(vs, key) \cup IF Changed(content, rs, key) THEN {n} ELSE {}
  BY <1>b DEF AppendsAudits
<1>5. Audits(vs, key) \subseteq 1..Len(vs)
  BY <1>3 DEF Audits
<1> HIDE DEF key
<1>6. earlier2 = earlier
  BY <1>3, <1>4, <1>5
<1>7. later \subseteq later2 /\ (Changed(content, rs, key) => n \in later2)
  BY <1>3, <1>4, <1>5
<1>8. earlier # {} => Max(earlier) \in DOMAIN vs
  <2>1. earlier \subseteq 1..Len(vs)
    BY <1>5
  <2> HIDE DEF earlier
  <2> QED
    BY <1>3, <2>1, MaxOfVersions
<1>9. change.before = IF earlier2 = {} THEN {}
        ELSE (CHOOSE c \in ChangesIn(vs2, Max(earlier2), key) : TRUE).after
  <2>1. change.before = IF earlier = {} THEN {}
          ELSE (CHOOSE c \in ChangesIn(vs, Max(earlier), key) : TRUE).after
    BY <1>1 DEF Continues, key
  <2>2. earlier # {} => ChangesIn(vs2, Max(earlier2), key) = ChangesIn(vs, Max(earlier), key)
    BY <1>4, <1>6, <1>8
  <2> HIDE DEF earlier, earlier2
  <2> QED
    BY <1>6, <2>1, <2>2
<1>10. later2 = {} => change.after = Before(rs2, key)
  <2>1. later = {} => change.after = Before(rs, key)
    BY <1>1 DEF Continues, key
  <2>2. ~Changed(content, rs, key) => Before(rs2, key) = Before(rs, key)
    BY RowsAfter DEF Commits
  <2> HIDE DEF later, later2
  <2> QED
    BY <1>7, <2>1, <2>2
<1>11. key \in DOMAIN rs2
  BY <1>1, RowsAfter DEF Commits
<1> QED
  BY <1>9, <1>10, <1>11 DEF Continues, key

(* An entry of the new version continues the last one before it.            *)
LEMMA NewEntriesContinue ==
  ASSUME NEW content, NEW rs, NEW dates, NEW vs, NEW rs2, NEW dates2, NEW vs2,
         Committed(rs, dates, vs), Commits(content, rs, dates, vs, rs2, dates2, vs2),
         NEW change \in vs2[Len(vs) + 1].changes \ {RegistryUpdate}
  PROVE  change.key \in DOMAIN rs2 /\ Continues(rs2, vs2, Len(vs) + 1, change)
<1>a. Appends(vs, Version(content, rs, vs), vs2)
  BY VersionsAfter
<1> DEFINE key == change.key
           n == Len(vs) + 1
           earlier == {u \in Audits(vs2, key) : u < n}
           m == Max(earlier)
           c == CHOOSE d \in ChangesIn(vs, m, key) : TRUE
<1>1. change \in compare(content, rs, vs) \ {RegistryUpdate}
  BY <1>a DEF Appends, Version
<1>2. /\ key \in Keys(content) /\ change = ChangeOf(content, rs, key)
      /\ change.before # change.after
  BY <1>1, Comparison
<1>3. change.before = Before(rs, key) /\ change.after = {Declared(content, key)}
  BY <1>2 DEF ChangeOf
<1>4. key # <<"registry">> /\ key \in DOMAIN rs2 /\ Before(rs2, key) = {Declared(content, key)}
  BY <1>2, EntryOfKey, RowsAfter DEF Commits, Keys
<1>5. Len(vs) \in Nat /\ DOMAIN vs = 1..Len(vs)
  BY <1>a DEF Appends
<1>b. AppendsAudits(content, rs, vs, vs2, key)
  BY <1>4, AuditsAfter
<1>6. /\ \A u \in DOMAIN vs : ChangesIn(vs2, u, key) = ChangesIn(vs, u, key)
      /\ Audits(vs2, key) = Audits(vs, key) \cup IF Changed(content, rs, key) THEN {n} ELSE {}
  BY <1>b DEF AppendsAudits
<1>7. Audits(vs, key) \subseteq 1..Len(vs)
  BY <1>5 DEF Audits
<1> HIDE DEF key
<1>8. earlier = Audits(vs, key)
  BY <1>5, <1>6, <1>7
<1>9. CASE earlier = {}
  <2>1. key \notin DOMAIN rs
    BY <1>8, <1>9 DEF Committed, Logged
  <2> QED
    BY <1>3, <1>4, <1>9, <2>1 DEF Continues, key, Before
<1>10. CASE earlier # {}
  <2>1. m \in Audits(vs, key) /\ \A u \in Audits(vs, key) : u <= m
    <3> HIDE DEF earlier
    <3> QED
      BY <1>5, <1>7, <1>8, <1>10, MaxOfVersions
  <2>2. m \in DOMAIN vs /\ ChangesIn(vs, m, key) # {}
    BY <2>1 DEF Audits
  <2>3. c \in ChangesIn(vs, m, key)
    BY <2>2
  <2>4. c \in vs[m].changes \ {RegistryUpdate} /\ c.key = key
    <3> HIDE DEF c, m
    <3> QED
      BY <1>4, <2>3 DEF ChangesIn, RegistryUpdate
  <2>5. Continues(rs, vs, m, c)
    <3> HIDE DEF c, m
    <3> QED
      BY <2>2, <2>4 DEF Committed, Replays
  <2>6. {u \in Audits(vs, key) : u > m} = {}
    <3> HIDE DEF m
    <3> QED
      BY <1>5, <1>7, <2>1
  <2>7. c.after = Before(rs, key)
    <3> HIDE DEF c, m
    <3> QED
      BY <2>4, <2>5, <2>6 DEF Continues
  <2>8. change.before = (CHOOSE d \in ChangesIn(vs2, m, key) : TRUE).after
    <3>1. ChangesIn(vs2, m, key) = ChangesIn(vs, m, key)
      BY <1>6, <2>2
    <3> HIDE DEF m
    <3> QED
      BY <1>3, <2>7, <3>1
  <2> QED
    BY <1>3, <1>4, <1>10, <2>8 DEF Continues, key
<1> QED
  BY <1>4, <1>9, <1>10 DEF key

LEMMA ReplaysAfter ==
  ASSUME NEW content, NEW rs, NEW dates, NEW vs, NEW rs2, NEW dates2, NEW vs2,
         Committed(rs, dates, vs), Commits(content, rs, dates, vs, rs2, dates2, vs2)
  PROVE  Replays(rs2, vs2)
<1>a. Appends(vs, Version(content, rs, vs), vs2)
  BY VersionsAfter
<1>1. DOMAIN vs2 = DOMAIN vs \cup {Len(vs) + 1} /\ \A v \in DOMAIN vs : vs2[v] = vs[v]
  BY <1>a DEF Appends
<1>2. ASSUME NEW v \in DOMAIN vs2, NEW change \in vs2[v].changes \ {RegistryUpdate}
      PROVE  change.key \in DOMAIN rs2 /\ Continues(rs2, vs2, v, change)
  <2>1. CASE v \in DOMAIN vs
    BY <1>1, <2>1, EarlierEntriesContinue
  <2>2. CASE v = Len(vs) + 1
    BY <2>2, NewEntriesContinue
  <2> QED
    BY <1>1, <2>1, <2>2
<1> QED
  BY <1>2 DEF Replays

LEMMA RetirementsAfter ==
  ASSUME NEW content, NEW rs, NEW dates, NEW vs, NEW rs2, NEW dates2, NEW vs2,
         Committed(rs, dates, vs), Commits(content, rs, dates, vs, rs2, dates2, vs2),
         NEW slug
  PROVE  Retirements(vs2, slug) = Retirements(vs, slug) \cup
           IF Changed(content, rs, TopicKey(slug)) /\ Retires(ChangeOf(content, rs, TopicKey(slug)))
           THEN {Len(vs) + 1} ELSE {}
<1> DEFINE key == TopicKey(slug)
<1>1. key # <<"registry">>
  BY DEF TopicKey
<1>2. AppendsAudits(content, rs, vs, vs2, key) /\ Appends(vs, Version(content, rs, vs), vs2)
  BY <1>1, AuditsAfter, VersionsAfter
<1> HIDE DEF key
<1>3. Audits(vs, key) \subseteq DOMAIN vs
  BY DEF Audits
<1>4. Len(vs) + 1 \notin DOMAIN vs
  BY <1>2 DEF Appends
<1>5. {v \in Audits(vs2, key) : \E c \in ChangesIn(vs2, v, key) : Retires(c)}
        = {v \in Audits(vs, key) : \E c \in ChangesIn(vs, v, key) : Retires(c)} \cup
            IF Changed(content, rs, key) /\ Retires(ChangeOf(content, rs, key))
            THEN {Len(vs) + 1} ELSE {}
  BY <1>2, <1>3, <1>4 DEF AppendsAudits
<1> QED
  BY <1>5 DEF Retirements, key

LEMMA DatedAfter ==
  ASSUME NEW content, NEW rs, NEW dates, NEW vs, NEW rs2, NEW dates2, NEW vs2,
         Committed(rs, dates, vs), Commits(content, rs, dates, vs, rs2, dates2, vs2)
  PROVE  Dated(rs2, dates2, vs2)
<1>1. ASSUME NEW slug PROVE slug \in DOMAIN dates2 <=> TopicKey(slug) \in DOMAIN rs2
  <2>1. slug \in DOMAIN dates <=> TopicKey(slug) \in DOMAIN rs
    BY DEF Committed, Dated
  <2>2. TopicKey(slug) \in DOMAIN rs2
          <=> TopicKey(slug) \in DOMAIN rs \/ TopicKey(slug) \in Keys(content)
    BY RowsAfter DEF Commits
  <2>3. TopicKey(slug) \in Keys(content) <=> slug \in Slugs(content.topics)
    BY TopicKeys
  <2>4. DOMAIN dates2 = DOMAIN dates \cup Slugs(content.topics)
    BY DEF Commits
  <2> QED
    BY <2>1, <2>2, <2>3, <2>4
<1>2. ASSUME NEW slug \in DOMAIN dates2
      PROVE  IF rs2[TopicKey(slug)].status = "deprecated"
             THEN Retirements(vs2, slug) # {} /\ dates2[slug] = Max(Retirements(vs2, slug))
             ELSE dates2[slug] = 0
  <2> DEFINE key == TopicKey(slug)
             n == Len(vs) + 1
             old == Retirements(vs, slug)
             new == Retirements(vs2, slug)
             topic == Declared(content, key)
  <2>1. Len(vs) \in Nat /\ DOMAIN vs = 1..Len(vs)
    BY VersionsAfter DEF Appends
  <2>2. /\ new = old \cup IF Changed(content, rs, key) /\ Retires(ChangeOf(content, rs, key))
                          THEN {n} ELSE {}
        /\ old \subseteq 1..Len(vs)
    BY <2>1, RetirementsAfter DEF Retirements, Audits
  <2>3. key \in DOMAIN rs <=> slug \in DOMAIN dates
    BY DEF Committed, Dated
  <2>4. slug \in DOMAIN dates =>
          IF rs[key].status = "deprecated" THEN old # {} /\ dates[slug] = Max(old)
          ELSE dates[slug] = 0
    BY DEF Committed, Dated
  <2>5. key \in Keys(content) <=> slug \in Slugs(content.topics)
    BY TopicKeys
  <2>6. slug \in DOMAIN dates \/ slug \in Slugs(content.topics)
    BY DEF Commits
  <2>7. Before(rs, key) = IF key \in DOMAIN rs THEN {rs[key]} ELSE {}
    BY DEF Before
  <2>8. ChangeOf(content, rs, key).before = Before(rs, key)
        /\ ChangeOf(content, rs, key).after = {topic}
    BY DEF ChangeOf
  <2>9. CASE slug \notin Slugs(content.topics)
    <3>1. rs2[key] = rs[key] /\ slug \in DOMAIN dates /\ dates2[slug] = dates[slug]
      <4>1. key \notin Keys(content) /\ key \in DOMAIN rs /\ slug \in DOMAIN dates
        BY <2>3, <2>5, <2>6, <2>9
      <4>2. dates2[slug] = dates[slug]
        BY <2>9, <4>1 DEF Commits
      <4>3. rs2[key] = rs[key]
        <5> HIDE DEF key
        <5> QED
          BY <4>1, RowsAfter DEF Commits
      <4> QED
        BY <4>1, <4>2, <4>3
    <3>2. new = old
      BY <2>2, <2>5, <2>9 DEF Changed
    <3> HIDE DEF key, old, new
    <3> QED
      BY <2>4, <3>1, <3>2 DEF key, old, new
  <2>10. CASE slug \in Slugs(content.topics)
    <3>1. rs2[key] = topic /\ key \in Keys(content)
      <4>1. key \in Keys(content)
        BY <2>5, <2>10
      <4> HIDE DEF key
      <4> QED
        BY <4>1, RowsAfter DEF Commits
    <3>2. dates2[slug] = deprecated_at(topic, IF slug \in DOMAIN dates THEN dates[slug] ELSE 0, n)
      BY <2>10 DEF Commits
    <3>3. CASE topic.status # "deprecated"
      BY <3>1, <3>2, <3>3 DEF deprecated_at
    <3>4. CASE topic.status = "deprecated" /\ slug \in DOMAIN dates /\ rs[key].status = "deprecated"
      <4> HIDE DEF key, old, new, topic
      <4>1. old # {} /\ dates[slug] = Max(old)
        BY <2>4, <3>4
      <4>2. Max(old) \in old
        BY <2>1, <2>2, <4>1, MaxOfVersions
      <4>3. dates[slug] # 0
        BY <2>1, <2>2, <4>1, <4>2
      <4>4. ~Retires(ChangeOf(content, rs, key))
        BY <2>3, <2>7, <2>8, <3>4 DEF Retires
      <4>5. new = old
        BY <2>2, <4>4
      <4>6. dates2[slug] = dates[slug]
        BY <3>2, <3>4, <4>3 DEF deprecated_at
      <4> QED
        BY <3>1, <3>4, <4>1, <4>5, <4>6 DEF key, new
    <3>5. CASE topic.status = "deprecated" /\ ~(slug \in DOMAIN dates /\ rs[key].status = "deprecated")
      <4> HIDE DEF key, old, new, topic
      <4>1. dates2[slug] = n
        BY <2>4, <3>2, <3>5 DEF deprecated_at
      <4>2. Before(rs, key) # {topic} /\ \A row \in Before(rs, key) : row.status # "deprecated"
        BY <2>3, <2>7, <3>5
      <4>3. Changed(content, rs, key)
        BY <3>1, <4>2 DEF Changed, topic
      <4>4. Retires(ChangeOf(content, rs, key))
        BY <2>8, <3>5, <4>2 DEF Retires
      <4>8. new = old \cup {n}
        BY <2>2, <4>3, <4>4
      <4>9. n \in Nat /\ n \in 1..n /\ \A v \in old : v \in 1..n
        BY <2>1, <2>2
      <4>5. n \in new /\ new \subseteq 1..n /\ n \in Nat
        <5> HIDE DEF n
        <5> QED
          BY <4>8, <4>9
      <4>6. Max(new) \in new /\ n <= Max(new)
        <5> HIDE DEF n
        <5> QED
          BY <4>5, MaxOfVersions
      <4>7. Max(new) = n
        <5> HIDE DEF n
        <5>1. Max(new) \in 1..n
          BY <4>5, <4>6
        <5> QED
          BY <4>5, <4>6, <5>1
      <4> QED
        BY <3>1, <3>5, <4>1, <4>5, <4>7 DEF key, new
    <3> QED
      BY <3>3, <3>4, <3>5
  <2> QED
    BY <2>9, <2>10
<1> QED
  BY <1>1, <1>2 DEF Dated

(* A version differs from the one before it: the rows held the latest       *)
(* version, so with the same content only the warnings could be new.        *)
LEMMA DiffersAfter ==
  ASSUME NEW content, NEW rs, NEW dates, NEW vs, NEW rs2, NEW dates2, NEW vs2,
         Committed(rs, dates, vs), Commits(content, rs, dates, vs, rs2, dates2, vs2)
  PROVE  Differs(vs2)
<1>1. Appends(vs, Version(content, rs, vs), vs2)
  BY VersionsAfter
<1>2. ASSUME vs # <<>>, vs[Len(vs)].content = content
      PROVE  vs[Len(vs)].warnings # warnings(content, rs)
  <2>1. \A key \in Keys(content) : Before(rs, key) = {Declared(content, key)}
    BY <1>2 DEF Committed, Holds
  <2>2. Changes(content, rs) = {}
    BY <2>1 DEF Changes
  <2>3. metadata_changed(content, rs, Last(vs))
    BY <2>2 DEF Commits, compare
  <2>4. vs[Len(vs)].checksum = registry_checksum(content)
    <3>1. Len(vs) \in DOMAIN vs
      <4>1. PICK S : vs \in Seq(S)
        BY DEF Committed, Logged
      <4> QED
        BY <1>2, <4>1, EmptySeq, LenProperties
    <3> QED
      BY <1>2, <3>1 DEF Committed, Logged
  <2>5. Last(vs) = vs[Len(vs)]
    BY DEF Last
  <2> QED
    BY <2>3, <2>4, <2>5 DEF metadata_changed
<1>3. ASSUME NEW v \in 2..Len(vs2)
      PROVE  vs2[v].content # vs2[v - 1].content \/ vs2[v].warnings # vs2[v - 1].warnings
  <2>1. CASE v \in 2..Len(vs)
    BY <1>1, <2>1 DEF Appends, Committed, Differs
  <2>2. CASE v = Len(vs) + 1
    <3>1. vs2[v].content = content /\ vs2[v].warnings = warnings(content, rs)
      BY <1>1, <2>2 DEF Appends, Version
    <3>2. vs2[v - 1] = vs[Len(vs)] /\ vs # <<>>
      BY <1>1, <2>2, EmptySeq DEF Appends
    <3> QED
      BY <1>2, <3>1, <3>2
  <2> QED
    BY <1>1, <2>1, <2>2 DEF Appends
<1> QED
  BY <1>3 DEF Differs

LEMMA CommittedAfter ==
  ASSUME NEW content, NEW rs, NEW dates, NEW vs, NEW rs2, NEW dates2, NEW vs2,
         Committed(rs, dates, vs), Commits(content, rs, dates, vs, rs2, dates2, vs2)
  PROVE  Committed(rs2, dates2, vs2)
<1>1. Logged(rs2, vs2) /\ Replays(rs2, vs2) /\ Holds(rs2, vs2)
  BY LoggedAfter, ReplaysAfter, HoldsAfter
<1>2. Dated(rs2, dates2, vs2) /\ Differs(vs2)
  BY DatedAfter, DiffersAfter
<1> QED
  BY <1>1, <1>2 DEF Committed

(* What a sync commits is the next version on the tables it compared.       *)
LEMMA CommitIsNext ==
  ASSUME RegistryInv, NEW p \in Syncs, Commit(p)
  PROVE  Commits(sync[p].content, rows, deprecated, versions, rows', deprecated', versions')
<1> DEFINE l == sync[p]
<1>1. Fits(l) /\ l.pc = "topics" /\ l.todo = {}
  BY SyncOf DEF RegistryInv, Commit, At
<1>2. l.latest = Len(versions) /\ WritesRows(l) /\ WritesDates(l)
  BY <1>1 DEF Fits, NextVersion, TransactionTables
<1>3. Done(l) = Keys(l.content) /\ DoneSlugs(l) = Slugs(l.content.topics)
  BY <1>1 DEF Done, DoneSlugs
<1>4. /\ l.changes = compare(l.content, rows, versions) /\ l.changes # {}
      /\ l.warned = warnings(l.content, rows)
  BY <1>1, <1>2 DEF Fits, ComparisonIsCurrent, Comparing
<1>5. rows' = l.rows /\ deprecated' = l.deprecated
  BY DEF Commit
<1>6. versions' = Append(versions, Version(l.content, rows, versions))
  BY <1>4 DEF Commit, Version
<1> HIDE DEF l
<1>7. Writes(rows, l.content, Keys(l.content), rows')
  BY <1>2, <1>3, <1>5 DEF WritesRows, Writes
<1>8. /\ DOMAIN deprecated' = DOMAIN deprecated \cup Slugs(l.content.topics)
      /\ \A slug \in Slugs(l.content.topics) :
           deprecated'[slug] = deprecated_at(Declared(l.content, TopicKey(slug)),
             IF slug \in DOMAIN deprecated THEN deprecated[slug] ELSE 0, Len(versions) + 1)
      /\ \A slug \in DOMAIN deprecated \ Slugs(l.content.topics) :
           deprecated'[slug] = deprecated[slug]
  BY <1>2, <1>3, <1>5 DEF WritesDates, DateBefore
<1> QED
  BY <1>4, <1>6, <1>7, <1>8 DEF Commits, l

(* A sync outside a transaction fits the tables that another one leaves.    *)
LEMMA OthersFit ==
  ASSUME NEW l, Fits(l), l.pc \notin {"categories", "topics"},
         Len(versions) \in Nat, Len(versions') = Len(versions) + 1
  PROVE  Fits(l)'
<1>1. l.latest \in 0..Len(versions)
  BY DEF Fits
<1>2. l.latest \in 0..Len(versions') /\ l.latest # Len(versions')
  BY <1>1
<1>3. ComparisonIsCurrent(l)'
  BY <1>2 DEF ComparisonIsCurrent
<1>4. TransactionTables(l)' /\ NextVersion(l)'
  BY DEF TransactionTables, NextVersion
<1> QED
  BY <1>2, <1>3, <1>4 DEF Fits

LEMMA CommitKeeps ==
  ASSUME RegistryInv, NEW p \in Syncs, Commit(p)
  PROVE  RegistryInv'
<1>1. CommittedInv'
  <2>1. Committed(rows, deprecated, versions)
    BY DEF RegistryInv, CommittedInv
  <2>2. Committed(rows', deprecated', versions')
    BY <2>1, CommitIsNext, CommittedAfter
  <2> QED
    BY <2>2 DEF CommittedInv
<1>2. Len(versions) \in Nat /\ Len(versions') = Len(versions) + 1
  <2>1. Appends(versions, Version(sync[p].content, rows, versions), versions')
    BY CommitIsNext, VersionsAfter DEF RegistryInv, CommittedInv
  <2> QED
    BY <2>1 DEF Appends
<1>3. DOMAIN sync = Syncs /\ \A m \in Range(sync) : Fits(m)
  BY DEF RegistryInv, SyncInv
<1>4. DOMAIN sync' = Syncs /\ \A q \in Syncs : sync'[q] = IF q = p THEN Idle ELSE sync[q]
  BY <1>3 DEF Commit, Set
<1>5. \A q \in Syncs : InTransaction(q) => q = p
  BY DEF RegistryInv, SyncInv, Commit, At, InTransaction
<1>6. Fits(Idle) /\ Idle.pc \notin {"categories", "topics"}
  BY <1>2, IdleFits DEF Idle
<1>7. ASSUME NEW m \in Range(sync)' PROVE Fits(m) /\ m.pc \notin {"categories", "topics"}
  <2>1. PICK q \in Syncs : m = IF q = p THEN Idle ELSE sync[q]
    BY <1>4 DEF Range
  <2>2. CASE q = p
    BY <1>6, <2>1, <2>2
  <2>3. CASE q # p
    BY <1>3, <1>5, <2>1, <2>3 DEF Range, InTransaction
  <2> QED
    BY <2>2, <2>3
<1>8. ASSUME NEW m \in Range(sync)' PROVE Fits(m)'
  BY <1>2, <1>7, OthersFit
<1>9. \A q \in Syncs : ~InTransaction(q)'
  BY <1>4, <1>5 DEF InTransaction, Idle
<1>10. SyncInv'
  BY <1>4, <1>8, <1>9 DEF SyncInv, Commit, RegistryInv
<1> QED
  BY <1>1, <1>10 DEF RegistryInv

-----------------------------------------------------------------------------
(* The inductive invariant *)

LEMMA RegistryInvInit == Init => RegistryInv
<1> SUFFICES ASSUME Init PROVE RegistryInv
  OBVIOUS
<1>1. versions = <<>> /\ rows = <<>> /\ deprecated = <<>> /\ Len(versions) = 0
  BY DEF Init
<1>2. Fits(Idle) /\ Idle.pc = "idle"
  BY <1>1, IdleFits DEF Idle
<1>3. SyncInv
  <2>1. \A l \in Range(sync) : l = Idle
    BY DEF Init, Range
  <2>2. DOMAIN sync = Syncs /\ \A p \in Syncs : ~InTransaction(p)
    BY <1>2 DEF Init, InTransaction
  <2> QED
    BY <1>2, <2>1, <2>2 DEF SyncInv, Init
<1>4. CommittedInv
  <2>1. DOMAIN rows = {} /\ DOMAIN deprecated = {} /\ DOMAIN versions = {}
    BY <1>1
  <2>2. Logged(rows, versions)
    <3>1. versions \in Seq({})
      BY <1>1
    <3> QED
      BY <2>1, <3>1 DEF Logged
  <2>3. Replays(rows, versions) /\ Holds(rows, versions) /\ Dated(rows, deprecated, versions)
    BY <1>1, <2>1 DEF Replays, Holds, Dated
  <2>4. Differs(versions)
    BY <1>1 DEF Differs
  <2> QED
    BY <2>2, <2>3, <2>4 DEF CommittedInv, Committed
<1> QED
  BY <1>3, <1>4 DEF RegistryInv

LEMMA EditKeeps ==
  ASSUME RegistryInv, NEW content \in Contents, Edit(content)
  PROVE  RegistryInv'
<1>1. ASSUME NEW l \in Range(sync)' PROVE Fits(l)'
  <2>1. l \in Range(sync)
    BY DEF Edit
  <2> QED
    BY <2>1, FitsKept DEF RegistryInv, SyncInv, Edit
<1>2. SyncInv'
  BY <1>1 DEF RegistryInv, SyncInv, Edit, InTransaction
<1> QED
  BY <1>2, CommittedKept DEF RegistryInv, Edit

LEMMA RegistryInvStep == RegistryInv /\ [Next]_vars => RegistryInv'
<1> SUFFICES ASSUME RegistryInv, [Next]_vars PROVE RegistryInv'
  OBVIOUS
<1>1. ASSUME NEW content \in Contents, Edit(content) PROVE RegistryInv'
  BY <1>1, EditKeeps
<1>2. ASSUME NEW p \in Syncs, Step(p) PROVE RegistryInv'
  <2>1. CASE Load(p)
    BY <2>1, LoadKeeps
  <2>2. CASE ReadLatest(p)
    BY <2>2, ReadLatestKeeps
  <2>3. CASE Diff(p)
    BY <2>3, DiffKeeps
  <2>4. CASE OpenVersion(p)
    BY <2>4, OpenVersionKeeps
  <2>5. CASE SyncCategories(p)
    BY <2>5, SyncCategoriesKeeps
  <2>6. CASE SyncTopic(p)
    BY <2>6, SyncTopicKeeps
  <2>7. CASE Commit(p)
    BY <2>7, CommitKeeps
  <2>8. CASE Rollback(p)
    BY <2>8, ToIdle DEF Rollback
  <2> QED
    BY <1>2, <2>1, <2>2, <2>3, <2>4, <2>5, <2>6, <2>7, <2>8 DEF Step
<1>3. CASE UNCHANGED vars
  <2>1. ASSUME NEW l \in Range(sync)' PROVE Fits(l)'
    <3>1. l \in Range(sync)
      BY <1>3 DEF vars
    <3> QED
      BY <1>3, <3>1, FitsKept DEF RegistryInv, SyncInv, vars
  <2>2. SyncInv'
    BY <1>3, <2>1 DEF RegistryInv, SyncInv, vars, InTransaction
  <2> QED
    BY <1>3, <2>2, CommittedKept DEF RegistryInv, vars
<1> QED
  BY <1>1, <1>2, <1>3 DEF Next

-----------------------------------------------------------------------------
(* What an alias means *)

LEMMA ImageIsFinite ==
  ASSUME NEW S, IsFiniteSet(S), NEW T, NEW f \in Surjection(S, T)
  PROVE  /\ IsFiniteSet(T) /\ Cardinality(T) \in Nat /\ Cardinality(S) \in Nat
         /\ Cardinality(T) <= Cardinality(S)
         /\ (\E s, t \in S : s # t /\ f[s] = f[t]) => Cardinality(T) < Cardinality(S)
<1>1. /\ IsFiniteSet(T) /\ Cardinality(T) <= Cardinality(S)
      /\ Cardinality(T) = Cardinality(S) <=> f \in Injection(S, T)
  BY FS_Surjection
<1>2. Cardinality(T) \in Nat /\ Cardinality(S) \in Nat
  BY <1>1, FS_CardinalityType
<1>3. (\E s, t \in S : s # t /\ f[s] = f[t]) => f \notin Injection(S, T)
  BY DEF Injection, IsInjective
<1> QED
  BY <1>1, <1>2, <1>3

LEMMA TopicsAreFinite ==
  ASSUME NEW aliases, IsFiniteSet(aliases)
  PROVE  IsFiniteSet(Topics(aliases))
<1> DEFINE f == [a \in aliases |-> a.topic]
<1>1. f \in Surjection(aliases, Topics(aliases))
  BY DEF Surjection, Topics
<1> QED
  BY <1>1, ImageIsFinite

LEMMA TwoTopics ==
  ASSUME NEW aliases, Cardinality(Topics(aliases)) > 1
  PROVE  \E a, b \in aliases : a.topic # b.topic
<1> SUFFICES ASSUME \A a, b \in aliases : a.topic = b.topic PROVE FALSE
  OBVIOUS
<1>1. CASE aliases = {}
  <2>1. Topics(aliases) = {}
    BY <1>1 DEF Topics
  <2> QED
    BY <2>1, FS_EmptySet
<1>2. CASE aliases # {}
  <2>1. PICK a \in aliases : TRUE
    BY <1>2
  <2>2. Topics(aliases) = {a.topic}
    BY <2>1 DEF Topics
  <2>3. Cardinality({a.topic}) = 1
    BY FS_Singleton
  <2> QED
    BY <2>2, <2>3
<1> QED
  BY <1>1, <1>2

(* In a valid content a text means one topic, or a reviewed collision does  *)
(* name its topics.                                                         *)
LEMMA TextMeansOneTopic ==
  ASSUME NEW content \in Contents \cup {Empty}, Valid(content), NEW text \in Texts,
         NEW meant, meant = {a \in content.aliases : Matches(a, text)},
         Cardinality(Topics(meant)) > 1
  PROVE  \E allowed \in content.allowed :
           Fold[allowed.alias] = Fold[text] /\ Topics(meant) \subseteq allowed.topics
<1> DEFINE folded == Fold[text]
           shared == Sharing(content, folded)
<1>1. IsFiniteSet(content.aliases)
  <2>1. IsFiniteSet(Empty.aliases)
    BY FS_EmptySet DEF Empty
  <2>2. ASSUME NEW c \in Contents PROVE IsFiniteSet(c.aliases)
    BY RegistryAssumption
  <2> QED
    BY <2>1, <2>2
<1>2. meant \subseteq shared /\ shared \subseteq content.aliases
  BY DEF Matches, Sharing
<1>3. IsFiniteSet(shared)
  BY <1>1, <1>2, FS_Subset
<1>4. PICK a \in meant, b \in meant : a.topic # b.topic
  BY TwoTopics
<1> HIDE DEF shared
<1>5. Cardinality(Topics(shared)) > 1
  <2>1. IsFiniteSet(Topics(shared))
    BY <1>3, TopicsAreFinite
  <2>2. Topics(meant) \subseteq Topics(shared)
    BY <1>2 DEF Topics
  <2>3. Cardinality(Topics(meant)) <= Cardinality(Topics(shared))
    BY <2>1, <2>2, FS_Subset
  <2>4. IsFiniteSet(Topics(meant))
    BY <2>1, <2>2, FS_Subset
  <2> QED
    BY <2>1, <2>3, <2>4, FS_CardinalityType
<1>6. entries_collide(shared)
  <2>1. CASE \E e \in shared : ~e.case_sensitive
    BY <2>1 DEF entries_collide
  <2>2. CASE \A e \in shared : e.case_sensitive
    <3> DEFINE f == [e \in shared |-> normalized(e)]
               names == {normalized(e) : e \in shared}
    <3>1. f \in Surjection(shared, names)
      BY DEF Surjection
    <3>2. a \in shared /\ b \in shared /\ a # b /\ f[a] = f[b]
      BY <1>2, <1>4, <2>2 DEF Matches, normalized
    <3> HIDE DEF f, names
    <3>3. Cardinality(names) < Cardinality(shared)
      BY <1>3, <3>1, <3>2, ImageIsFinite
    <3> QED
      BY <3>3 DEF entries_collide, names
  <2> QED
    BY <2>1, <2>2
<1>7. folded \in Collisions(content)
  <2>1. folded \in {Fold[e.text] : e \in content.aliases}
    BY <1>2, <1>4 DEF Matches, shared, Sharing
  <2> QED
    BY <1>5, <1>6, <2>1 DEF Collisions, shared
<1>8. Reviewed(content, folded)
  BY <1>7 DEF Valid, AliasesValid
<1> QED
  BY <1>2, <1>8 DEF Reviewed, Topics, shared

-----------------------------------------------------------------------------
(* References *)

CategoriesOf(rs) == {rs[key] : key \in {k \in DOMAIN rs : k[1] = "category"}}
TopicsOf(rs) == {rs[key] : key \in {k \in DOMAIN rs : k[1] = "topic"}}

(* Every row is under the key that its own columns give it, and what it     *)
(* refers to is there.                                                      *)
RowResolves(rs, key) ==
  \/ /\ key = CategoryKey(rs[key].slug)
     /\ rs[key].parent = NoParent \/ CategoryKey(rs[key].parent) \in DOMAIN rs
  \/ key = TopicKey(rs[key].slug) /\ CategoryKey(rs[key].category) \in DOMAIN rs
  \/ key[1] \in {"alias", "mapping"} /\ TopicKey(key[2]) \in DOMAIN rs

Resolved(rs) ==
  /\ \A key \in DOMAIN rs : RowResolves(rs, key) /\ key # CategoryKey(NoParent)
  /\ ~HasCycle(CategoriesOf(rs))

LEMMA KindsOfKeys ==
  ASSUME NEW slug
  PROVE  /\ CategoryKey(slug)[1] = "category" /\ CategoryKey(slug)[2] = slug
         /\ TopicKey(slug)[1] = "topic" /\ TopicKey(slug)[2] = slug
BY DEF CategoryKey, TopicKey

(* What a row's key says of it.                                             *)
LEMMA RowOfKey ==
  ASSUME NEW rs, NEW key, RowResolves(rs, key)
  PROVE  /\ key[1] = "category" =>
              /\ key = CategoryKey(rs[key].slug)
              /\ rs[key].parent = NoParent \/ CategoryKey(rs[key].parent) \in DOMAIN rs
         /\ key[1] = "topic" =>
              key = TopicKey(rs[key].slug) /\ CategoryKey(rs[key].category) \in DOMAIN rs
         /\ key[1] \in {"alias", "mapping"} => TopicKey(key[2]) \in DOMAIN rs
<1>1. CASE key = CategoryKey(rs[key].slug)
           /\ (rs[key].parent = NoParent \/ CategoryKey(rs[key].parent) \in DOMAIN rs)
  <2>1. key[1] = "category"
    BY <1>1, KindsOfKeys
  <2> QED
    BY <1>1, <2>1
<1>2. CASE key = TopicKey(rs[key].slug) /\ CategoryKey(rs[key].category) \in DOMAIN rs
  <2>1. key[1] = "topic"
    BY <1>2, KindsOfKeys
  <2> QED
    BY <1>2, <2>1
<1>3. CASE key[1] \in {"alias", "mapping"} /\ TopicKey(key[2]) \in DOMAIN rs
  BY <1>3
<1> QED
  BY <1>1, <1>2, <1>3 DEF RowResolves

(* The definitions of a content under the keys of categories.               *)
LEMMA CategoryKeys ==
  ASSUME NEW content, NEW slug
  PROVE  CategoryKey(slug) \in Keys(content) <=> slug \in Slugs(content.categories)
<1>1. ASSUME slug \in Slugs(content.categories) PROVE CategoryKey(slug) \in Keys(content)
  <2>1. PICK c \in content.categories : c.slug = slug
    BY <1>1 DEF Slugs
  <2>2. [key |-> CategoryKey(c.slug), after |-> c] \in Entries(content)
    BY DEF Entries
  <2> QED
    BY <2>1, <2>2 DEF Keys
<1>2. ASSUME CategoryKey(slug) \in Keys(content) PROVE slug \in Slugs(content.categories)
  <2>1. PICK entry \in Entries(content) : entry.key = CategoryKey(slug)
    BY <1>2 DEF Keys
  <2>2. entry.key[1] = "category" /\ entry.key[2] = slug
    BY <2>1 DEF CategoryKey
  <2>3. CASE \E c \in content.categories : entry = [key |-> CategoryKey(c.slug), after |-> c]
    BY <2>2, <2>3 DEF CategoryKey, Slugs
  <2>4. CASE \E t \in content.topics : entry = [key |-> TopicKey(t.slug), after |-> t]
    BY <2>2, <2>4 DEF TopicKey
  <2>5. CASE \E a \in content.aliases : entry = [key |-> AliasKey(a), after |-> a]
    BY <2>2, <2>5 DEF AliasKey
  <2>6. CASE \E m \in content.mappings : entry = [key |-> MappingKey(m), after |-> m]
    BY <2>2, <2>6 DEF MappingKey
  <2> QED
    BY <2>3, <2>4, <2>5, <2>6 DEF Entries
<1> QED
  BY <1>1, <1>2

(* A declared definition is one of the content, of the kind its key says.   *)
DeclaredAs(content, key) ==
  LET d == Declared(content, key) IN
  \/ d \in content.categories /\ key = CategoryKey(d.slug)
  \/ d \in content.topics /\ key = TopicKey(d.slug)
  \/ key[1] \in {"alias", "mapping"} /\ key[2] \in Slugs(content.topics)

LEMMA DeclaredIsDefined ==
  ASSUME NEW content \in Contents \cup {Empty}, NEW key \in Keys(content)
  PROVE  DeclaredAs(content, key)
<1>1. With(Entries(content), key) # {}
  BY DEF Keys, With
<1>2. PICK entry \in With(Entries(content), key) : Declared(content, key) = entry.after
  BY <1>1 DEF Declared, Later
<1>3. entry \in Entries(content) /\ entry.key = key
  BY DEF With
<1>4. CASE \E c \in content.categories : entry = [key |-> CategoryKey(c.slug), after |-> c]
  BY <1>2, <1>3, <1>4 DEF DeclaredAs
<1>5. CASE \E t \in content.topics : entry = [key |-> TopicKey(t.slug), after |-> t]
  BY <1>2, <1>3, <1>5 DEF DeclaredAs
<1>6. CASE \/ \E a \in content.aliases : entry = [key |-> AliasKey(a), after |-> a]
           \/ \E m \in content.mappings : entry = [key |-> MappingKey(m), after |-> m]
  <2>1. key[1] \in {"alias", "mapping"}
    BY <1>3, <1>6 DEF AliasKey, MappingKey
  <2>2. key[2] \in Slugs(content.topics)
    BY <2>1, KeysAreOfTopics
  <2> QED
    BY <2>1, <2>2 DEF DeclaredAs
<1> QED
  BY <1>3, <1>4, <1>5, <1>6 DEF Entries

(* A sync of a valid content keeps the references whole: new rows refer to  *)
(* rows of the same content, retained ones to rows that are retained or     *)
(* written over, and a cycle would lie in the content or in what was there. *)
LEMMA ResolvedAfter ==
  ASSUME NEW content \in Contents \cup {Empty}, Valid(content), NEW rs, Resolved(rs),
         NEW rs2, Writes(rs, content, Keys(content), rs2)
  PROVE  Resolved(rs2)
<1>1. /\ DOMAIN rs2 = DOMAIN rs \cup Keys(content)
      /\ \A key \in Keys(content) : rs2[key] = Declared(content, key)
      /\ \A key \in DOMAIN rs \ Keys(content) : rs2[key] = rs[key]
  BY DEF Writes
<1>2. /\ \A c \in content.categories : c.parent = NoParent \/ c.parent \in Slugs(content.categories)
      /\ ~HasCycle(content.categories)
  BY DEF Valid, CategoriesValid
<1>3. \A t \in content.topics : t.category \in Slugs(content.categories)
  BY DEF Valid, TopicsValid
<1>4. NoParent \notin Slugs(content.categories)
  <2>1. CASE content \in Contents
    BY <2>1, RegistryAssumption
  <2>2. CASE content = Empty
    BY <2>2 DEF Empty, Slugs
  <2> QED
    BY <2>1, <2>2
<1>5. ASSUME NEW key \in DOMAIN rs2
      PROVE  RowResolves(rs2, key) /\ key # CategoryKey(NoParent)
  <2>1. CASE key \in Keys(content)
    <3> DEFINE d == Declared(content, key)
    <3>1. DeclaredAs(content, key) /\ rs2[key] = d
      BY <1>1, <2>1, DeclaredIsDefined
    <3>2. key # CategoryKey(NoParent)
      BY <1>4, <2>1, CategoryKeys
    <3>3. CASE d \in content.categories /\ key = CategoryKey(d.slug)
      <4>1. d.parent = NoParent \/ CategoryKey(d.parent) \in DOMAIN rs2
        BY <1>1, <1>2, <3>3, CategoryKeys
      <4> HIDE DEF d
      <4> QED
        BY <3>1, <3>2, <3>3, <4>1 DEF RowResolves
    <3>4. CASE d \in content.topics /\ key = TopicKey(d.slug)
      <4>1. CategoryKey(d.category) \in DOMAIN rs2
        BY <1>1, <1>3, <3>4, CategoryKeys
      <4> HIDE DEF d
      <4> QED
        BY <3>1, <3>2, <3>4, <4>1 DEF RowResolves
    <3>5. CASE key[1] \in {"alias", "mapping"} /\ key[2] \in Slugs(content.topics)
      <4>1. TopicKey(key[2]) \in DOMAIN rs2
        BY <1>1, <3>5, TopicKeys
      <4> QED
        BY <3>2, <3>5, <4>1 DEF RowResolves
    <3> QED
      BY <3>1, <3>3, <3>4, <3>5 DEF DeclaredAs
  <2>2. CASE key \notin Keys(content)
    <3>1. key \in DOMAIN rs /\ rs2[key] = rs[key]
      BY <1>1, <2>2
    <3> QED
      BY <1>1, <3>1 DEF Resolved, RowResolves
  <2> QED
    BY <2>1, <2>2
<1>6. ASSUME NEW cycle \in SUBSET CategoriesOf(rs2), cycle # {},
             \A c \in cycle : \E parent \in cycle : parent.slug = c.parent
      PROVE  FALSE
  <2> DEFINE declared == {c \in cycle : CategoryKey(c.slug) \in Keys(content)}
  <2>1. ASSUME NEW c \in cycle
        PROVE  /\ CategoryKey(c.slug) \in DOMAIN rs2 /\ c = rs2[CategoryKey(c.slug)]
               /\ c.slug # NoParent
    <3>1. PICK key \in DOMAIN rs2 : key[1] = "category" /\ c = rs2[key]
      BY DEF CategoriesOf
    <3>2. RowResolves(rs2, key) /\ key # CategoryKey(NoParent)
      BY <1>5
    <3>3. key = CategoryKey(c.slug)
      BY <3>1, <3>2, RowOfKey
    <3> QED
      BY <3>1, <3>2, <3>3
  <2>2. ASSUME NEW c \in declared PROVE c \in content.categories
    <3>1. DeclaredAs(content, CategoryKey(c.slug)) /\ c = Declared(content, CategoryKey(c.slug))
      BY <1>1, <2>1, DeclaredIsDefined
    <3> QED
      BY <3>1 DEF DeclaredAs, CategoryKey, TopicKey
  <2>3. CASE declared # {}
    <3>1. ASSUME NEW c \in declared PROVE \E parent \in declared : parent.slug = c.parent
      <4>1. PICK parent \in cycle : parent.slug = c.parent
        BY <1>6
      <4>2. c.parent \in Slugs(content.categories)
        BY <1>2, <2>1, <2>2, <4>1
      <4> QED
        BY <4>1, <4>2, CategoryKeys
    <3>2. declared \in (SUBSET content.categories) \ {{}}
      BY <2>2, <2>3
    <3> HIDE DEF declared
    <3> QED
      BY <1>2, <3>1, <3>2 DEF HasCycle
  <2>4. CASE declared = {}
    <3>1. ASSUME NEW c \in cycle PROVE c \in CategoriesOf(rs)
      <4>1. CategoryKey(c.slug) \notin Keys(content)
        BY <2>4
      <4>2. CategoryKey(c.slug) \in DOMAIN rs /\ c = rs[CategoryKey(c.slug)]
        BY <1>1, <2>1, <4>1
      <4>3. CategoryKey(c.slug)[1] = "category"
        BY DEF CategoryKey
      <4> QED
        BY <4>2, <4>3 DEF CategoriesOf
    <3> QED
      BY <1>6, <3>1 DEF Resolved, HasCycle
  <2> QED
    BY <2>3, <2>4
<1>7. ~HasCycle(CategoriesOf(rs2))
  BY <1>6 DEF HasCycle
<1> QED
  BY <1>5, <1>7 DEF Resolved

(* A version is opened below the bound only.                                *)
Bounded ==
  /\ Len(versions) <= MaxVersions
  /\ \A p \in Syncs : sync[p].pc \in Comparing => sync[p].latest < MaxVersions

WholeInv == Resolved(rows) /\ Bounded

LEMMA WholeInvInit == Init => WholeInv
<1> SUFFICES ASSUME Init PROVE WholeInv
  OBVIOUS
<1>1. DOMAIN rows = {} /\ Len(versions) = 0
  BY DEF Init
<1>2. Resolved(rows)
  BY <1>1 DEF Resolved, HasCycle, CategoriesOf
<1>3. Bounded
  BY <1>1, RegistryAssumption DEF Init, Bounded, Idle, Comparing
<1> QED
  BY <1>2, <1>3 DEF WholeInv

LEMMA WholeInvStep == RegistryInv /\ WholeInv /\ [Next]_vars => WholeInv'
<1> SUFFICES ASSUME RegistryInv, WholeInv, [Next]_vars PROVE WholeInv'
  OBVIOUS
<1>0. DOMAIN sync = Syncs
  BY DEF RegistryInv, SyncInv
<1>1. ASSUME NEW p \in Syncs, Commit(p) PROVE WholeInv'
  <2>1. Commits(sync[p].content, rows, deprecated, versions, rows', deprecated', versions')
    BY <1>1, CommitIsNext
  <2>2. Resolved(rows')
    BY <2>1, SyncOf, ResolvedAfter DEF WholeInv, RegistryInv, Fits, Locals, Commits
  <2>3. Resolved(rows)'
    BY <2>2 DEF Resolved
  <2>4. Len(versions) \in Nat /\ Len(versions') = Len(versions) + 1
    <3>1. Appends(versions, Version(sync[p].content, rows, versions), versions')
      BY <2>1, VersionsAfter DEF RegistryInv, CommittedInv
    <3> QED
      BY <3>1 DEF Appends
  <2>5. sync[p].pc = "topics" /\ sync[p].latest = Len(versions) /\ sync[p].latest < MaxVersions
    BY <1>1, SyncOf DEF Commit, At, RegistryInv, Fits, NextVersion, WholeInv, Bounded, Comparing
  <2>6. \A q \in Syncs : sync'[q] = IF q = p THEN Idle ELSE sync[q]
    BY <1>0, <1>1 DEF Commit, Set
  <2>7. Bounded'
    BY <2>4, <2>5, <2>6, RegistryAssumption DEF WholeInv, Bounded, Idle, Comparing
  <2> QED
    BY <2>3, <2>7 DEF WholeInv
<1>2. ASSUME UNCHANGED <<rows, versions>>, NEW p \in Syncs, NEW l, Set(p, l),
             l.pc \in Comparing => l.latest < MaxVersions
      PROVE  WholeInv'
  <2>1. \A q \in Syncs : sync'[q] = IF q = p THEN l ELSE sync[q]
    BY <1>0, <1>2 DEF Set
  <2>2. Bounded'
    BY <1>2, <2>1 DEF WholeInv, Bounded
  <2> QED
    BY <1>2, <2>2 DEF WholeInv, Resolved
<1>3. ASSUME UNCHANGED <<rows, versions, sync>> PROVE WholeInv'
  BY <1>3 DEF WholeInv, Bounded, Resolved
<1>4. ASSUME UNCHANGED <<rows, versions>>, NEW p \in Syncs, Set(p, Idle) PROVE WholeInv'
  <2>1. Idle.pc \notin Comparing
    BY DEF Idle, Comparing
  <2> QED
    BY <1>2, <1>4, <2>1
<1>5. ASSUME NEW p \in Syncs, Step(p), ~Commit(p) PROVE WholeInv'
  <2> DEFINE l == sync[p]
  <2>1. DOMAIN l = DOMAIN Idle /\ (l.pc \in Comparing => l.latest < MaxVersions)
    BY SyncOf DEF RegistryInv, Fits, Locals, WholeInv, Bounded
  <2>2. UNCHANGED <<rows, versions>>
    BY <1>5 DEF Step, Load, ReadLatest, Diff, OpenVersion, SyncCategories, SyncTopic, Rollback
  <2>3. CASE Load(p)
    <3> DEFINE m == [Idle EXCEPT !.pc = "latest", !.content = files]
    <3>1. m.pc = "latest"
      BY LocalFields
    <3>2. Set(p, m)
      BY <2>3 DEF Load
    <3> HIDE DEF m
    <3> QED
      BY <1>2, <2>2, <3>1, <3>2 DEF Comparing
  <2>4. CASE ReadLatest(p)
    <3> DEFINE m == [l EXCEPT !.pc = "diff", !.latest = Len(versions)]
    <3>1. m.pc = "diff"
      BY <2>1, LocalFields
    <3>2. Set(p, m)
      BY <2>4 DEF ReadLatest
    <3> HIDE DEF m
    <3> QED
      BY <1>2, <2>2, <3>1, <3>2 DEF Comparing
  <2>5. CASE Diff(p)
    <3>1. CASE Set(p, Idle)
      BY <1>4, <2>2, <3>1
    <3>2. CASE ~Set(p, Idle)
      <4> DEFINE m == [l EXCEPT !.pc = "open",
                                !.changes = compare(l.content, rows, Known(p)),
                                !.warned = warnings(l.content, rows)]
      <4>1. m.latest = l.latest
        BY <2>1, LocalFields
      <4>2. Set(p, m) /\ l.latest < MaxVersions
        BY <2>5, <3>2 DEF Diff
      <4> HIDE DEF m
      <4> QED
        BY <1>2, <2>2, <4>1, <4>2
    <3> QED
      BY <3>1, <3>2
  <2>6. CASE OpenVersion(p)
    <3> DEFINE m == [l EXCEPT !.pc = "categories", !.rows = rows, !.deprecated = deprecated]
    <3>1. m.latest = l.latest
      BY <2>1, LocalFields
    <3>2. l.latest < MaxVersions
      BY <2>1, <2>6 DEF OpenVersion, At, Comparing
    <3>3. Set(p, Idle) \/ Set(p, m)
      BY <2>6 DEF OpenVersion
    <3> HIDE DEF m
    <3> QED
      BY <1>2, <1>4, <2>2, <3>1, <3>2, <3>3
  <2>7. CASE SyncCategories(p)
    <3> DEFINE written == Upsert(l.rows, {e \in Entries(l.content) : e.key[1] = "category"})
               m == [l EXCEPT !.pc = "topics", !.rows = written, !.todo = Slugs(l.content.topics)]
    <3>1. m.latest = l.latest
      BY <2>1, LocalFields
    <3>2. l.latest < MaxVersions
      BY <2>1, <2>7 DEF SyncCategories, At, Comparing
    <3>3. Set(p, Idle) \/ Set(p, m)
      BY <2>7 DEF SyncCategories
    <3> HIDE DEF m
    <3> QED
      BY <1>2, <1>4, <2>2, <3>1, <3>2, <3>3
  <2>8. CASE SyncTopic(p)
    <3>1. PICK m : m.latest = l.latest /\ (Set(p, Idle) \/ Set(p, m))
      <4>1. PICK written, dates, slugs :
              \/ Set(p, Idle)
              \/ Set(p, [l EXCEPT !.rows = written, !.deprecated = dates, !.todo = slugs])
        BY <2>8 DEF SyncTopic
      <4>2. [l EXCEPT !.rows = written, !.deprecated = dates, !.todo = slugs].latest = l.latest
        BY <2>1, LocalFields
      <4> QED
        BY <4>1, <4>2
    <3>2. l.latest < MaxVersions
      BY <2>1, <2>8 DEF SyncTopic, At, Comparing
    <3> QED
      BY <1>2, <1>4, <2>2, <3>1, <3>2
  <2>9. CASE Rollback(p)
    BY <1>4, <2>2, <2>9 DEF Rollback
  <2> QED
    BY <1>5, <2>3, <2>4, <2>5, <2>6, <2>7, <2>8, <2>9 DEF Step
<1>6. ASSUME NEW content \in Contents, Edit(content) PROVE WholeInv'
  BY <1>3, <1>6 DEF Edit
<1>7. CASE UNCHANGED vars
  BY <1>3, <1>7 DEF vars
<1> QED
  BY <1>1, <1>5, <1>6, <1>7 DEF Next

-----------------------------------------------------------------------------
(* The results *)

(* The invariant from which the others follow: what the open transaction    *)
(* has compared and written, and what the committed tables say together.    *)
THEOREM RegistryIsInvariant == Spec => []RegistryInv
BY RegistryInvInit, RegistryInvStep, PTL DEF Spec

(* The rows' references resolve and categories form a forest, also of rows  *)
(* kept from registries long gone (no sync removes a row), and the locals   *)
(* of a sync have their types.                                              *)
THEOREM TypeCorrect == Spec => []TypeOK
<1>1. RegistryInv /\ WholeInv => TypeOK
  <2> SUFFICES ASSUME RegistryInv, WholeInv PROVE TypeOK
    OBVIOUS
  <2>1. CategoryRows = CategoriesOf(rows) /\ TopicRows = TopicsOf(rows)
    BY DEF CategoryRows, TopicRows, CategoriesOf, TopicsOf
  <2>2. \A key \in DOMAIN rows : RowResolves(rows, key)
    BY DEF WholeInv, Resolved
  <2>3. ASSUME NEW slug
        PROVE  /\ CategoryKey(slug) \in DOMAIN rows => slug \in Slugs(CategoryRows)
               /\ slug \in Slugs(TopicRows) <=> TopicKey(slug) \in DOMAIN rows
    <3>1. ASSUME CategoryKey(slug) \in DOMAIN rows PROVE slug \in Slugs(CategoryRows)
      <4>1. CategoryKey(slug)[1] = "category" /\ rows[CategoryKey(slug)].slug = slug
        BY <2>2, <3>1, RowOfKey, KindsOfKeys
      <4> QED
        BY <3>1, <4>1 DEF CategoryRows, Slugs
    <3>2. ASSUME TopicKey(slug) \in DOMAIN rows PROVE slug \in Slugs(TopicRows)
      <4>1. TopicKey(slug)[1] = "topic" /\ rows[TopicKey(slug)].slug = slug
        BY <2>2, <3>2, RowOfKey, KindsOfKeys
      <4> QED
        BY <3>2, <4>1 DEF TopicRows, Slugs
    <3>3. ASSUME slug \in Slugs(TopicRows) PROVE TopicKey(slug) \in DOMAIN rows
      <4>1. PICK key \in DOMAIN rows : key[1] = "topic" /\ rows[key].slug = slug
        BY <3>3 DEF TopicRows, Slugs
      <4> QED
        BY <2>2, <4>1, RowOfKey
    <3> QED
      BY <3>1, <3>2, <3>3
  <2>4. \A c \in CategoryRows : c.parent \in Slugs(CategoryRows) \cup {NoParent}
    <3>1. ASSUME NEW c \in CategoryRows
          PROVE  c.parent = NoParent \/ CategoryKey(c.parent) \in DOMAIN rows
      BY <2>2, RowOfKey DEF CategoryRows
    <3> QED
      BY <2>3, <3>1
  <2>5. \A t \in TopicRows : t.category \in Slugs(CategoryRows)
    <3>1. ASSUME NEW t \in TopicRows PROVE CategoryKey(t.category) \in DOMAIN rows
      BY <2>2, RowOfKey DEF TopicRows
    <3> QED
      BY <2>3, <3>1
  <2>6. \A key \in DOMAIN rows : key[1] \in {"alias", "mapping"} => key[2] \in Slugs(TopicRows)
    <3>1. ASSUME NEW key \in DOMAIN rows, key[1] \in {"alias", "mapping"}
          PROVE  TopicKey(key[2]) \in DOMAIN rows
      BY <2>2, <3>1, RowOfKey
    <3> QED
      BY <2>3, <3>1
  <2>7. ~HasCycle(CategoryRows)
    BY <2>1 DEF WholeInv, Resolved
  <2>8. Dated(rows, deprecated, versions) /\ \E entries : versions \in Seq(entries)
    BY DEF RegistryInv, CommittedInv, Committed, Logged
  <2>9. DOMAIN deprecated = Slugs(TopicRows)
    BY <2>3, <2>8 DEF Dated
  <2>10. ASSUME NEW slug \in DOMAIN deprecated PROVE deprecated[slug] \in 0..Len(versions)
    <3>1. Len(versions) \in Nat /\ DOMAIN versions = 1..Len(versions)
      BY <2>8
    <3>2. Retirements(versions, slug) \subseteq 1..Len(versions)
      BY <3>1 DEF Retirements, Audits
    <3>3. CASE deprecated[slug] = 0
      BY <3>1, <3>3
    <3>4. CASE Retirements(versions, slug) # {}
               /\ deprecated[slug] = Max(Retirements(versions, slug))
      BY <3>1, <3>2, <3>4, MaxOfVersions
    <3> QED
      BY <2>8, <3>3, <3>4 DEF Dated
  <2>11. \A p \in Syncs :
           /\ sync[p].pc \in {"idle", "latest", "diff", "open", "categories", "topics"}
           /\ sync[p].content \in Contents \cup {Empty}
           /\ sync[p].latest \in 0..Len(versions)
    BY SyncOf DEF RegistryInv, Fits, Locals, Comparing
  <2> QED
    BY <2>4, <2>5, <2>6, <2>7, <2>9, <2>10, <2>11
    DEF TypeOK, RegistryInv, SyncInv, WholeInv, Bounded
<1>2. RegistryInv /\ WholeInv /\ [Next]_vars => WholeInv'
  BY WholeInvStep
<1> QED
  BY <1>1, <1>2, WholeInvInit, RegistryIsInvariant, PTL DEF Spec

(* The audit log tells the whole history of every row, however syncs of any *)
(* number of processes overlap, fail or crash.                              *)
THEOREM HistoryTheorem == Spec => []HistoryReplays
<1>1. RegistryInv => HistoryReplays
  BY DEF RegistryInv, CommittedInv, Committed, Logged, Replays, Continues, Audits, ChangesIn,
     HistoryReplays, AuditedAt, ChangesOf
<1> QED
  BY <1>1, RegistryIsInvariant, PTL

(* After every commit the database holds each definition of the version.    *)
THEOREM LatestVersionTheorem == Spec => []LatestVersionHolds
<1>1. RegistryInv => LatestVersionHolds
  BY DEF RegistryInv, CommittedInv, Committed, Holds, LatestVersionHolds, Last
<1> QED
  BY <1>1, RegistryIsInvariant, PTL

(* A topic keeps the date of the version that retired it.                   *)
THEOREM DeprecationTheorem == Spec => []DeprecationIsRemembered
<1>1. RegistryInv => DeprecationIsRemembered
  <2> SUFFICES ASSUME RegistryInv, NEW slug \in DOMAIN deprecated
               PROVE  deprecated[slug] =
                        IF rows[TopicKey(slug)].status = "deprecated"
                        THEN Max(Retirements(versions, slug)) ELSE 0
    BY DEF DeprecationIsRemembered, Retirements, Retires, Audits, ChangesIn, AuditedAt, ChangesOf
  <2> QED
    BY DEF RegistryInv, CommittedInv, Committed, Dated
<1> QED
  BY <1>1, RegistryIsInvariant, PTL

(* A sync of the content and warnings of the latest version makes no        *)
(* version.                                                                 *)
THEOREM ResyncTheorem == Spec => []ResyncIsNoop
<1>1. RegistryInv => ResyncIsNoop
  BY DEF RegistryInv, CommittedInv, Committed, Differs, ResyncIsNoop
<1> QED
  BY <1>1, RegistryIsInvariant, PTL

(* In every registry that was loaded a text means one topic, or topics      *)
(* whose collision was reviewed.                                            *)
THEOREM AliasTheorem == Spec => []AliasMeansOneTopic
<1>1. RegistryInv => AliasMeansOneTopic
  <2> SUFFICES ASSUME RegistryInv, NEW p \in Syncs, NEW text \in Texts
               PROVE  LET meant == {a \in sync[p].content.aliases : Matches(a, text)} IN
                      Cardinality(Topics(meant)) > 1 =>
                        \E allowed \in sync[p].content.allowed :
                          Fold[allowed.alias] = Fold[text] /\ Topics(meant) \subseteq allowed.topics
    BY DEF AliasMeansOneTopic
  <2>1. sync[p].content \in Contents \cup {Empty} /\ Valid(sync[p].content)
    BY SyncOf DEF RegistryInv, Fits, Locals
  <2>2. PICK content : content = sync[p].content
    OBVIOUS
  <2>3. PICK meant : meant = {a \in content.aliases : Matches(a, text)}
    OBVIOUS
  <2>4. Cardinality(Topics(meant)) > 1 =>
          \E allowed \in content.allowed :
            Fold[allowed.alias] = Fold[text] /\ Topics(meant) \subseteq allowed.topics
    BY <2>1, <2>2, <2>3, TextMeansOneTopic
  <2> QED
    BY <2>2, <2>3, <2>4
<1> QED
  BY <1>1, RegistryIsInvariant, PTL
=============================================================================
