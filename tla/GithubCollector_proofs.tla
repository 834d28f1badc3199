---------------------- MODULE GithubCollector_proofs ----------------------
(***************************************************************************)
(* Theorems about the GitHub collector, for any repositories, mappings,    *)
(* limits, bounds and faults.  Three of them assume that a repository is   *)
(* due at most once per UTC day.                                           *)
(***************************************************************************)
EXTENDS GithubEvidence, FiniteSetTheorems, WellFoundedInduction, TLAPS

(* github_snapshot_due_hours is at least a day.  The default of 20 hours   *)
(* does not satisfy it, and the three theorems fail there.                 *)
OncePerDay == DueAfter >= Day

-----------------------------------------------------------------------------
(* Days and numbers *)

LEMMA DatesGrow ==
  ASSUME NEW s \in Nat, NEW t \in Nat
  PROVE  /\ Date(s) \in Nat
         /\ s <= t => Date(s) <= Date(t)
         /\ s + Day <= t => Date(s) < Date(t)
<1> DEFINE a == s \div Day
           b == t \div Day
<1>1. Day \in Nat /\ Day > 0
  BY SettingsAssumption
<1>2. a \in Nat /\ s >= Day * a /\ s < Day * a + Day
  BY <1>1
<1>3. b \in Nat /\ t >= Day * b /\ t < Day * b + Day
  BY <1>1
<1>4. ASSUME s <= t PROVE a <= b
  <2>1. SUFFICES ASSUME a >= b + 1 PROVE FALSE
    BY <1>2, <1>3
  <2>2. Day * a >= Day * (b + 1) /\ Day * (b + 1) = Day * b + Day
    BY <1>1, <1>2, <1>3, <2>1
  <2>3. QED
    BY <1>1, <1>2, <1>3, <1>4, <2>2
<1>5. ASSUME s + Day <= t PROVE a < b
  <2>1. SUFFICES ASSUME a >= b PROVE FALSE
    BY <1>2, <1>3
  <2>2. Day * a >= Day * b
    BY <1>1, <1>2, <1>3, <2>1
  <2>3. QED
    BY <1>1, <1>2, <1>3, <1>5, <2>2
<1>6. QED
  BY <1>2, <1>4, <1>5 DEF Date

(* A set of numbers has a least one. *)
LEMMA LeastNatural ==
  ASSUME NEW S, S \subseteq Nat, S # {}
  PROVE  \E n \in S : \A k \in S : n <= k
<1> DEFINE below == {ss \in Nat \X Nat : ss[1] < ss[2]}
<1>1. below = OpToRel(<, Nat)
  BY Zenon DEF OpToRel
<1>2. IsWellFoundedOn(below, Nat)
  BY <1>1, NatLessThanWellFounded
<1>3. PICK n \in S : \A k \in S : <<k, n>> \notin below
  <2> HIDE DEF below
  <2> QED
    BY <1>2, WFMin
<1>4. ASSUME NEW k \in S PROVE n <= k
  <2>1. <<k, n>> \in Nat \X Nat /\ <<k, n>> \notin below
    BY <1>3
  <2>2. ~(k < n)
    BY <2>1
  <2>3. QED
    BY <2>2
<1>5. QED
  BY <1>4

(* A run asks for a repository that is due: the one with the least id. *)
LEMMA AskedIsDue ==
  ASSUME run.due \subseteq Repositories, run.due # {}
  PROVE  Asked \in run.due /\ Asked \in Repositories
<1>1. run.due \subseteq Nat
  BY SettingsAssumption
<1>2. PICK r \in run.due : \A s \in run.due : r <= s
  BY <1>1, LeastNatural
<1>3. QED
  BY <1>2 DEF Asked

-----------------------------------------------------------------------------
(* The inductive invariant *)

Typed ==
  /\ TypeOK
  /\ remote \in [Repositories -> Seq(Ticks)]
  /\ snapshots \in [Repositories -> [Dates -> Snapshot \cup {NoSnapshot}]]

(* The rows of r are filed under their days, and the poll state names the  *)
(* newest of them.                                                         *)
Filed(r) ==
  /\ \A d \in Rows(r) :
       /\ Date(snapshots[r][d].observed) = d
       /\ snapshots[r][d].observed <= clock
       /\ snapshots[r][d].observed <= poll[r].last
       /\ snapshots[r][d].version <= Current(r)
  /\ Rows(r) = {} => poll[r].last = Never /\ poll[r].etag = NoEtag
  /\ Rows(r) # {} =>
       /\ Date(poll[r].last) \in Rows(r)
       /\ snapshots[r][Date(poll[r].last)].observed = poll[r].last

(* What is still to be asked was last seen DueAfter before the run, and a  *)
(* request in flight carries the ETag of the poll state.                   *)
Pending ==
  /\ run.start <= clock /\ run.asked <= clock
  /\ At("item") \/ At("waiting") =>
       \A r \in run.due : poll[r].last = Never \/ poll[r].last + DueAfter <= run.start
  /\ At("waiting") =>
       run.due # {} /\ run.start <= run.asked /\ run.etag = poll[Asked].etag

GithubInv == Typed /\ (\A r \in Repositories : Filed(r)) /\ Pending

LEMMA RowTyped ==
  ASSUME Typed, NEW r \in Repositories, NEW d \in Rows(r)
  PROVE  /\ d \in Dates /\ snapshots[r][d] \in Snapshot
         /\ snapshots[r][d].observed \in Ticks /\ snapshots[r][d].version \in Versions
<1>1. d \in Dates /\ snapshots[r][d] \in Snapshot
  BY DEF Typed, Rows
<1>2. QED
  BY <1>1 DEF Snapshot

LEMMA NewestIsLast ==
  ASSUME GithubInv, NEW r \in Repositories, Rows(r) # {}
  PROVE  /\ Newest(r) = Date(poll[r].last)
         /\ Newest(r) \in Rows(r)
<1> DEFINE z == Date(poll[r].last)
<1>1. /\ Filed(r) /\ Typed /\ z \in Rows(r) /\ snapshots[r][z].observed = poll[r].last
  BY DEF GithubInv, Filed
<1>2. \A e \in Rows(r) : snapshots[r][e].observed <= snapshots[r][z].observed
  BY <1>1 DEF Filed
<1>3. PICK n \in Rows(r) :
        /\ n = Newest(r)
        /\ \A e \in Rows(r) : snapshots[r][e].observed <= snapshots[r][n].observed
  BY <1>1, <1>2 DEF Newest
<1>4. snapshots[r][n].observed \in Int /\ snapshots[r][z].observed \in Int
  BY <1>1, RowTyped, BoundAssumption DEF Ticks
<1>5. snapshots[r][n].observed = poll[r].last
  BY <1>1, <1>2, <1>3, <1>4
<1>6. n = z
  BY <1>1, <1>5 DEF Filed
<1>7. QED
  BY <1>3, <1>6

(* The rows of a repository stay filed while they and its poll state stay. *)
LEMMA FiledKept ==
  ASSUME Typed, NEW r \in Repositories, Filed(r),
         clock \in Int, clock' \in Int, clock <= clock',
         Len(remote[r]) <= Len(remote'[r]), Len(remote'[r]) \in Int,
         snapshots'[r] = snapshots[r],
         poll'[r].last = poll[r].last, poll'[r].etag = poll[r].etag
  PROVE  Filed(r)'
<1>1. Rows(r)' = Rows(r)
  BY DEF Rows
<1>2. ASSUME NEW d \in Rows(r)
      PROVE  /\ snapshots[r][d].observed \in Int /\ snapshots[r][d].version \in Int
  BY RowTyped, BoundAssumption DEF Ticks, Versions
<1>3. Current(r) \in Int
  BY DEF Typed, TypeOK, Versions
<1>4. QED
  BY <1>1, <1>2, <1>3 DEF Filed, Current

-----------------------------------------------------------------------------
(* Recording an answer *)

(* What the request in flight is about: a repository whose rows are all    *)
(* older than the run.                                                     *)
LEMMA InFlight ==
  ASSUME GithubInv, At("waiting")
  PROVE  /\ Asked \in Repositories /\ Asked \in run.due
         /\ run.asked \in Ticks /\ run.asked <= clock /\ run.start <= run.asked
         /\ Date(run.asked) \in Dates
         /\ \A d \in Rows(Asked) : snapshots[Asked][d].observed + DueAfter <= run.start
<1>1. /\ run.due \subseteq Repositories /\ run.start \in Ticks /\ run.asked \in Ticks
      /\ run.due # {} /\ run.start <= run.asked /\ run.asked <= clock
  BY DEF GithubInv, Typed, TypeOK, Locals, Pending
<1>2. Asked \in Repositories /\ Asked \in run.due
  BY <1>1, AskedIsDue
<1>3. PICK r \in Repositories : r = Asked
  BY <1>2
<1>4. poll[r].last = Never \/ poll[r].last + DueAfter <= run.start
  BY <1>2, <1>3 DEF GithubInv, Pending
<1>5. ASSUME NEW d \in Rows(r)
      PROVE  snapshots[r][d].observed + DueAfter <= run.start
  <2>1. snapshots[r][d].observed <= poll[r].last
    BY DEF GithubInv, Filed
  <2>2. snapshots[r][d].observed \in Ticks
    BY RowTyped DEF GithubInv
  <2>3. poll[r].last \in Ticks \cup {Never}
    BY DEF GithubInv, Typed, TypeOK, Poll
  <2>4. QED
    BY <1>1, <1>4, <2>1, <2>2, <2>3, SettingsAssumption, BoundAssumption DEF Ticks, Never
<1>6. QED
  BY <1>1, <1>2, <1>3, <1>5 DEF Dates

(* The poll state of r is written for a request whose date has no row yet  *)
(* or has the newest one.                                                  *)
LEMMA RecordFiles ==
  ASSUME GithubInv, At("waiting"), NEW r \in Repositories, r = Asked,
         NEW v \in Versions, v <= Current(r), Record(r, v),
         remote' = remote, clock' = clock
  PROVE  /\ poll' \in [Repositories -> Poll]
         /\ snapshots' \in [Repositories -> [Dates -> Snapshot \cup {NoSnapshot}]]
         /\ \A s \in Repositories : Filed(s)'
         /\ \A s \in Repositories \ {r} : poll'[s] = poll[s] /\ snapshots'[s] = snapshots[s]
         /\ Rows(r) \subseteq Rows(r)'
         /\ \A d \in Rows(r) : snapshots'[r][d] = snapshots[r][d]
         /\ poll'[r].etag = Current(r) /\ Date(run.asked) \in Rows(r)'
         /\ Date(poll'[r].last) = Date(run.asked)
         /\ Date(run.asked) \notin Rows(r) =>
              /\ Rows(r)' = Rows(r) \cup {Date(run.asked)}
              /\ snapshots'[r][Date(run.asked)] = [observed |-> run.asked, version |-> v]
<1> DEFINE d == Date(run.asked)
           row == [observed |-> run.asked, version |-> v]
<1>1. /\ Typed /\ Filed(r) /\ run.asked \in Ticks /\ run.asked <= clock /\ d \in Dates
      /\ run.start <= run.asked /\ run.start \in Int /\ clock \in Int
      /\ \A e \in Rows(r) : snapshots[r][e].observed + DueAfter <= run.start
  BY InFlight, BoundAssumption DEF GithubInv, Typed, TypeOK, Locals, Ticks
<1>2. Current(r) \in Versions
  BY <1>1 DEF Typed, TypeOK
<1>3. \A e \in Rows(r) : snapshots[r][e].observed < run.asked
  BY <1>1, RowTyped, SettingsAssumption, BoundAssumption DEF Ticks
<1>4. row \in Snapshot /\ row # NoSnapshot
  BY <1>1, BoundAssumption DEF Snapshot, NoSnapshot, Ticks, Never
<1>5. poll \in [Repositories -> Poll]
      /\ snapshots \in [Repositories -> [Dates -> Snapshot \cup {NoSnapshot}]]
  BY <1>1 DEF Typed, TypeOK
<1>6. ASSUME NEW s \in Repositories \ {r}, poll'[s] = poll[s], snapshots'[s] = snapshots[s]
      PROVE  Filed(s)'
  <2>1. Filed(s) /\ Len(remote[s]) \in Int
    BY <1>1 DEF GithubInv, Typed, TypeOK, Current, Versions
  <2>2. QED
    BY <1>1, <1>6, <2>1, FiledKept
<1>7. CASE d \in Rows(r)
  <2> DEFINE p == [etag |-> Current(r), last |-> snapshots[r][d].observed, eligible |-> Never]
  <2>1. poll' = [poll EXCEPT ![r] = p] /\ snapshots' = snapshots
    BY <1>7 DEF Record, mark_poll_success
  <2>2. snapshots[r][d].observed \in Ticks /\ p \in Poll
    BY <1>1, <1>2, <1>7, RowTyped DEF Poll
  <2>3. poll' \in [Repositories -> Poll] /\ poll'[r] = p
        /\ \A s \in Repositories \ {r} : poll'[s] = poll[s]
    BY <1>5, <2>1, <2>2
  <2>4. Rows(r)' = Rows(r)
    BY <2>1 DEF Rows
  <2>5. Date(snapshots[r][d].observed) = d
    BY <1>1, <1>7 DEF Filed
  <2>6. ASSUME NEW e \in Rows(r)
        PROVE  snapshots[r][e].observed <= snapshots[r][d].observed
    <3>1. /\ snapshots[r][e].observed \in Ticks /\ Date(snapshots[r][e].observed) = e
          /\ snapshots[r][e].observed < run.asked
      BY <1>1, <1>3, RowTyped DEF Filed
    <3>2. e <= d
      BY <1>1, <3>1, DatesGrow, BoundAssumption DEF Ticks
    <3>3. snapshots[r][d].observed < snapshots[r][e].observed => e # d
      BY <2>2, <3>1, BoundAssumption DEF Ticks
    <3>4. snapshots[r][d].observed <= snapshots[r][e].observed => d <= e
      BY <2>2, <2>5, <3>1, DatesGrow, BoundAssumption DEF Ticks
    <3>5. e \in Int /\ d \in Int
      BY <1>1, <3>1, DatesGrow, BoundAssumption DEF Ticks
    <3>6. QED
      BY <2>2, <3>1, <3>2, <3>3, <3>4, <3>5, BoundAssumption DEF Ticks
  <2>7. poll'[r].last = snapshots[r][d].observed /\ poll'[r].etag = Current(r)
    BY <2>3
  <2>8. Filed(r)'
    <3> HIDE DEF d, p
    <3>1. Current(r)' = Current(r)
      BY DEF Current
    <3>2. QED
      BY <1>1, <1>7, <2>1, <2>4, <2>5, <2>6, <2>7, <3>1 DEF Filed
  <2>9. QED
    BY <1>5, <1>6, <1>7, <2>1, <2>3, <2>4, <2>5, <2>7, <2>8
<1>8. CASE d \notin Rows(r)
  <2> DEFINE p == [etag |-> Current(r), last |-> run.asked, eligible |-> Never]
  <2>1. /\ poll' = [poll EXCEPT ![r] = p]
        /\ snapshots' = [snapshots EXCEPT ![r] = [snapshots[r] EXCEPT ![d] = row]]
    BY <1>8 DEF Record, mark_poll_success
  <2>2. p \in Poll
    BY <1>1, <1>2 DEF Poll
  <2>3. poll' \in [Repositories -> Poll] /\ poll'[r] = p
        /\ \A s \in Repositories \ {r} : poll'[s] = poll[s]
    BY <1>5, <2>1, <2>2
  <2> HIDE DEF d, row
  <2>4. /\ snapshots' \in [Repositories -> [Dates -> Snapshot \cup {NoSnapshot}]]
        /\ \A s \in Repositories \ {r} : snapshots'[s] = snapshots[s]
        /\ snapshots'[r] = [snapshots[r] EXCEPT ![d] = row]
    BY <1>1, <1>4, <1>5, <2>1
  <2>5. snapshots'[r][d] = row /\ \A e \in Dates \ {d} : snapshots'[r][e] = snapshots[r][e]
    BY <1>1, <1>5, <2>4
  <2>6. Rows(r)' = Rows(r) \cup {d}
    BY <1>1, <1>4, <2>5 DEF Rows
  <2>7. row.observed = run.asked /\ row.version = v /\ d = Date(run.asked)
    BY DEF row, d
  <2>8. poll'[r].last = run.asked /\ poll'[r].etag = Current(r)
    BY <2>3
  <2>9. \A e \in Rows(r) : e \in Dates /\ e # d /\ snapshots'[r][e] = snapshots[r][e]
    BY <1>8, <2>5 DEF Rows
  <2>10. Filed(r)'
    <3> HIDE DEF p
    <3>1. Current(r)' = Current(r)
      BY DEF Current
    <3>2. ASSUME NEW e \in Rows(r)
          PROVE  /\ Date(snapshots'[r][e].observed) = e
                 /\ snapshots'[r][e].observed <= clock
                 /\ snapshots'[r][e].observed <= run.asked
                 /\ snapshots'[r][e].version <= Current(r)
      <4>1. snapshots[r][e].observed \in Ticks
        BY <1>1, RowTyped
      <4>2. QED
        BY <1>1, <1>3, <2>9, <4>1, BoundAssumption DEF Filed, Ticks
    <3>3. QED
      BY <1>1, <2>5, <2>6, <2>7, <2>8, <3>1, <3>2, BoundAssumption DEF Filed, Ticks
  <2>11. QED
    BY <1>5, <1>6, <1>8, <2>3, <2>4, <2>5, <2>6, <2>7, <2>8, <2>9, <2>10 DEF row
<1>9. QED
  BY <1>7, <1>8

-----------------------------------------------------------------------------
(* One lemma per group of steps *)

LEMMA SameRows ==
  ASSUME GithubInv, UNCHANGED <<remote, poll, snapshots>>,
         clock' \in Ticks, clock <= clock',
         match' \in [Mappings -> [Repositories -> TrackingStates]],
         discovery' \in [Mappings -> OperationStatuses],
         run' \in Locals, verdict' \in Verdicts
  PROVE  Typed' /\ (\A r \in Repositories : Filed(r)')
<1>1. Typed /\ clock \in Int /\ clock' \in Int
  BY BoundAssumption DEF GithubInv, Typed, TypeOK, Ticks
<1>2. Typed'
  BY <1>1 DEF Typed, TypeOK, Current
<1>3. ASSUME NEW r \in Repositories PROVE Filed(r)'
  <2>1. Filed(r) /\ Len(remote[r]) \in Int
    BY <1>1 DEF GithubInv, Typed, TypeOK, Current, Versions
  <2>2. QED
    BY <1>1, <2>1, FiledKept
<1>4. QED
  BY <1>2, <1>3

LEMMA IdleTyped == Idle \in Locals
BY SettingsAssumption, BoundAssumption DEF Idle, Locals, Labels, Ticks, NoEtag

LEMMA NextMappingTyped ==
  ASSUME NEW locals \in Locals
  PROVE  /\ NextMapping(locals) \in Locals
         /\ NextMapping(locals).pc \in {"mapping", "finish"}
         /\ NextMapping(locals).start = locals.start /\ NextMapping(locals).asked = locals.asked
<1>1. /\ MappingCount \in Nat /\ locals.m \in 0..MappingCount
      /\ locals.m # MappingCount => locals.m + 1 \in 0..MappingCount
  BY SettingsAssumption DEF Locals
<1>2. CASE locals.m = MappingCount
  BY <1>2 DEF NextMapping, Locals, Labels
<1>3. CASE locals.m # MappingCount
  <2>1. NextMapping(locals) = [locals EXCEPT !.pc = "mapping", !.m = locals.m + 1]
    BY <1>3 DEF NextMapping
  <2>2. QED
    BY <1>1, <1>3, <2>1 DEF Locals, Labels
<1>4. QED
  BY <1>2, <1>3

(* A request more, below the limit. *)
LEMMA OneRequest ==
  ASSUME run \in Locals, run.requests < MaxRequests
  PROVE  run.requests + 1 \in 0..MaxRequests
BY SettingsAssumption DEF Locals

(* Outside a snapshot run nothing is pending. *)
LEMMA NothingPending ==
  ASSUME clock' \in Int, run'.start <= clock', run'.asked <= clock',
         run'.pc \notin {"item", "waiting"}
  PROVE  Pending'
BY DEF Pending, At

LEMMA DiscoveryStep ==
  ASSUME GithubInv, StartDiscovery \/ Discover
  PROVE  GithubInv'
<1>1. /\ run \in Locals /\ clock \in Ticks /\ clock \in Int
      /\ match \in [Mappings -> [Repositories -> TrackingStates]]
      /\ discovery \in [Mappings -> OperationStatuses] /\ verdict \in Verdicts
      /\ run.start <= clock /\ run.asked <= clock /\ 0 <= clock
  BY BoundAssumption DEF GithubInv, Pending, Typed, TypeOK, Ticks
<1>2. CASE StartDiscovery
  <2>1. run' \in Locals /\ run'.start = clock /\ run'.asked = 0 /\ run'.pc = "mapping"
    <3>1. run' = [Idle EXCEPT !.pc = "mapping", !.m = 1, !.start = clock]
      BY <1>2 DEF StartDiscovery
    <3>2. 1 \in 0..MappingCount
      BY SettingsAssumption
    <3>3. run' \in Locals
      BY <1>1, <3>1, <3>2, IdleTyped DEF Locals, Labels
    <3>4. QED
      BY <3>1, <3>3 DEF Idle
  <2>2. QED
    BY <1>1, <1>2, <2>1, SameRows, NothingPending DEF StartDiscovery, GithubInv, Verdicts
<1>3. CASE OpenMapping
  <2>1. run' \in Locals /\ run'.start = run.start /\ run'.asked = run.asked /\ run'.pc = "search"
    BY <1>1, <1>3 DEF OpenMapping, Locals, Labels
  <2>2. discovery' \in [Mappings -> OperationStatuses]
    BY <1>1, <1>3 DEF OpenMapping, OperationStatuses
  <2>3. QED
    BY <1>1, <1>3, <2>1, <2>2, SameRows, NothingPending DEF OpenMapping, GithubInv
<1>4. CASE SearchPage
  <2> DEFINE counted == [run EXCEPT !.requests = @ + 1]
  <2>1. counted \in Locals /\ counted.start = run.start /\ counted.asked = run.asked
        /\ counted.pc = "search"
    BY <1>1, <1>4, SettingsAssumption DEF SearchPage, Locals, At
  <2>2. run' = counted \/ run' = NextMapping(counted)
    BY <1>4 DEF SearchPage
  <2>3. run' \in Locals /\ run'.start = run.start /\ run'.asked = run.asked
        /\ run'.pc \in {"search", "mapping", "finish"}
    <3> HIDE DEF counted
    <3> QED
      BY <2>1, <2>2, NextMappingTyped
  <2>4. discovery' \in [Mappings -> OperationStatuses]
    BY <1>1, <1>4 DEF SearchPage, OperationStatuses
  <2>5. match' \in [Mappings -> [Repositories -> TrackingStates]]
    <3>1. PICK page \in SUBSET Repositories, barred \in SUBSET Repositories :
            match' = [match EXCEPT ![run.m] = [r \in Repositories |->
                        IF r \in barred THEN "candidate"
                        ELSE IF r \in page THEN "tracked" ELSE match[run.m][r]]]
      BY <1>4 DEF SearchPage
    <3>2. ASSUME run.m \in Mappings
          PROVE  [r \in Repositories |->
                    IF r \in barred THEN "candidate"
                    ELSE IF r \in page THEN "tracked" ELSE match[run.m][r]]
                   \in [Repositories -> TrackingStates]
      BY <1>1, <3>2 DEF TrackingStates
    <3>3. QED
      BY <1>1, <3>1, <3>2
  <2>6. QED
    BY <1>1, <1>4, <2>3, <2>4, <2>5, SameRows, NothingPending DEF SearchPage, GithubInv
<1>5. CASE MappingFails
  <2>1. \/ run' = [NextMapping(run) EXCEPT !.errors = TRUE, !.requests = @ + 1]
           /\ run.requests < MaxRequests
        \/ run' = [run EXCEPT !.pc = "finish", !.errors = TRUE]
    BY <1>5 DEF MappingFails
  <2>2. NextMapping(run).requests = run.requests
    BY <1>1 DEF NextMapping, Locals
  <2>3. run' \in Locals /\ run'.start = run.start /\ run'.asked = run.asked
        /\ run'.pc \in {"mapping", "finish"}
    <3>1. NextMapping(run) \in Locals /\ NextMapping(run).pc \in {"mapping", "finish"}
          /\ NextMapping(run).start = run.start /\ NextMapping(run).asked = run.asked
      BY <1>1, NextMappingTyped
    <3>2. CASE run' = [NextMapping(run) EXCEPT !.errors = TRUE, !.requests = @ + 1]
               /\ run.requests < MaxRequests
      <4>1. NextMapping(run).requests + 1 \in 0..MaxRequests
        BY <1>1, <2>2, <3>2, OneRequest
      <4>2. QED
        BY <3>1, <3>2, <4>1 DEF Locals
    <3>3. CASE run' = [run EXCEPT !.pc = "finish", !.errors = TRUE]
      BY <1>1, <3>3 DEF Locals, Labels
    <3>4. QED
      BY <2>1, <3>2, <3>3
  <2>4. discovery' \in [Mappings -> OperationStatuses]
    BY <1>1, <1>5 DEF MappingFails, OperationStatuses
  <2>5. QED
    BY <1>1, <1>5, <2>3, <2>4, SameRows, NothingPending DEF MappingFails, GithubInv
<1>6. QED
  BY <1>2, <1>3, <1>4, <1>5 DEF Discover

LEMMA PollTyped ==
  ASSUME GithubInv, NEW r \in Repositories
  PROVE  /\ poll[r] \in Poll /\ poll[r].etag \in Versions \cup {NoEtag}
         /\ poll[r].last \in Int /\ poll[r].last \in Ticks \cup {Never}
BY BoundAssumption DEF GithubInv, Typed, TypeOK, Poll, Ticks, Never

(* A step of a snapshot run that records nothing: what is asked for, sent, *)
(* given up or finished.                                                   *)
LEMMA WaitingStep ==
  ASSUME GithubInv,
         StartSnapshot \/ StopEarly \/ Send \/ ItemsDone \/ FinishRun
           \/ Retry \/ Unreachable \/ Crash
  PROVE  GithubInv'
<1>1. /\ run \in Locals /\ clock \in Ticks /\ clock \in Int
      /\ match \in [Mappings -> [Repositories -> TrackingStates]]
      /\ discovery \in [Mappings -> OperationStatuses] /\ verdict \in Verdicts
      /\ run.start <= clock /\ run.asked <= clock /\ 0 <= clock
  BY BoundAssumption DEF GithubInv, Pending, Typed, TypeOK, Ticks
<1>2. UNCHANGED <<remote, poll, snapshots>> /\ UNCHANGED <<clock, match, discovery>>
  BY DEF StartSnapshot, StopEarly, Send, ItemsDone, FinishRun, Retry, Unreachable, Crash
<1>3. verdict' \in Verdicts
  BY <1>1 DEF StartSnapshot, StopEarly, Send, ItemsDone, FinishRun, Retry, Unreachable, Crash,
              Verdicts, terminal_status
<1>4. SUFFICES run' \in Locals /\ Pending'
  BY <1>1, <1>2, <1>3, SameRows DEF GithubInv
<1>5. CASE StartSnapshot
  <2> DEFINE due == {r \in Repositories : Due(r, clock)}
  <2>1. run' = [Idle EXCEPT !.pc = "item", !.start = clock, !.listed = due, !.due = due]
    BY <1>5 DEF StartSnapshot
  <2>2. run' \in Locals
    BY <1>1, <2>1, IdleTyped DEF Locals, Labels
  <2>3. run'.start = clock /\ run'.asked = 0 /\ run'.pc = "item" /\ run'.due = due
    BY <2>1 DEF Idle
  <2>4. ASSUME NEW r \in due
        PROVE  poll'[r].last = Never \/ poll'[r].last + DueAfter <= run'.start
    <3>1. poll[r].last = Never \/ poll[r].last <= clock - DueAfter
      BY DEF Due
    <3>2. poll[r].last \in Int /\ DueAfter \in Int
      BY PollTyped, SettingsAssumption
    <3>3. poll[r].last = Never \/ poll[r].last + DueAfter <= clock
      BY <1>1, <3>1, <3>2
    <3>4. QED
      BY <1>2, <2>3, <3>3
  <2>5. QED
    BY <1>1, <1>2, <2>2, <2>3, <2>4 DEF Pending, At
<1>6. CASE StopEarly \/ ItemsDone
  <2>1. run' \in Locals /\ run'.start = run.start /\ run'.asked = run.asked /\ run'.pc = "finish"
    BY <1>1, <1>6 DEF StopEarly, ItemsDone, Locals, Labels
  <2>2. QED
    BY <1>1, <1>2, <2>1, NothingPending
<1>7. CASE FinishRun \/ Crash
  <2>1. run' = Idle /\ Idle.start = 0 /\ Idle.asked = 0 /\ Idle.pc = "idle"
    BY <1>7 DEF FinishRun, Crash, Idle
  <2>2. QED
    BY <1>1, <1>2, <2>1, IdleTyped, NothingPending
<1>8. CASE Send
  <2>1. run.due # {} /\ run.due \subseteq Repositories /\ At("item")
    BY <1>1, <1>8 DEF Send, Locals
  <2>2. PICK r \in Repositories : r = Asked /\ poll[r].etag \in Versions \cup {NoEtag}
    BY <2>1, AskedIsDue, PollTyped
  <2>3. /\ run' = [run EXCEPT !.pc = "waiting", !.etag = poll[r].etag,
                             !.asked = clock, !.requests = @ + 1]
        /\ run.requests < MaxRequests
    BY <1>8, <2>2 DEF Send
  <2>4. run' \in Locals
    <3>1. run.requests + 1 \in 0..MaxRequests
      BY <1>1, <2>3, OneRequest
    <3>2. QED
      BY <1>1, <2>2, <2>3, <3>1 DEF Locals, Labels
  <2>5. /\ run'.start = run.start /\ run'.asked = clock /\ run'.pc = "waiting"
        /\ run'.due = run.due /\ run'.etag = poll[r].etag
    BY <1>1, <2>3 DEF Locals
  <2>6. Asked' = r
    BY <2>2, <2>5 DEF Asked
  <2>7. \A s \in run.due : poll[s].last = Never \/ poll[s].last + DueAfter <= run.start
    BY <2>1 DEF GithubInv, Pending
  <2>8. QED
    BY <1>1, <1>2, <2>1, <2>4, <2>5, <2>6, <2>7 DEF Pending, At
<1>9. CASE Retry
  <2>1. /\ run' = [run EXCEPT !.asked = clock, !.requests = @ + 1]
        /\ run.requests < MaxRequests /\ At("waiting")
    BY <1>9 DEF Retry
  <2>2. run' \in Locals
    <3>1. run.requests + 1 \in 0..MaxRequests
      BY <1>1, <2>1, OneRequest
    <3>2. QED
      BY <1>1, <2>1, <3>1 DEF Locals
  <2>3. /\ run'.start = run.start /\ run'.asked = clock /\ run'.pc = "waiting"
        /\ run'.due = run.due /\ run'.etag = run.etag
    BY <1>1, <2>1 DEF Locals, At
  <2>4. Asked' = Asked
    BY <2>3 DEF Asked
  <2>5. /\ run.due # {} /\ run.etag = poll[Asked].etag
        /\ \A s \in run.due : poll[s].last = Never \/ poll[s].last + DueAfter <= run.start
    BY <2>1 DEF GithubInv, Pending
  <2>6. QED
    BY <1>1, <1>2, <2>2, <2>3, <2>4, <2>5 DEF Pending, At
<1>10. CASE Unreachable
  <2>1. At("waiting") /\ run' \in Locals /\ run'.start = run.start /\ run'.asked = run.asked
        /\ run'.pc \in {"item", "finish"} /\ run'.due \subseteq run.due
    BY <1>1, <1>10 DEF Unreachable, ItemDone, Locals, Labels, NoEtag
  <2>2. \A s \in run.due : poll[s].last = Never \/ poll[s].last + DueAfter <= run.start
    BY <2>1 DEF GithubInv, Pending
  <2>3. QED
    BY <1>1, <1>2, <2>1, <2>2 DEF Pending, At
<1>11. QED
  BY <1>5, <1>6, <1>7, <1>8, <1>9, <1>10

LEMMA ItemDoneTyped ==
  ASSUME run \in Locals
  PROVE  /\ ItemDone(run) \in Locals /\ [ItemDone(run) EXCEPT !.errors = TRUE] \in Locals
         /\ \A l \in {ItemDone(run), [ItemDone(run) EXCEPT !.errors = TRUE]} :
              /\ l.pc = "item" /\ l.start = run.start /\ l.asked = run.asked /\ l.m = run.m
              /\ l.listed = run.listed /\ l.due = run.due \ {Asked}
         /\ ItemDone(run).errors = run.errors
         /\ [ItemDone(run) EXCEPT !.errors = TRUE].errors = TRUE
BY DEF ItemDone, Locals, Labels, NoEtag

LEMMA RefusedStep ==
  ASSUME GithubInv, Refused
  PROVE  /\ GithubInv'
         /\ \A r \in Repositories : poll'[r].last = poll[r].last /\ poll'[r].etag = poll[r].etag
<1>1. PICK r \in Repositories : r = Asked /\ r \in run.due
  BY InFlight DEF Refused
<1>2. PICK t \in {Never} \cup Ticks : poll' = [poll EXCEPT ![r].eligible = t]
  BY <1>1 DEF Refused, mark_poll_failure
<1>3. /\ poll \in [Repositories -> Poll] /\ run \in Locals /\ clock \in Int /\ clock \in Ticks
      /\ UNCHANGED <<clock, remote, snapshots>>
  BY BoundAssumption DEF Refused, GithubInv, Typed, TypeOK, Ticks
<1>4. /\ poll' \in [Repositories -> Poll]
      /\ \A s \in Repositories : poll'[s].last = poll[s].last /\ poll'[s].etag = poll[s].etag
  <2>1. t \in Nat \cup {Never}
    BY BoundAssumption DEF Ticks
  <2>2. QED
    BY <1>2, <1>3, <2>1 DEF Poll
<1>5. run' \in Locals /\ run'.pc = "item" /\ run'.start = run.start /\ run'.asked = run.asked
      /\ run'.due = run.due \ {r}
  BY <1>1, <1>3, ItemDoneTyped DEF Refused
<1>6. Typed'
  BY <1>3, <1>4, <1>5 DEF GithubInv, Typed, TypeOK, Refused, Current
<1>7. ASSUME NEW s \in Repositories PROVE Filed(s)'
  <2>1. Typed /\ Filed(s) /\ Len(remote[s]) \in Int
    BY DEF GithubInv, Typed, TypeOK, Current, Versions
  <2>2. QED
    BY <1>3, <1>4, <2>1, FiledKept
<1>8. Pending'
  <2>1. /\ run.start <= clock /\ run.asked <= clock
        /\ \A s \in run.due : poll[s].last = Never \/ poll[s].last + DueAfter <= run.start
    BY DEF GithubInv, Pending, Refused
  <2>2. run.due \subseteq Repositories
    BY <1>3 DEF Locals
  <2>3. QED
    BY <1>3, <1>4, <1>5, <2>1, <2>2 DEF Pending, At
<1>9. QED
  BY <1>4, <1>6, <1>7, <1>8 DEF GithubInv

(* An answer is recorded, with the version of its body or of the newest row. *)
LEMMA Answered ==
  ASSUME GithubInv, create_full_snapshot \/ create_unchanged_snapshot,
         NEW r \in Repositories, r = Asked
  PROVE  /\ At("waiting") /\ UNCHANGED <<clock, remote, match, discovery, verdict>>
         /\ \/ /\ UNCHANGED <<poll, snapshots>>
               /\ run' = [ItemDone(run) EXCEPT !.errors = TRUE]
            \/ /\ run' = ItemDone(run)
               /\ \E v \in Versions :
                    /\ v <= Current(r) /\ Record(r, v)
                    /\ v = Current(r) \/ (run.etag = Current(r) /\ Rows(r) # {}
                                          /\ v = snapshots[r][Date(poll[r].last)].version)
<1>1. Typed /\ Filed(r) /\ Current(r) \in Versions /\ Current(r) <= Current(r)
  BY DEF GithubInv, Typed, TypeOK, Versions
<1>2. CASE create_full_snapshot
  BY <1>1, <1>2 DEF create_full_snapshot
<1>3. CASE create_unchanged_snapshot /\ Rows(r) = {}
  BY <1>3 DEF create_unchanged_snapshot
<1>4. CASE create_unchanged_snapshot /\ Rows(r) # {}
  <2> DEFINE v == snapshots[r][Newest(r)].version
  <2>1. Newest(r) = Date(poll[r].last) /\ Newest(r) \in Rows(r)
    BY <1>4, NewestIsLast
  <2>2. v \in Versions /\ v <= Current(r)
    BY <1>1, <2>1, RowTyped DEF Filed
  <2>3. Record(r, v) /\ run' = ItemDone(run) /\ run.etag = Current(r)
    BY <1>4 DEF create_unchanged_snapshot
  <2>4. QED
    BY <1>4, <2>1, <2>2, <2>3 DEF create_unchanged_snapshot
<1>5. QED
  BY <1>2, <1>3, <1>4

LEMMA AnswerStep ==
  ASSUME GithubInv, create_full_snapshot \/ create_unchanged_snapshot
  PROVE  GithubInv'
<1>1. PICK r \in Repositories : r = Asked /\ r \in run.due
  BY InFlight DEF create_full_snapshot, create_unchanged_snapshot
<1>2. At("waiting") /\ UNCHANGED <<clock, remote, match, discovery, verdict>>
  BY <1>1, Answered
<1>3. /\ run \in Locals /\ clock \in Ticks /\ clock \in Int /\ run.due \subseteq Repositories
      /\ run.start <= clock /\ run.asked <= clock
      /\ \A s \in run.due : poll[s].last = Never \/ poll[s].last + DueAfter <= run.start
  BY <1>2, BoundAssumption DEF GithubInv, Pending, Typed, TypeOK, Ticks, Locals
<1>4. /\ run' \in Locals /\ run'.pc = "item" /\ run'.due = run.due \ {r}
      /\ run'.start = run.start /\ run'.asked = run.asked
  BY <1>1, <1>3, Answered, ItemDoneTyped
<1>5. CASE UNCHANGED <<poll, snapshots>>
  <2>1. Typed' /\ (\A s \in Repositories : Filed(s)')
    BY <1>2, <1>3, <1>4, <1>5, SameRows DEF GithubInv, Typed, TypeOK
  <2>2. Pending'
    BY <1>2, <1>3, <1>4, <1>5 DEF Pending, At
  <2>3. QED
    BY <2>1, <2>2 DEF GithubInv
<1>6. CASE \E v \in Versions : v <= Current(r) /\ Record(r, v)
  <2>1. PICK v \in Versions : v <= Current(r) /\ Record(r, v)
    BY <1>6
  <2>2. /\ poll' \in [Repositories -> Poll]
        /\ snapshots' \in [Repositories -> [Dates -> Snapshot \cup {NoSnapshot}]]
        /\ \A s \in Repositories : Filed(s)'
        /\ \A s \in Repositories \ {r} : poll'[s] = poll[s]
    BY <1>1, <1>2, <2>1, RecordFiles
  <2>3. Typed'
    BY <1>2, <1>4, <2>2 DEF GithubInv, Typed, TypeOK, Current
  <2>4. Pending'
    BY <1>2, <1>3, <1>4, <2>2 DEF Pending, At
  <2>5. QED
    BY <2>2, <2>3, <2>4 DEF GithubInv
<1>7. QED
  BY <1>1, <1>5, <1>6, Answered

(* Time passes, and repositories change. *)
LEMMA WorldStep ==
  ASSUME GithubInv, Tick \/ \E r \in Repositories : Change(r)
  PROVE  GithubInv'
<1>1. /\ run \in Locals /\ clock \in Ticks /\ clock \in Int /\ run.start \in Int /\ run.asked \in Int
      /\ UNCHANGED <<match, discovery, poll, snapshots, run, verdict>>
  BY BoundAssumption DEF GithubInv, Typed, TypeOK, Ticks, Locals, Tick, Change
<1>2. clock' \in Ticks /\ clock' \in Int /\ clock <= clock'
  BY <1>1, BoundAssumption DEF Tick, Change, Ticks
<1>3. Pending'
  <2>1. Asked' = Asked
    BY <1>1 DEF Asked
  <2>2. QED
    BY <1>1, <1>2, <2>1 DEF GithubInv, Pending, At
<1>4. CASE Tick
  BY <1>1, <1>2, <1>3, <1>4, SameRows DEF Tick, GithubInv, Typed, TypeOK
<1>5. ASSUME NEW r \in Repositories, Change(r)
      PROVE  Typed' /\ (\A s \in Repositories : Filed(s)')
  <2>1. /\ remote \in [Repositories -> Seq(Ticks)] /\ Len(remote[r]) < MaxVersions
        /\ remote' = [remote EXCEPT ![r] = Append(remote[r], clock)]
    BY <1>5 DEF Change, Current, GithubInv, Typed
  <2>2. \A s \in Repositories : remote[s] \in Seq(Ticks) /\ Len(remote[s]) \in Versions
    BY <2>1 DEF GithubInv, Typed, TypeOK, Current
  <2>3. /\ remote' \in [Repositories -> Seq(Ticks)]
        /\ remote'[r] = Append(remote[r], clock)
        /\ \A s \in Repositories \ {r} : remote'[s] = remote[s]
    BY <1>1, <2>1, <2>2
  <2>4. Len(remote'[r]) = Len(remote[r]) + 1
    BY <1>1, <2>2, <2>3
  <2>5. \A s \in Repositories : Len(remote'[s]) \in Versions /\ Len(remote[s]) <= Len(remote'[s])
    BY <2>1, <2>2, <2>3, <2>4, BoundAssumption DEF Versions
  <2>6. Typed'
    BY <1>1, <1>2, <2>3, <2>5 DEF GithubInv, Typed, TypeOK, Current
  <2>7. ASSUME NEW s \in Repositories PROVE Filed(s)'
    BY <1>1, <1>2, <2>5, FiledKept DEF GithubInv, Versions
  <2>8. QED
    BY <2>6, <2>7
<1>6. QED
  BY <1>3, <1>4, <1>5 DEF GithubInv

-----------------------------------------------------------------------------
(* The invariant, and types *)

LEMMA GithubInvInit == Init => GithubInv
<1> SUFFICES ASSUME Init PROVE GithubInv
  OBVIOUS
<1>1. 0 \in Ticks /\ 1 \in Versions
  BY BoundAssumption DEF Ticks, Versions
<1>2. Typed
  <2>1. \A r \in Repositories : remote[r] = <<0>>
    BY DEF Init
  <2>2. \A r \in Repositories : remote[r] \in Seq(Ticks) /\ Current(r) \in Versions
    <3>1. <<0>> \in Seq(Ticks) /\ Len(<<0>>) = 1
      BY <1>1
    <3>2. QED
      BY <1>1, <2>1, <3>1 DEF Current
  <2>3. QED
    BY <1>1, <2>2, IdleTyped DEF Init, Typed, TypeOK, NewPoll, Poll, NoSnapshot, TrackingStates,
         OperationStatuses, Verdicts
<1>3. ASSUME NEW r \in Repositories PROVE Filed(r)
  <2>1. Rows(r) = {} /\ poll[r] = NewPoll
    BY DEF Init, Rows
  <2>2. QED
    BY <2>1 DEF Filed, NewPoll
<1>4. Pending
  BY DEF Init, Idle, Pending, At
<1>5. QED
  BY <1>2, <1>3, <1>4 DEF GithubInv

LEMMA GithubInvStep == GithubInv /\ [Next]_vars => GithubInv'
<1> SUFFICES ASSUME GithubInv, [Next]_vars PROVE GithubInv'
  OBVIOUS
<1>1. CASE UNCHANGED vars
  <2>1. Asked' = Asked /\ \A r \in Repositories : Filed(r)' = Filed(r)
    BY <1>1 DEF vars, Asked, Filed, Rows, Current
  <2>2. QED
    BY <1>1, <2>1 DEF vars, GithubInv, Typed, TypeOK, Pending, At, Current
<1>2. QED
  BY <1>1, DiscoveryStep, WaitingStep, RefusedStep, AnswerStep, WorldStep
  DEF Next, Collect, Fails

LEMMA GithubInvAlways == Spec => []GithubInv
BY GithubInvInit, GithubInvStep, PTL DEF Spec

(* Every reachable state of the collector has its types, for any fault.    *)
THEOREM TypeCorrect == Spec => []TypeOK
<1>1. GithubInv => TypeOK
  BY DEF GithubInv, Typed
<1>2. QED
  BY <1>1, GithubInvAlways, PTL

-----------------------------------------------------------------------------
(* ETags and rows *)

(* The ETag of the poll state names the newest row, and every row shows    *)
(* the repository as it was when it was asked for.                         *)
Exact(r) ==
  /\ Rows(r) # {} => snapshots[r][Date(poll[r].last)].version = poll[r].etag
  /\ \A d \in Rows(r) :
       \/ snapshots[r][d].version = Current(r)
       \/ remote[r][snapshots[r][d].version + 1] >= snapshots[r][d].observed

ExactInv == GithubInv /\ \A r \in Repositories : Exact(r)

(* The day of a request has no row yet. *)
LEMMA NewDay ==
  ASSUME OncePerDay, GithubInv, At("waiting")
  PROVE  Date(run.asked) \notin Rows(Asked)
<1>1. PICK r \in Repositories : r = Asked
  BY InFlight
<1>2. ASSUME NEW d \in Rows(r) PROVE d # Date(run.asked)
  <2>1. /\ snapshots[r][d].observed \in Nat /\ run.asked \in Nat /\ run.start \in Nat
        /\ Date(snapshots[r][d].observed) = d
    BY InFlight, RowTyped, BoundAssumption DEF GithubInv, Typed, TypeOK, Locals, Ticks, Filed
  <2>2. snapshots[r][d].observed + Day <= run.asked
    BY <1>1, <2>1, InFlight, SettingsAssumption DEF OncePerDay
  <2>3. Date(snapshots[r][d].observed) < Date(run.asked) /\ Date(run.asked) \in Nat
    BY <2>1, <2>2, DatesGrow
  <2>4. QED
    BY <2>1, <2>3
<1>3. QED
  BY <1>1, <1>2

LEMMA ExactKept ==
  ASSUME NEW r \in Repositories, Exact(r), remote'[r] = remote[r], snapshots'[r] = snapshots[r],
         poll'[r].last = poll[r].last, poll'[r].etag = poll[r].etag
  PROVE  Exact(r)'
<1>1. Rows(r)' = Rows(r) /\ Current(r)' = Current(r)
  BY DEF Rows, Current
<1>2. QED
  BY <1>1 DEF Exact

LEMMA ExactAnswer ==
  ASSUME OncePerDay, ExactInv, create_full_snapshot \/ create_unchanged_snapshot,
         NEW s \in Repositories
  PROVE  Exact(s)'
<1>1. PICK r \in Repositories : r = Asked
  BY InFlight DEF ExactInv, create_full_snapshot, create_unchanged_snapshot
<1>2. /\ At("waiting") /\ UNCHANGED <<clock, remote>> /\ GithubInv
      /\ \/ UNCHANGED <<poll, snapshots>>
         \/ \E v \in Versions :
              /\ v <= Current(r) /\ Record(r, v)
              /\ v = Current(r) \/ (run.etag = Current(r) /\ Rows(r) # {}
                                    /\ v = snapshots[r][Date(poll[r].last)].version)
  BY <1>1, Answered DEF ExactInv
<1>3. CASE UNCHANGED <<poll, snapshots>>
  BY <1>2, <1>3, ExactKept DEF ExactInv
<1>4. ASSUME NEW v \in Versions, v <= Current(r), Record(r, v),
             v = Current(r) \/ (run.etag = Current(r) /\ Rows(r) # {}
                                /\ v = snapshots[r][Date(poll[r].last)].version)
      PROVE  Exact(s)'
  <2> DEFINE d == Date(run.asked)
  <2>1. v = Current(r)
    BY <1>1, <1>2, <1>4 DEF ExactInv, Exact, GithubInv, Pending
  <2>2. /\ \A t \in Repositories \ {r} : poll'[t] = poll[t] /\ snapshots'[t] = snapshots[t]
        /\ \A e \in Rows(r) : snapshots'[r][e] = snapshots[r][e]
        /\ poll'[r].etag = Current(r) /\ Date(poll'[r].last) = d
        /\ Rows(r)' = Rows(r) \cup {d}
        /\ snapshots'[r][d] = [observed |-> run.asked, version |-> v]
    BY <1>1, <1>2, <1>4, NewDay, RecordFiles
  <2>3. CASE s # r
    BY <1>2, <2>2, <2>3, ExactKept DEF ExactInv
  <2>4. CASE s = r
    <3>1. Current(r)' = Current(r) /\ snapshots'[r][d].version = Current(r)
      BY <1>2, <2>1, <2>2 DEF Current
    <3>2. Exact(r)
      BY DEF ExactInv
    <3> HIDE DEF d
    <3>3. QED
      BY <1>2, <2>2, <2>4, <3>1, <3>2 DEF Exact
  <2>5. QED
    BY <2>3, <2>4
<1>5. QED
  BY <1>2, <1>3, <1>4

LEMMA ExactChange ==
  ASSUME ExactInv, NEW r \in Repositories, Change(r), NEW s \in Repositories
  PROVE  Exact(s)'
<1>1. /\ remote \in [Repositories -> Seq(Ticks)] /\ clock \in Int /\ Exact(s) /\ Filed(r)
      /\ remote' = [remote EXCEPT ![r] = Append(remote[r], clock)]
      /\ UNCHANGED <<poll, snapshots>> /\ Typed
  BY BoundAssumption DEF ExactInv, GithubInv, Typed, TypeOK, Change, Ticks
<1>2. CASE s # r
  <2>1. remote'[s] = remote[s]
    BY <1>1, <1>2
  <2>2. QED
    BY <1>1, <2>1, ExactKept
<1>3. CASE s = r
  <2> DEFINE n == Len(remote[r])
  <2>1. /\ remote[r] \in Seq(Ticks) /\ n \in Nat /\ remote'[r] = Append(remote[r], clock)
    BY <1>1
  <2>2. /\ Len(remote'[r]) = n + 1 /\ remote'[r][n + 1] = clock
        /\ \A i \in 1..n : remote'[r][i] = remote[r][i]
    BY <2>1
  <2>3. Rows(r)' = Rows(r)
    BY <1>1 DEF Rows
  <2>4. ASSUME NEW d \in Rows(r)
        PROVE  remote'[r][snapshots[r][d].version + 1] >= snapshots[r][d].observed
    <3>1. /\ snapshots[r][d].version \in Versions /\ snapshots[r][d].observed \in Int
          /\ snapshots[r][d].observed <= clock /\ snapshots[r][d].version <= n
      BY <1>1, RowTyped, BoundAssumption DEF Filed, Ticks, Current
    <3>2. CASE snapshots[r][d].version = n
      BY <1>1, <2>2, <3>1, <3>2
    <3>3. CASE snapshots[r][d].version # n
      <4>1. remote[r][snapshots[r][d].version + 1] >= snapshots[r][d].observed
        BY <1>1, <1>3, <3>3 DEF Exact, Current
      <4>2. snapshots[r][d].version + 1 \in 1..n
        BY <2>1, <3>1, <3>3, BoundAssumption DEF Versions
      <4>3. QED
        BY <2>2, <4>1, <4>2
    <3>4. QED
      BY <3>2, <3>3
  <2>5. QED
    BY <1>1, <1>3, <2>3, <2>4 DEF Exact
<1>4. QED
  BY <1>2, <1>3

LEMMA ExactStep == ASSUME OncePerDay PROVE ExactInv /\ [Next]_vars => ExactInv'
<1> SUFFICES ASSUME ExactInv, [Next]_vars PROVE ExactInv'
  OBVIOUS
<1>1. GithubInv /\ GithubInv'
  BY GithubInvStep DEF ExactInv
<1>2. SUFFICES ASSUME NEW r \in Repositories PROVE Exact(r)'
  BY <1>1 DEF ExactInv
<1>3. CASE create_full_snapshot \/ create_unchanged_snapshot
  BY <1>3, ExactAnswer
<1>4. CASE \E s \in Repositories : Change(s)
  BY <1>4, ExactChange
<1>5. CASE Refused
  <2>1. UNCHANGED <<remote, snapshots>>
    BY <1>5 DEF Refused
  <2>2. QED
    BY <1>1, <1>5, <2>1, RefusedStep, ExactKept DEF ExactInv
<1>6. CASE UNCHANGED <<remote, poll, snapshots>>
  BY <1>6, ExactKept DEF ExactInv
<1>7. CASE \/ StartDiscovery \/ OpenMapping \/ SearchPage \/ MappingFails \/ StartSnapshot
           \/ StopEarly \/ Send \/ ItemsDone \/ FinishRun \/ Retry \/ Unreachable
           \/ Crash \/ Tick \/ UNCHANGED vars
  BY <1>6, <1>7 DEF StartDiscovery, OpenMapping, SearchPage, MappingFails, StartSnapshot,
    StopEarly, Send, ItemsDone, FinishRun, Retry, Unreachable, Crash, Tick, vars
<1>8. QED
  BY <1>3, <1>4, <1>5, <1>7 DEF Next, Discover, Collect, Fails

LEMMA ExactAlways == ASSUME OncePerDay PROVE Spec => []ExactInv
<1>1. Init => ExactInv
  BY GithubInvInit DEF Init, ExactInv, Exact, Rows
<1>2. QED
  BY <1>1, ExactStep, PTL DEF Spec

(* If a repository is due at most once a day, the ETag sent next names the *)
(* version of the newest row, so a 304 never repeats another one.          *)
THEOREM EtagsName == ASSUME OncePerDay PROVE Spec => []EtagNamesNewest
<1>1. ExactInv => EtagNamesNewest
  BY NewestIsLast DEF ExactInv, Exact, EtagNamesNewest, GithubInv, Filed
<1>2. QED
  BY <1>1, ExactAlways, PTL

(* If a repository is due at most once a day, every daily row shows the    *)
(* repository as it was when it was asked for.                             *)
THEOREM RowsAreCurrent == ASSUME OncePerDay PROVE Spec => []SnapshotIsCurrent
<1>1. ExactInv => SnapshotIsCurrent
  BY DEF ExactInv, Exact, SnapshotIsCurrent
<1>2. QED
  BY <1>1, ExactAlways, PTL

-----------------------------------------------------------------------------
(* Verdicts *)

(* Repository r has a row of the running run's own time. *)
SeenInRun(r) == \E d \in Rows(r) : snapshots[r][d].observed >= run.start

(* What a run without an error has done so far. *)
Honest ==
  ~run.errors =>
    /\ At("mapping") \/ At("search") =>
         /\ run.listed = {} /\ run.m \in Mappings
         /\ \A k \in 1..(run.m - 1) : discovery[k] = "succeeded"
    /\ At("item") \/ At("waiting") =>
         run.m = 0 /\ \A r \in run.listed \ run.due : SeenInRun(r)
    /\ At("finish") =>
         /\ \A r \in run.listed : SeenInRun(r)
         /\ run.m # 0 => \A m \in Mappings : discovery[m] = "succeeded"

HonestInv == GithubInv /\ Honest

LEMMA HonestDiscovery ==
  ASSUME HonestInv, StartDiscovery \/ Discover
  PROVE  Honest'
<1>1. /\ run \in Locals /\ MappingCount \in Nat \ {0} /\ run.m \in Nat
      /\ discovery \in [Mappings -> OperationStatuses]
      /\ UNCHANGED snapshots
  BY SettingsAssumption
  DEF HonestInv, GithubInv, Typed, TypeOK, Locals, StartDiscovery, Discover, OpenMapping, SearchPage,
      MappingFails
<1>2. CASE StartDiscovery
  <2>1. run'.listed = {} /\ run'.m = 1 /\ run'.pc = "mapping"
    BY <1>2 DEF StartDiscovery, Idle
  <2>2. QED
    BY <1>1, <2>1 DEF Honest, At, Mappings
<1>3. CASE OpenMapping
  <2>1. /\ run'.listed = run.listed /\ run'.m = run.m /\ run'.pc = "search"
        /\ run'.errors = run.errors /\ At("mapping")
        /\ discovery' = [discovery EXCEPT ![run.m] = "running"]
    BY <1>1, <1>3 DEF OpenMapping, Locals
  <2>2. \A k \in 1..(run.m - 1) : discovery'[k] = discovery[k]
    BY <1>1, <2>1
  <2>3. QED
    BY <2>1, <2>2 DEF HonestInv, Honest, At
<1>4. CASE SearchPage
  <2> DEFINE counted == [run EXCEPT !.requests = @ + 1]
  <2>1. /\ counted.listed = run.listed /\ counted.m = run.m /\ counted.pc = "search"
        /\ counted.errors = run.errors /\ At("search")
        /\ NextMapping(counted).errors = run.errors
    BY <1>1, <1>4 DEF SearchPage, Locals, At, NextMapping
  <2>2. SUFFICES ASSUME ~run.errors PROVE Honest'
    BY <1>4, <2>1 DEF SearchPage, Honest
  <2>3. /\ run.listed = {} /\ run.m \in Mappings
        /\ \A k \in 1..(run.m - 1) : discovery[k] = "succeeded"
    BY <2>1, <2>2 DEF HonestInv, Honest
  <2>4. CASE run' = counted /\ UNCHANGED discovery
    <3> HIDE DEF counted
    <3> QED
      BY <2>1, <2>3, <2>4 DEF Honest, At
  <2>5. CASE run' = NextMapping(counted) /\ discovery' = [discovery EXCEPT ![run.m] = "succeeded"]
    <3>1. \A k \in 1..run.m : discovery'[k] = "succeeded"
      <4>1. \A k \in 1..run.m : k \in Mappings /\ (k = run.m \/ k \in 1..(run.m - 1))
        BY <1>1, <2>3 DEF Mappings
      <4>2. QED
        BY <1>1, <2>3, <2>5, <4>1
    <3>2. CASE run.m = MappingCount
      <4>1. run'.pc = "finish" /\ run'.listed = {}
        BY <1>1, <2>1, <2>3, <2>5, <3>2 DEF NextMapping, Locals
      <4>2. QED
        BY <3>1, <3>2, <4>1 DEF Honest, At, Mappings
    <3>3. CASE run.m # MappingCount
      <4>1. run'.pc = "mapping" /\ run'.listed = {} /\ run'.m = run.m + 1
        BY <1>1, <2>1, <2>3, <2>5, <3>3 DEF NextMapping, Locals
      <4>2. run.m + 1 \in Mappings /\ (run.m + 1) - 1 = run.m
        BY <1>1, <2>3, <3>3 DEF Mappings
      <4>3. QED
        BY <3>1, <4>1, <4>2 DEF Honest, At
    <3>4. QED
      BY <3>2, <3>3
  <2>6. QED
    BY <1>4, <2>4, <2>5 DEF SearchPage
<1>5. CASE MappingFails
  <2>1. run'.errors = TRUE
    <3>1. NextMapping(run) \in Locals
      BY <1>1, NextMappingTyped
    <3>2. QED
      BY <1>1, <1>5, <3>1 DEF MappingFails, Locals
  <2>2. QED
    BY <2>1 DEF Honest
<1>6. QED
  BY <1>2, <1>3, <1>4, <1>5 DEF Discover

LEMMA HonestWaiting ==
  ASSUME HonestInv,
         StartSnapshot \/ StopEarly \/ Send \/ ItemsDone \/ FinishRun
           \/ Retry \/ Unreachable \/ Crash \/ Refused
  PROVE  Honest'
<1>1. run \in Locals /\ UNCHANGED <<snapshots, discovery>>
      /\ \A r \in Repositories : Rows(r)' = Rows(r)
  BY DEF HonestInv, GithubInv, Typed, TypeOK, StartSnapshot, StopEarly, Send, ItemsDone, FinishRun,
         Retry, Unreachable, Crash, Refused, Rows
<1>2. CASE StartSnapshot
  <2>1. run'.pc = "item" /\ run'.m = 0 /\ run'.listed = run'.due
    BY <1>2 DEF StartSnapshot, Idle
  <2>2. QED
    BY <2>1 DEF Honest, At
<1>3. CASE StopEarly \/ Unreachable \/ Refused
  <2>1. run'.errors = TRUE
    BY <1>1, <1>3, ItemDoneTyped DEF StopEarly, Unreachable, Refused, Locals
  <2>2. QED
    BY <2>1 DEF Honest
<1>4. CASE Send \/ Retry
  <2>1. /\ run'.pc = "waiting" /\ run'.m = run.m /\ run'.listed = run.listed /\ run'.due = run.due
        /\ run'.start = run.start /\ run'.errors = run.errors /\ (At("item") \/ At("waiting"))
    BY <1>1, <1>4 DEF Send, Retry, Locals, At
  <2>2. run.listed \subseteq Repositories
    BY <1>1 DEF Locals
  <2>3. QED
    BY <1>1, <2>1, <2>2 DEF HonestInv, Honest, At, SeenInRun
<1>5. CASE ItemsDone
  <2>1. /\ run'.pc = "finish" /\ run'.m = run.m /\ run'.listed = run.listed /\ run.due = {}
        /\ run'.start = run.start /\ run'.errors = run.errors /\ At("item")
    BY <1>1, <1>5 DEF ItemsDone, Locals
  <2>2. run.listed \subseteq Repositories
    BY <1>1 DEF Locals
  <2>3. QED
    BY <1>1, <2>1, <2>2 DEF HonestInv, Honest, At, SeenInRun
<1>6. CASE FinishRun \/ Crash
  <2>1. run'.pc = "idle"
    BY <1>6 DEF FinishRun, Crash, Idle
  <2>2. QED
    BY <2>1 DEF Honest, At
<1>7. QED
  BY <1>2, <1>3, <1>4, <1>5, <1>6

(* Recording an answer gives its repository a row of the run's own time. *)
LEMMA HonestAnswer ==
  ASSUME OncePerDay, HonestInv, create_full_snapshot \/ create_unchanged_snapshot
  PROVE  Honest'
<1>1. PICK r \in Repositories : r = Asked /\ r \in run.due
  BY InFlight DEF HonestInv, create_full_snapshot, create_unchanged_snapshot
<1>2. /\ At("waiting") /\ UNCHANGED <<clock, remote>> /\ GithubInv /\ run \in Locals
      /\ \/ run' = [ItemDone(run) EXCEPT !.errors = TRUE]
         \/ run' = ItemDone(run) /\ \E v \in Versions : v <= Current(r) /\ Record(r, v)
  BY <1>1, Answered DEF HonestInv, GithubInv, Typed, TypeOK
<1>3. CASE run' = [ItemDone(run) EXCEPT !.errors = TRUE]
  BY <1>2, <1>3, ItemDoneTyped DEF Honest
<1>4. CASE run' = ItemDone(run) /\ \E v \in Versions : v <= Current(r) /\ Record(r, v)
  <2>1. PICK v \in Versions : v <= Current(r) /\ Record(r, v)
    BY <1>4
  <2>2. /\ run'.pc = "item" /\ run'.m = run.m /\ run'.listed = run.listed
        /\ run'.due = run.due \ {r} /\ run'.start = run.start /\ run'.errors = run.errors
        /\ run.listed \subseteq Repositories
    BY <1>1, <1>2, <1>4, ItemDoneTyped DEF Locals
  <2> DEFINE d == Date(run.asked)
  <2>3. /\ Rows(r) \subseteq Rows(r)' /\ \A e \in Rows(r) : snapshots'[r][e] = snapshots[r][e]
        /\ \A s \in Repositories \ {r} : snapshots'[s] = snapshots[s]
        /\ d \in Rows(r)' /\ snapshots'[r][d] = [observed |-> run.asked, version |-> v]
    BY <1>1, <1>2, <2>1, NewDay, RecordFiles
  <2> HIDE DEF d
  <2>4. SeenInRun(r)'
    BY <1>2, <2>2, <2>3, InFlight DEF SeenInRun
  <2>5. ASSUME NEW s \in Repositories, SeenInRun(s) PROVE SeenInRun(s)'
    <3>1. PICK e \in Rows(s) : snapshots[s][e].observed >= run.start
      BY <2>5 DEF SeenInRun
    <3>2. e \in Rows(s)' /\ snapshots'[s][e] = snapshots[s][e]
      BY <2>3 DEF Rows
    <3>3. QED
      BY <2>2, <3>1, <3>2 DEF SeenInRun
  <2>6. QED
    BY <1>1, <1>2, <2>2, <2>4, <2>5 DEF HonestInv, Honest, At
<1>5. QED
  BY <1>2, <1>3, <1>4

LEMMA HonestStep == ASSUME OncePerDay PROVE HonestInv /\ [Next]_vars => HonestInv'
<1> SUFFICES ASSUME HonestInv, [Next]_vars PROVE Honest'
  BY GithubInvStep DEF HonestInv
<1>1. CASE UNCHANGED <<snapshots, run, discovery>>
  BY <1>1 DEF HonestInv, Honest, At, SeenInRun, Rows
<1>2. CASE Tick \/ (\E r \in Repositories : Change(r)) \/ UNCHANGED vars
  BY <1>1, <1>2 DEF Tick, Change, vars
<1>3. QED
  BY <1>2, HonestDiscovery, HonestWaiting, HonestAnswer DEF Next, Collect, Fails

LEMMA HonestAlways == ASSUME OncePerDay PROVE Spec => []HonestInv
<1>1. Init => HonestInv
  BY GithubInvInit DEF Init, HonestInv, Honest, At, Idle
<1>2. QED
  BY <1>1, HonestStep, PTL DEF Spec

(* If a repository is due at most once a day, a snapshot run that reports  *)
(* success has a row of its own time for every repository that was due,    *)
(* and a discovery that does has searched every mapping.                   *)
THEOREM VerdictsAreHonest == ASSUME OncePerDay PROVE Spec => HonestVerdict
<1>1. HonestInv /\ [Next]_vars =>
        [verdict = "running" /\ verdict' = "succeeded" =>
          /\ \A r \in run.listed : \E d \in Rows(r) : snapshots[r][d].observed >= run.start
          /\ run.m # 0 => \A m \in Mappings : discovery[m] = "succeeded"]_vars
  <2> SUFFICES ASSUME HonestInv, Next, verdict = "running", verdict' = "succeeded"
               PROVE  /\ \A r \in run.listed : SeenInRun(r)
                      /\ run.m # 0 => \A m \in Mappings : discovery[m] = "succeeded"
    BY DEF SeenInRun
  <2>1. FinishRun
    BY DEF Next, StartDiscovery, Discover, OpenMapping, SearchPage, MappingFails, StartSnapshot,
      Collect, StopEarly, Send, create_full_snapshot, create_unchanged_snapshot, ItemsDone,
      Fails, Retry, Unreachable, Refused, Crash, Change, Tick
  <2>2. At("finish") /\ ~run.errors
    BY <2>1 DEF FinishRun, terminal_status
  <2>3. QED
    BY <2>2 DEF HonestInv, Honest
<1>2. QED
  BY <1>1, HonestAlways, PTL DEF Spec, HonestVerdict

-----------------------------------------------------------------------------
(* Sums over a finite set.  MapThenSumSet takes one element after another   *)
(* out of the set: its value is that of a recursive function on the subsets.*)
Pick(s) == CHOOSE x \in s : TRUE
Rest(s) == s \ {Pick(s)}

Sums(f, S, g) ==
  g = [s \in SUBSET S |-> IF s = {} THEN 0 ELSE f[Pick(s)] + g[Rest(s)]]

LEMMA RestIsSmaller ==
  ASSUME NEW S, IsFiniteSet(S), NEW s \in SUBSET S, s # {}
  PROVE  /\ Pick(s) \in S /\ Rest(s) \in SUBSET S
         /\ Cardinality(s) \in Nat \ {0} /\ Cardinality(Rest(s)) = Cardinality(s) - 1
<1>1. Pick(s) \in s
  BY DEF Pick
<1>2. IsFiniteSet(s)
  BY FS_Subset
<1>3. Cardinality(s) \in Nat /\ Cardinality(s) # 0
  BY <1>2, FS_CardinalityType, FS_EmptySet
<1>4. Cardinality(Rest(s)) = Cardinality(s) - 1
  BY <1>1, <1>2, FS_RemoveElement DEF Rest
<1>5. QED
  BY <1>1, <1>3, <1>4 DEF Rest

LEMMA SumsExist ==
  ASSUME NEW S, IsFiniteSet(S), NEW f \in [S -> Int]
  PROVE  \E g : Sums(f, S, g)
<1> DEFINE Step(g) == [s \in SUBSET S |-> IF s = {} THEN 0 ELSE f[Pick(s)] + g[Rest(s)]]
           Solves(g, n) ==
             /\ g \in [SUBSET S -> Int]
             /\ \A s \in SUBSET S : Cardinality(s) <= n => g[s] = Step(g)[s]
           bad == {n \in Nat : ~ \E g : Solves(g, n)}
<1>1. bad = {}
  <2>1. SUFFICES ASSUME bad # {} PROVE FALSE
    OBVIOUS
  <2>2. PICK n \in bad : \A k \in bad : n <= k
    <3>1. bad \subseteq Nat
      OBVIOUS
    <3> HIDE DEF bad
    <3>2. QED
      BY <2>1, <3>1, LeastNatural
  <2>3. CASE n = 0
    <3> DEFINE zero == [s \in SUBSET S |-> 0]
    <3>1. ASSUME NEW s \in SUBSET S, Cardinality(s) <= 0 PROVE s = {}
      BY <3>1, RestIsSmaller
    <3>2. Solves(zero, 0)
      BY <3>1
    <3>3. QED
      BY <2>3, <3>2
  <2>4. CASE n # 0
    <3>0. n \in Nat
      OBVIOUS
    <3>1. n - 1 \in Nat /\ n - 1 \notin bad
      <4> HIDE DEF bad
      <4> QED
        BY <2>2, <2>4, <3>0
    <3>2. PICK g : Solves(g, n - 1)
      <4>1. \E g : Solves(g, n - 1)
        <5> HIDE DEF Solves
        <5> QED
          BY <3>1
      <4> HIDE DEF Solves
      <4> QED
        BY <4>1
    <3>3. Step(g) \in [SUBSET S -> Int]
      BY <3>2, RestIsSmaller
    <3>4. ASSUME NEW s \in SUBSET S, Cardinality(s) <= n, s # {}
          PROVE  Step(g)[Rest(s)] = g[Rest(s)]
      <4>1. Rest(s) \in SUBSET S /\ Cardinality(Rest(s)) <= n - 1
        BY <3>1, <3>4, RestIsSmaller
      <4>2. QED
        BY <3>2, <4>1
    <3>5. Solves(Step(g), n)
      BY <3>3, <3>4
    <3>6. QED
      BY <3>5
  <2>5. QED
    BY <2>3, <2>4
<1>2. Cardinality(S) \in Nat
  BY FS_CardinalityType
<1>3. PICK g : Solves(g, Cardinality(S))
  BY <1>1, <1>2
<1>4. \A s \in SUBSET S : Cardinality(s) <= Cardinality(S)
  BY FS_Subset
<1>5. g = Step(g)
  <2>1. \A s \in SUBSET S : g[s] = Step(g)[s]
    BY <1>3, <1>4
  <2>2. QED
    BY <1>3, <2>1
<1>6. QED
  BY <1>5 DEF Sums

LEMMA SumOfDifferences ==
  ASSUME NEW S, IsFiniteSet(S), NEW a \in [S -> Int], NEW b \in [S -> Int], NEW c \in [S -> Int],
         \A r \in S : c[r] = a[r] - b[r],
         NEW g, Sums(a, S, g), NEW h, Sums(b, S, h), NEW k, Sums(c, S, k)
  PROVE  /\ g[S] \in Int /\ h[S] \in Int /\ k[S] = g[S] - h[S]
<1> DEFINE Good(s) == g[s] \in Int /\ h[s] \in Int /\ k[s] = g[s] - h[s]
           bad == {n \in Nat : \E s \in SUBSET S : Cardinality(s) = n /\ ~Good(s)}
<1>1. ASSUME NEW s \in SUBSET S
      PROVE  /\ g[s] = IF s = {} THEN 0 ELSE a[Pick(s)] + g[Rest(s)]
             /\ h[s] = IF s = {} THEN 0 ELSE b[Pick(s)] + h[Rest(s)]
             /\ k[s] = IF s = {} THEN 0 ELSE c[Pick(s)] + k[Rest(s)]
  BY DEF Sums
<1>2. bad = {}
  <2>1. SUFFICES ASSUME bad # {} PROVE FALSE
    OBVIOUS
  <2>2. PICK n \in bad : \A m \in bad : n <= m
    <3>1. bad \subseteq Nat
      OBVIOUS
    <3> HIDE DEF bad
    <3>2. QED
      BY <2>1, <3>1, LeastNatural
  <2>3. PICK s \in SUBSET S : Cardinality(s) = n /\ ~Good(s)
    BY <2>2
  <2>4. ASSUME s = {} PROVE Good(s)
    <3>1. g[s] = 0 /\ h[s] = 0 /\ k[s] = 0
      BY <1>1, <2>4
    <3>2. QED
      BY <3>1
  <2>5. /\ Pick(s) \in S /\ Rest(s) \in SUBSET S
        /\ Cardinality(s) \in Nat \ {0} /\ Cardinality(Rest(s)) = Cardinality(s) - 1
    BY <2>3, <2>4, RestIsSmaller
  <2>6. Good(Rest(s))
    <3>1. n - 1 \in Nat /\ n - 1 \notin bad
      BY <2>2, <2>3, <2>5
    <3>2. QED
      BY <2>3, <2>5, <3>1
  <2>7. a[Pick(s)] \in Int /\ b[Pick(s)] \in Int /\ c[Pick(s)] = a[Pick(s)] - b[Pick(s)]
    BY <2>5
  <2>8. Good(s)
    BY <1>1, <2>3, <2>4, <2>6, <2>7
  <2>9. QED
    BY <2>3, <2>8
<1>3. Cardinality(S) \in Nat
  BY FS_CardinalityType
<1>4. Good(S)
  BY <1>2, <1>3
<1>5. QED
  BY <1>4

-----------------------------------------------------------------------------
(* The read-only reports *)

LEMMA MaxIs ==
  ASSUME NEW S, S \subseteq Int, NEW z \in S, \A y \in S : z >= y
  PROVE  Max(S) = z
<1>1. \A x \in S : (\A y \in S : x >= y) => x = z
  OBVIOUS
<1>2. QED
  BY <1>1 DEF Max

(* A set of numbers below a bound has a least and a greatest one. *)
LEMMA NumberEnds ==
  ASSUME NEW S, S \subseteq Nat, S # {}, NEW bound \in Nat, \A y \in S : y <= bound
  PROVE  /\ Min(S) \in S /\ \A y \in S : Min(S) <= y
         /\ Max(S) \in S /\ \A y \in S : Max(S) >= y
<1>1. Min(S) \in S /\ \A y \in S : Min(S) <= y
  BY LeastNatural DEF Min
<1>2. PICK z \in S : \A y \in S : z >= y
  <2> DEFINE above == {n \in Nat : \A y \in S : y <= n}
  <2>1. PICK n \in above : \A m \in above : n <= m
    <3>1. above \subseteq Nat /\ above # {}
      OBVIOUS
    <3> HIDE DEF above
    <3>2. QED
      BY <3>1, LeastNatural
  <2>2. CASE n \in S
    BY <2>2
  <2>3. CASE n \notin S
    <3>1. PICK y \in S : TRUE
      OBVIOUS
    <3>2. \A x \in S : x <= n /\ x # n /\ x \in Nat /\ n \in Nat
      BY <2>3
    <3>3. n - 1 \in Nat /\ \A x \in S : x <= n - 1
      BY <3>1, <3>2
    <3>4. n - 1 \in above
      BY <3>3
    <3>5. n <= n - 1
      <4> HIDE DEF above
      <4> QED
        BY <2>1, <3>4
    <3>6. QED
      BY <3>1, <3>2, <3>5
  <2>4. QED
    BY <2>2, <2>3
<1>3. Max(S) = z
  <2>1. S \subseteq Int
    OBVIOUS
  <2>2. QED
    BY <1>2, <2>1, MaxIs
<1>4. QED
  BY <1>1, <1>2, <1>3

LEMMA DatesBounded ==
  /\ Dates \subseteq Nat /\ Date(MaxClock) \in Nat
  /\ \A d \in Dates : d <= Date(MaxClock)
<1>1. ASSUME NEW t \in Ticks PROVE Date(t) \in Nat /\ Date(t) <= Date(MaxClock)
  BY BoundAssumption, DatesGrow DEF Ticks
<1>2. Date(MaxClock) \in Nat
  BY BoundAssumption, DatesGrow
<1>3. QED
  BY <1>1, <1>2 DEF Dates

LEMMA SomeDates ==
  ASSUME NEW D, D \subseteq Dates, D # {}
  PROVE  /\ D \subseteq Nat /\ IsFiniteSet(D) /\ Cardinality(D) \in Nat \ {0}
         /\ Min(D) \in D /\ \A d \in D : Min(D) <= d
         /\ Max(D) \in D /\ \A d \in D : Max(D) >= d
<1>1. D \in SUBSET Nat /\ \A d \in D : d <= Date(MaxClock)
  BY DatesBounded
<1>2. IsFiniteSet(D)
  BY <1>1, DatesBounded, FS_BoundedSetOfNaturals
<1>3. Cardinality(D) \in Nat /\ Cardinality(D) # 0
  BY <1>2, FS_CardinalityType, FS_EmptySet
<1>4. QED
  BY <1>1, <1>2, <1>3, DatesBounded, NumberEnds

(* The rows of a repository in the order of their days: the newest is that *)
(* of the last day, and the poll state points to it.                       *)
LEMMA NewestRow ==
  ASSUME GithubInv, NEW r \in Repositories, Rows(r) # {}
  PROVE  /\ Newest(r) \in Rows(r) /\ Newest(r) = Max(Rows(r))
         /\ poll[r].last = snapshots[r][Newest(r)].observed
         /\ snapshots[r][Newest(r)].observed \in Ticks
         /\ Date(snapshots[r][Newest(r)].observed) = Newest(r)
         /\ \A d \in Rows(r) : /\ d \in Nat /\ d <= Newest(r)
                               /\ snapshots[r][d].version \in Versions
<1>1. Filed(r) /\ Typed
  BY DEF GithubInv
<1>2. Newest(r) \in Rows(r) /\ Newest(r) = Date(poll[r].last)
  BY NewestIsLast
<1>3. PICK n : n = Newest(r)
  OBVIOUS
<1>4. /\ n \in Rows(r) /\ snapshots[r][n].observed = poll[r].last
      /\ Date(snapshots[r][n].observed) = n
  BY <1>1, <1>2, <1>3 DEF Filed
<1>5. snapshots[r][n].observed \in Ticks
  BY <1>1, <1>4, RowTyped
<1>6. ASSUME NEW d \in Rows(r)
      PROVE  d \in Nat /\ d <= n /\ snapshots[r][d].version \in Versions
  <2>1. /\ snapshots[r][d].observed \in Ticks /\ Date(snapshots[r][d].observed) = d
        /\ snapshots[r][d].observed <= snapshots[r][n].observed
        /\ snapshots[r][d].version \in Versions
    BY <1>1, <1>4, RowTyped DEF Filed
  <2>2. QED
    BY <1>4, <1>5, <2>1, DatesGrow, BoundAssumption DEF Ticks
<1>7. n = Max(Rows(r))
  <2>1. Rows(r) \subseteq Int /\ \A d \in Rows(r) : n >= d
    BY <1>4, <1>6
  <2>2. QED
    BY <1>4, <2>1, MaxIs
<1>8. QED
  BY <1>3, <1>4, <1>5, <1>6, <1>7

LEMMA PreviousRow ==
  ASSUME GithubInv, NEW r \in Repositories, Rows(r) # {}, Rows(r) # {Newest(r)}
  PROVE  Previous(r) \in Rows(r) /\ snapshots[r][Previous(r)].version \in Versions
<1> DEFINE older == Rows(r) \ {Newest(r)}
<1>1. Filed(r) /\ Typed /\ older \subseteq Dates /\ older # {}
  BY NewestRow DEF GithubInv, Rows
<1>2. Max(older) \in older /\ \A d \in older : Max(older) >= d
  <2> HIDE DEF older
  <2> QED
    BY <1>1, SomeDates
<1>3. PICK p \in older : \A d \in older : p >= d
  BY <1>2
<1>4. ASSUME NEW d \in older
      PROVE  snapshots[r][d].observed <= snapshots[r][p].observed
  <2>1. /\ snapshots[r][d].observed \in Nat /\ Date(snapshots[r][d].observed) = d
        /\ snapshots[r][p].observed \in Nat /\ Date(snapshots[r][p].observed) = p
    BY <1>1, RowTyped, BoundAssumption DEF Filed, Ticks
  <2>2. CASE d = p
    BY <2>1, <2>2
  <2>3. CASE d # p
    <3>1. d \in Nat /\ p \in Nat /\ d < p
      BY <1>3, <2>3, NewestRow
    <3>2. ~(snapshots[r][p].observed <= snapshots[r][d].observed)
      BY <2>1, <3>1, DatesGrow
    <3>3. QED
      BY <2>1, <3>2
  <2>4. QED
    BY <2>2, <2>3
<1>5. Previous(r) \in older
  BY <1>3, <1>4 DEF Previous
<1>6. QED
  BY <1>5, NewestRow

(* The deltas of the topic's page.  The summary adds up the newest and the *)
(* previous versions, the verifier the deltas of the entries.              *)
Newer == [r \in latest |-> snapshots[r][Newest(r)].version]
Older == [r \in latest |-> snapshots[r][Previous(r)].version]
Deltas == [r \in latest |-> _development_repository(r).delta.by]

LEMMA SummandsTyped ==
  ASSUME GithubInv, \A r \in latest : Cardinality(Rows(r)) > 1
  PROVE  /\ Newer \in [latest -> Int] /\ Older \in [latest -> Int] /\ Deltas \in [latest -> Int]
         /\ \A r \in latest : Deltas[r] = Newer[r] - Older[r]
<1>1. ASSUME NEW r \in latest
      PROVE  /\ snapshots[r][Newest(r)].version \in Int
             /\ snapshots[r][Previous(r)].version \in Int
             /\ Deltas[r] = snapshots[r][Newest(r)].version - snapshots[r][Previous(r)].version
  <2>1. r \in Repositories /\ Rows(r) # {}
    BY DEF latest, _topic_repositories
  <2>2. Rows(r) # {Newest(r)}
    <3>1. Cardinality({Newest(r)}) = 1
      BY FS_Singleton
    <3>2. QED
      BY <3>1
  <2>3. /\ snapshots[r][Newest(r)].version \in Versions
        /\ snapshots[r][Previous(r)].version \in Versions
    BY <2>1, <2>2, NewestRow, PreviousRow
  <2>4. QED
    BY <2>3, BoundAssumption DEF Versions, Deltas, _development_repository, Known
<1>2. QED
  BY <1>1 DEF Newer, Older, Deltas

LEMMA SumNewer ==
  ASSUME IsFiniteSet(latest), Newer \in [latest -> Int]
  PROVE  \E g : /\ Sums(Newer, latest, g)
                /\ MapThenSumSet(LAMBDA r : snapshots[r][Newest(r)].version, latest) = g[latest]
<1> DEFINE Solves(g) == g = [s \in SUBSET latest |-> IF s = {} THEN 0
                         ELSE snapshots[Pick(s)][Newest(Pick(s))].version + g[s \ {Pick(s)}]]
           chosen == CHOOSE g : Solves(g)
<1>1. MapThenSumSet(LAMBDA r : snapshots[r][Newest(r)].version, latest) = chosen[latest]
  BY Zenon DEF MapThenSumSet, MapThenFoldSet, Pick
<1>2. ASSUME NEW g PROVE Solves(g) <=> Sums(Newer, latest, g)
  <2>1. \A s \in SUBSET latest : s # {} => Pick(s) \in latest
    BY DEF Pick
  <2>2. QED
    BY <2>1 DEF Sums, Rest, Newer
<1>3. \E g : Solves(g)
  <2> HIDE DEF Solves
  <2> QED
    BY <1>2, SumsExist
<1>4. Solves(chosen)
  <2> HIDE DEF Solves
  <2> QED
    BY <1>3
<1>5. QED
  <2> HIDE DEF chosen, Solves
  <2> QED
    BY <1>1, <1>2, <1>4

LEMMA SumOlder ==
  ASSUME IsFiniteSet(latest), Older \in [latest -> Int]
  PROVE  \E g : /\ Sums(Older, latest, g)
                /\ MapThenSumSet(LAMBDA r : snapshots[r][Previous(r)].version, latest) = g[latest]
<1> DEFINE Solves(g) == g = [s \in SUBSET latest |-> IF s = {} THEN 0
                         ELSE snapshots[Pick(s)][Previous(Pick(s))].version + g[s \ {Pick(s)}]]
           chosen == CHOOSE g : Solves(g)
<1>1. MapThenSumSet(LAMBDA r : snapshots[r][Previous(r)].version, latest) = chosen[latest]
  BY Zenon DEF MapThenSumSet, MapThenFoldSet, Pick
<1>2. ASSUME NEW g PROVE Solves(g) <=> Sums(Older, latest, g)
  <2>1. \A s \in SUBSET latest : s # {} => Pick(s) \in latest
    BY DEF Pick
  <2>2. QED
    BY <2>1 DEF Sums, Rest, Older
<1>3. \E g : Solves(g)
  <2> HIDE DEF Solves
  <2> QED
    BY <1>2, SumsExist
<1>4. Solves(chosen)
  <2> HIDE DEF Solves
  <2> QED
    BY <1>3
<1>5. QED
  <2> HIDE DEF chosen, Solves
  <2> QED
    BY <1>1, <1>2, <1>4

(* The summary has a delta exactly when all entries have one, and it is    *)
(* their sum.                                                              *)
LEMMA DeltasAgree == ASSUME GithubInv PROVE _verify_topic_deltas
<1> DEFINE page == development
           entry == [r \in page.repositories |-> _development_repository(r)]
           seen == {r \in DOMAIN entry : entry[r].latest # Never}
           newer == MapThenSumSet(LAMBDA r : snapshots[r][Newest(r)].version, latest)
           older == MapThenSumSet(LAMBDA r : snapshots[r][Previous(r)].version, latest)
           deltas == MapThenSumSet(LAMBDA r : entry[r].delta.by, seen)
<1>1. page.repositories = _topic_repositories
  BY DEF development
<1>2. page.delta = IF latest # {} /\ Cardinality(previous) = Cardinality(latest)
                     THEN Known(newer - older) ELSE Unknown
  BY Zenon DEF development
<1>3. _verify_topic_deltas <=>
        page.delta = IF seen # {} /\ \A r \in seen : entry[r].delta.known
                       THEN Known(deltas) ELSE Unknown
  BY Zenon DEF _verify_topic_deltas
<1>4. /\ DOMAIN entry = _topic_repositories
      /\ \A r \in _topic_repositories : entry[r] = _development_repository(r)
  BY <1>1
<1>5. latest \subseteq _topic_repositories /\ previous \subseteq _topic_repositories
  BY DEF latest, previous
<1>6. seen = latest
  <2>1. ASSUME NEW r \in _topic_repositories
        PROVE  entry[r].latest # Never <=> Rows(r) # {}
    <3>1. r \in Repositories
      BY DEF _topic_repositories
    <3>2. Rows(r) # {} => snapshots[r][Newest(r)].observed # Never
      BY <3>1, NewestRow, BoundAssumption DEF Ticks, Never
    <3>3. QED
      BY <1>4, <3>2 DEF _development_repository
  <2> HIDE DEF entry
  <2>2. QED
    BY <1>4, <2>1 DEF latest
<1>7. \A r \in latest : entry[r].delta.known <=> Cardinality(Rows(r)) > 1
  <2>1. ASSUME NEW r \in latest PROVE entry[r].delta.known <=> Cardinality(Rows(r)) > 1
    <3>1. entry[r] = _development_repository(r)
      BY <1>4, <1>5
    <3> HIDE DEF entry
    <3>2. QED
      BY <3>1 DEF _development_repository, Known, Unknown
  <2>2. QED
    BY <2>1
<1>8. IsFiniteSet(latest) /\ previous \in SUBSET latest
  <2>1. latest \in SUBSET Repositories
    BY DEF latest, _topic_repositories
  <2>2. ASSUME NEW r \in previous PROVE Rows(r) # {}
    <3>1. Cardinality(Rows(r)) > 1
      BY DEF previous
    <3>2. QED
      BY <3>1, FS_EmptySet
  <2>3. QED
    BY <2>1, <2>2, SettingsAssumption, FS_Subset DEF latest, previous
<1>9. Cardinality(previous) = Cardinality(latest) <=> \A r \in latest : Cardinality(Rows(r)) > 1
  <2>1. Cardinality(previous) = Cardinality(latest) <=> previous = latest
    BY <1>8, FS_Subset
  <2>2. previous = latest <=> \A r \in latest : Cardinality(Rows(r)) > 1
    BY <1>8 DEF previous, latest
  <2>3. QED
    BY <2>1, <2>2
<1>10. ASSUME \A r \in latest : Cardinality(Rows(r)) > 1
       PROVE  deltas = newer - older
  <2>1. /\ Newer \in [latest -> Int] /\ Older \in [latest -> Int] /\ Deltas \in [latest -> Int]
        /\ \A r \in latest : Deltas[r] = Newer[r] - Older[r]
    BY <1>10, SummandsTyped
  <2>2. PICK g : Sums(Newer, latest, g) /\ newer = g[latest]
    BY <1>8, <2>1, SumNewer
  <2>3. PICK h : Sums(Older, latest, h) /\ older = h[latest]
    BY <1>8, <2>1, SumOlder
  <2>4. \A r \in latest : entry[r] = _development_repository(r)
    BY <1>4, <1>5
  <2>5. PICK k : Sums(Deltas, latest, k) /\ deltas = k[latest]
    <3> DEFINE Solves(k) == k = [s \in SUBSET seen |-> IF s = {} THEN 0
                                   ELSE entry[Pick(s)].delta.by + k[s \ {Pick(s)}]]
               chosen == CHOOSE k : Solves(k)
    <3>1. deltas = chosen[seen]
      <4> HIDE DEF entry, seen
      <4> QED
        BY Zenon DEF MapThenSumSet, MapThenFoldSet, Pick
    <3> HIDE DEF entry, seen, deltas
    <3>2. ASSUME NEW k PROVE Solves(k) <=> Sums(Deltas, latest, k)
      <4>1. \A s \in SUBSET latest : s # {} =>
              /\ Pick(s) \in latest
              /\ entry[Pick(s)].delta.by = Deltas[Pick(s)]
        BY <2>4 DEF Pick, Deltas
      <4>2. QED
        BY <1>6, <4>1 DEF Sums, Rest
    <3>3. \E k : Solves(k)
      <4> HIDE DEF Solves
      <4> QED
        BY <1>8, <2>1, <3>2, SumsExist
    <3>4. Solves(chosen)
      <4> HIDE DEF Solves
      <4> QED
        BY <3>3
    <3>5. QED
      <4> HIDE DEF chosen, Solves
      <4> QED
        BY <1>6, <3>1, <3>2, <3>4
  <2>6. k[latest] = g[latest] - h[latest]
    <3> HIDE DEF newer, older, deltas
    <3> QED
      BY <1>8, <2>1, <2>2, <2>3, <2>5, SumOfDifferences
  <2> HIDE DEF newer, older, deltas
  <2>7. QED
    BY <2>2, <2>3, <2>5, <2>6
<1>11. QED
  <2> HIDE DEF newer, older, deltas, seen, entry, page
  <2> QED
    BY <1>2, <1>3, <1>6, <1>7, <1>9, <1>10

(* The days on which a repository of the topic was observed, and what the  *)
(* coverage of the topic and its page make of them.                        *)
TopicDays == UNION {Rows(r) : r \in _topic_repositories}

LEMMA TopicDaysSeen ==
  ASSUME GithubInv
  PROVE  /\ TopicDays \subseteq Dates
         /\ TopicDays = {} <=> latest = {}
         /\ latest # {} =>
              /\ development.latest \in Ticks
              /\ Max(TopicDays) = Date(development.latest)
              /\ \E r \in latest : development.latest = snapshots[r][Newest(r)].observed
         /\ latest = {} => development.latest = Never
<1> DEFINE times == {snapshots[r][Newest(r)].observed : r \in latest}
<1>1. /\ TopicDays \subseteq Dates
      /\ TopicDays = {} <=> latest = {}
      /\ \A d \in TopicDays : \E r \in latest : d \in Rows(r)
  BY DEF TopicDays, latest, Rows
<1>2. \A r \in latest : r \in Repositories /\ Rows(r) # {} /\ Rows(r) \subseteq TopicDays
  BY DEF latest, _topic_repositories, TopicDays
<1>3. times \subseteq Ticks
  BY <1>2, NewestRow
<1>4. development.latest = IF latest = {} THEN Never ELSE Max(times)
  BY Zenon DEF development
<1>5. ASSUME latest # {}
      PROVE  /\ Max(times) \in times /\ \A t \in times : Max(times) >= t
    <2>1. /\ times \subseteq Nat /\ times # {} /\ \A t \in times : t <= MaxClock
          /\ MaxClock \in Nat
      BY <1>3, <1>5, BoundAssumption DEF Ticks
    <2> HIDE DEF times
    <2>2. QED
      BY <2>1, NumberEnds
<1>6. ASSUME latest # {}
      PROVE  /\ Max(TopicDays) = Date(Max(times))
             /\ \E r \in latest : Max(times) = snapshots[r][Newest(r)].observed
  <2>1. PICK r \in latest : Max(times) = snapshots[r][Newest(r)].observed
    BY <1>5, <1>6
  <2>2. Date(Max(times)) = Newest(r) /\ Newest(r) \in TopicDays
    BY <1>2, <2>1, NewestRow
  <2>3. ASSUME NEW d \in TopicDays PROVE Newest(r) >= d
    <3>1. PICK q \in latest : d \in Rows(q)
      BY <1>1
    <3>2. /\ d \in Nat /\ d <= Newest(q) /\ Date(snapshots[q][Newest(q)].observed) = Newest(q)
          /\ snapshots[q][Newest(q)].observed \in Nat
          /\ snapshots[r][Newest(r)].observed \in Nat
          /\ Date(snapshots[r][Newest(r)].observed) = Newest(r)
      BY <1>2, <3>1, NewestRow, BoundAssumption DEF Ticks
    <3>3. snapshots[q][Newest(q)].observed <= snapshots[r][Newest(r)].observed
      <4>1. snapshots[q][Newest(q)].observed \in times
        OBVIOUS
      <4> HIDE DEF times
      <4>2. QED
        BY <1>5, <1>6, <2>1, <3>2, <4>1
    <3>4. QED
      BY <3>2, <3>3, DatesGrow
  <2>4. Max(TopicDays) = Newest(r)
    <3>1. TopicDays \subseteq Int
      BY <1>1, DatesBounded
    <3>2. QED
      BY <2>2, <2>3, <3>1, MaxIs
  <2>5. QED
    BY <2>1, <2>2, <2>4
<1>7. latest # {} => Max(times) \in Ticks
  BY <1>3, <1>5
<1>8. QED
  <2> HIDE DEF times
  <2> QED
    BY <1>1, <1>4, <1>6, <1>7

(* Observed and missing days add up to the days from the first to the      *)
(* last, and no day missing means no hole.                                 *)
LEMMA DaysAddUp ==
  ASSUME NEW D, D \subseteq Dates, D # {}
  PROVE  /\ Max(D) - Min(D) + 1 = Cardinality(D) + Cardinality(between(D))
         /\ Cardinality(between(D)) \in Nat
         /\ Cardinality(between(D)) = 0 => \A d \in Dates : \A e \in D :
              e < d /\ d < Max(D) => d \in D
<1> DEFINE lo == Min(D)
           hi == Max(D)
<1>1. /\ D \subseteq Nat /\ IsFiniteSet(D) /\ Cardinality(D) \in Nat \ {0}
      /\ lo \in D /\ \A d \in D : lo <= d
      /\ hi \in D /\ \A d \in D : hi >= d
  BY SomeDates
<1>2. lo \in Nat /\ hi \in Nat /\ lo <= hi
  BY <1>1
<1>3. CASE Cardinality(D) < 2
  <2>1. Cardinality(D) = 1 /\ between(D) = {}
    BY <1>1, <1>3 DEF between
  <2>2. PICK x : D = {x}
    BY <1>1, <2>1, FS_Singleton
  <2>3. lo = x /\ hi = x /\ x \in Nat
    BY <1>1, <2>2
  <2>4. Cardinality(between(D)) = 0
    BY <2>1, FS_EmptySet
  <2>5. ASSUME NEW d \in Dates, NEW e \in D, e < d, d < hi PROVE FALSE
    BY <2>2, <2>3, <2>5, DatesBounded
  <2> HIDE DEF lo, hi
  <2>6. hi - lo + 1 = Cardinality(D) + Cardinality(between(D))
    BY <2>1, <2>3, <2>4
  <2>7. QED
    BY <2>4, <2>5, <2>6 DEF lo, hi
<1>4. CASE ~(Cardinality(D) < 2)
  <2>1. between(D) = (lo..hi) \ D
    BY <1>4 DEF between
  <2> HIDE DEF lo, hi
  <2>2. (lo..hi) \cap D = D
    <3>1. ASSUME NEW d \in D PROVE d \in lo..hi
      <4>1. d \in Nat /\ lo <= d /\ d <= hi
        BY <1>1 DEF lo, hi
      <4>2. QED
        BY <1>2, <4>1
    <3>2. QED
      BY <3>1
  <2>3. IsFiniteSet(lo..hi) /\ Cardinality(lo..hi) = hi - lo + 1
    BY <1>2, FS_Interval
  <2>4. /\ IsFiniteSet(between(D))
        /\ Cardinality(between(D)) = (hi - lo + 1) - Cardinality(D)
    BY <2>1, <2>2, <2>3, FS_Difference
  <2>5. Cardinality(between(D)) \in Nat
    BY <2>4, FS_CardinalityType
  <2>6. ASSUME Cardinality(between(D)) = 0, NEW d \in Dates, NEW e \in D, e < d, d < hi
        PROVE  d \in D
    <3>1. between(D) = {}
      BY <2>4, <2>6, FS_EmptySet
    <3>2. d \in Nat /\ e \in Nat /\ lo <= e
      BY <1>1, DatesBounded
    <3>3. d \in lo..hi
      BY <1>2, <2>6, <3>2
    <3>4. QED
      BY <2>1, <3>1, <3>3
  <2>7. hi - lo + 1 = Cardinality(D) + Cardinality(between(D))
    BY <1>1, <1>2, <2>4
  <2>8. QED
    BY <2>5, <2>6, <2>7 DEF lo, hi
<1>5. QED
  BY <1>3, <1>4

(* No row is written and no run goes on before the first run has started.  *)
NoRunNoRow ==
  verdict = "none" => At("idle") /\ \A r \in Repositories : Rows(r) = {}

LEMMA NoRunStep == NoRunNoRow /\ [Next]_vars => NoRunNoRow'
<1> SUFFICES ASSUME NoRunNoRow, [Next]_vars, verdict' = "none" PROVE NoRunNoRow'
  BY DEF NoRunNoRow
<1>1. CASE Tick \/ (\E r \in Repositories : Change(r)) \/ UNCHANGED vars
  BY <1>1 DEF Tick, Change, vars, NoRunNoRow, At, Rows
<1>2. CASE StartDiscovery \/ StartSnapshot \/ FinishRun
  BY <1>2 DEF StartDiscovery, StartSnapshot, FinishRun, terminal_status
<1>3. CASE \/ OpenMapping \/ SearchPage \/ MappingFails \/ StopEarly \/ Send
           \/ create_full_snapshot \/ create_unchanged_snapshot \/ ItemsDone
           \/ Retry \/ Unreachable \/ Refused \/ Crash
  BY <1>3 DEF OpenMapping, SearchPage, MappingFails, StopEarly, Send, create_full_snapshot,
    create_unchanged_snapshot, ItemsDone, Retry, Unreachable, Refused, Crash, NoRunNoRow, At
<1>4. QED
  BY <1>1, <1>2, <1>3 DEF Next, Discover, Collect, Fails

(* The cross-day verifier never finds the evidence inconsistent. *)
LEMMA VerifierSatisfied == ASSUME GithubInv PROVE verify # "failed"
<1>1. fabricated_dates = {}
  BY DEF fabricated_dates, GithubInv, Filed, Observed
<1>2. poll_inconsistencies = {}
  BY NewestRow DEF poll_inconsistencies, Observed
<1>3. QED
  BY <1>1, <1>2, DeltasAgree DEF verify

LEMMA NewestOfAll ==
  ASSUME GithubInv
  PROVE  /\ latest_snapshot_at \in Ticks \cup {Never}
         /\ \A r \in Repositories : Rows(r) # {} =>
              latest_snapshot_at >= snapshots[r][Newest(r)].observed
<1> DEFINE times == {snapshots[r][Newest(r)].observed : r \in Observed}
<1>1. times \subseteq Ticks
  BY NewestRow DEF Observed
<1>2. latest_snapshot_at = IF times = {} THEN Never ELSE Max(times)
  BY DEF latest_snapshot_at
<1>3. ASSUME times # {} PROVE Max(times) \in times /\ \A t \in times : Max(times) >= t
  <2>1. times \subseteq Nat /\ (\A t \in times : t <= MaxClock) /\ MaxClock \in Nat
    BY <1>1, BoundAssumption DEF Ticks
  <2> HIDE DEF times
  <2>2. QED
    BY <1>3, <2>1, NumberEnds
<1>4. \A r \in Repositories : Rows(r) # {} => snapshots[r][Newest(r)].observed \in times
  BY DEF Observed
<1>5. QED
  <2> HIDE DEF times
  <2> QED
    BY <1>1, <1>2, <1>3, <1>4

LEMMA ReportsHold == ASSUME GithubInv, NoRunNoRow PROVE ReportsAgree
<1> DEFINE coverage == derive_github
           page == development
<1>1. /\ coverage.until = IF TopicDays = {} THEN Never ELSE Max(TopicDays)
      /\ coverage.observations = Cardinality(TopicDays)
      /\ coverage.expected = IF TopicDays = {} THEN 0 ELSE Max(TopicDays) - Min(TopicDays) + 1
      /\ coverage.missing = Cardinality(between(TopicDays))
      /\ coverage.status \in {"forward_only", "empty", "unknown"}
      /\ coverage.status = "forward_only" <=> TopicDays # {}
      /\ coverage.status = "empty" => _topic_repositories = {}
  BY DEF derive_github, TopicDays
<1>2. page.repositories = _topic_repositories
  BY DEF development
<1>3. /\ TopicDays \subseteq Dates
      /\ TopicDays = {} <=> latest = {}
      /\ latest # {} =>
           /\ page.latest \in Ticks /\ Max(TopicDays) = Date(page.latest)
           /\ \E r \in latest : page.latest = snapshots[r][Newest(r)].observed
      /\ latest = {} => page.latest = Never
  BY TopicDaysSeen
<1> HIDE DEF coverage, page
<1>4. coverage.status = "forward_only" <=> page.latest # Never
  BY <1>1, <1>3, BoundAssumption DEF Ticks, Never
<1>5. ASSUME coverage.status = "forward_only"
      PROVE  /\ coverage.until = Date(page.latest)
             /\ coverage.expected = coverage.observations + coverage.missing
  <2>1. TopicDays # {} /\ TopicDays \subseteq Dates
    BY <1>1, <1>3, <1>5
  <2>2. Max(TopicDays) - Min(TopicDays) + 1 =
          Cardinality(TopicDays) + Cardinality(between(TopicDays))
    BY <2>1, DaysAddUp
  <2>3. QED
    BY <1>1, <1>3, <2>1, <2>2
<1>6. coverage.status = "empty" => page.repositories = {}
  BY <1>1, <1>2
<1>7. page.latest <= latest_snapshot_at
  <2>1. CASE latest = {}
    BY <1>3, <2>1, NewestOfAll, BoundAssumption DEF Ticks, Never
  <2>2. CASE latest # {}
    <3>1. PICK r \in latest : page.latest = snapshots[r][Newest(r)].observed
      BY <1>3, <2>2
    <3>2. r \in Repositories /\ Rows(r) # {}
      BY DEF latest, _topic_repositories
    <3>3. latest_snapshot_at >= page.latest
      BY <3>1, <3>2, NewestOfAll
    <3>4. page.latest \in Int /\ latest_snapshot_at \in Int
      BY <1>3, <2>2, NewestOfAll, BoundAssumption DEF Ticks, Never
    <3>5. QED
      BY <3>3, <3>4
  <2>3. QED
    BY <2>1, <2>2
<1>8. _collector_state = "not_initialized" => Observed = {}
  <2>1. _collector_state = "not_initialized" => verdict = "none"
    BY DEF _collector_state
  <2>2. QED
    BY <2>1 DEF NoRunNoRow, Observed
<1>9. ASSUME _overall_state = "healthy"
      PROVE  /\ page.repositories # {} => page.latest # Never
             /\ page.latest # Never =>
                  \A d \in Dates : (\E r \in page.repositories : \E e \in Rows(r) : e < d)
                                    /\ d < Date(page.latest)
                    => \E r \in page.repositories : d \in Rows(r)
  <2>1. coverage.status # "unknown" /\ ~(coverage.missing > 0)
    BY <1>9 DEF _overall_state, coverage
  <2>2. page.repositories # {} => page.latest # Never
    BY <1>1, <1>4, <1>6, <2>1
  <2>3. ASSUME page.latest # Never, NEW d \in Dates, NEW r \in page.repositories,
               NEW e \in Rows(r), e < d, d < Date(page.latest)
        PROVE  \E q \in page.repositories : d \in Rows(q)
    <3>1. TopicDays # {} /\ TopicDays \subseteq Dates
      BY <1>1, <1>3, <1>4, <2>3
    <3>2. Cardinality(between(TopicDays)) = 0
      <4>1. Cardinality(between(TopicDays)) \in Nat
        BY <3>1, DaysAddUp
      <4>2. QED
        BY <1>1, <2>1, <4>1
    <3>3. e \in TopicDays /\ d < Max(TopicDays)
      BY <1>2, <1>3, <2>3, <3>1 DEF TopicDays
    <3>4. d \in TopicDays
      BY <2>3, <3>1, <3>2, <3>3, DaysAddUp
    <3>5. QED
      BY <1>2, <3>4 DEF TopicDays
  <2>4. QED
    BY <2>2, <2>3
<1>10. QED
  BY <1>4, <1>5, <1>6, <1>7, <1>8, <1>9, VerifierSatisfied DEF ReportsAgree, coverage, page

(* The reports agree about whatever the collector commits, whether or not  *)
(* a repository may be due twice a day: the verifier, the coverage, the    *)
(* health and the page derive from the rows by queries of their own, and   *)
(* never contradict each other.                                            *)
THEOREM ReportsAlwaysAgree == Spec => []ReportsAgree
<1>1. Init => NoRunNoRow
  BY DEF Init, NoRunNoRow, At, Idle, Rows
<1>2. Spec => []NoRunNoRow
  BY <1>1, NoRunStep, PTL DEF Spec
<1>3. QED
  BY <1>2, ReportsHold, GithubInvAlways, PTL
=============================================================================
