-------------------------- MODULE GithubCollector --------------------------
(***************************************************************************)
(* The GitHub collector: weekly discovery of repositories and their daily  *)
(* snapshots with conditional requests (github_collector service.py and    *)
(* persistence.py).                                                        *)
(*                                                                         *)
(* Discovery decides which repositories are tracked.  A snapshot run lists *)
(* the tracked repositories that are due, asks GitHub for one after        *)
(* another, and appends at most one row per repository and UTC date.  A    *)
(* 304 answer repeats the newest row.  One process collects at a time: the *)
(* worker's jobs share the source's lock.                                  *)
(*                                                                         *)
(* GitHub itself is the sequence remote[r] of the ticks at which the       *)
(* versions of repository r appeared; an ETag names a version.             *)
(***************************************************************************)
EXTENDS Integers, Sequences, FiniteSets

CONSTANTS
  Repositories,   \* numeric GitHub ids: runs go by ascending id
  MappingCount,   \* enabled mappings that discovery searches for
  Day,            \* ticks of a UTC day
  DueAfter,       \* github_snapshot_due_hours
  MaxRequests,    \* github_max_requests_per_run
  MaxClock,       \* bound: last tick of the wall clock
  MaxVersions,    \* bound: versions of one repository
  MaxFaults,      \* bound: faults injected in one behaviour
  Faults          \* kinds of fault the environment may inject

FaultKinds ==
  {"crash", "slow", "transient", "error", "rate_limit", "budget", "bad_payload"}

ASSUME SettingsAssumption ==
  /\ IsFiniteSet(Repositories) /\ Repositories \subseteq Nat
  /\ MappingCount \in Nat \ {0}
  /\ Day \in Nat \ {0} /\ DueAfter \in Nat \ {0} /\ MaxRequests \in Nat \ {0}
ASSUME BoundAssumption ==
  /\ MaxClock \in Nat /\ MaxVersions \in Nat \ {0}
  /\ MaxFaults \in Nat /\ Faults \subseteq FaultKinds

Mappings == 1..MappingCount
Ticks    == 0..MaxClock
Date(t)  == t \div Day
Dates    == {Date(t) : t \in Ticks}

VARIABLES
  clock,      \* the wall clock
  remote,     \* remote[r][v]: tick at which version v of repository r appeared
  match,      \* match[m][r]: tracking state of the match of r with mapping m
  discovery,  \* discovery[m]: status of the discovery state of mapping m
  poll,       \* poll[r]: the poll state of r
  snapshots,  \* snapshots[r][d]: the row of r for date d, NoSnapshot if none
  run,        \* the locals of discover or snapshot
  verdict,    \* status of the last ingestion run
  faults      \* number of faults injected so far

vars == <<clock, remote, match, discovery, poll, snapshots, run, verdict, faults>>

-----------------------------------------------------------------------------
(* Types *)

TrackingStates == {"none", "candidate", "tracked"}
OperationStatuses == {"pending", "running", "succeeded", "failed"}

Never  == -1          \* a timestamp that is null
NoEtag == 0
Versions == 1..MaxVersions
Poll == [etag : Versions \cup {NoEtag}, last : Ticks \cup {Never},
         eligible : Nat \cup {Never}]
NewPoll == [etag |-> NoEtag, last |-> Never, eligible |-> Never]

NoSnapshot == [observed |-> Never, version |-> 0]
Snapshot == [observed : Ticks, version : Versions]

Labels == {"idle", "mapping", "search", "item", "waiting", "finish"}
(* due: repositories still to be asked; listed: those due at the start;     *)
(* asked: requested_at of the last attempt.                                 *)
Locals == [pc : Labels, m : 0..MappingCount, start : Ticks,
           listed : SUBSET Repositories, due : SUBSET Repositories,
           etag : Versions \cup {NoEtag}, asked : Ticks,
           requests : 0..MaxRequests, errors : BOOLEAN]
Idle == [pc |-> "idle", m |-> 0, start |-> 0, listed |-> {}, due |-> {},
         etag |-> NoEtag, asked |-> 0, requests |-> 0, errors |-> FALSE]
Verdicts == {"none", "running", "succeeded", "partial"}

-----------------------------------------------------------------------------
(* Reading the database *)

Current(r) == Len(remote[r])
Tracked(r) == \E m \in Mappings : match[m][r] = "tracked"

Rows(r) == {d \in Dates : snapshots[r][d] # NoSnapshot}

(* Faulty variant: the newest row is taken for the oldest.                 *)
Newest_ascending(r) ==
  CHOOSE d \in Rows(r) : \A e \in Rows(r) : snapshots[r][d].observed <= snapshots[r][e].observed

(* The date of the newest row.                                              *)
Newest(r) ==
  CHOOSE d \in Rows(r) : \A e \in Rows(r) : snapshots[r][e].observed <= snapshots[r][d].observed

(* Faulty variant: a repository without a snapshot is not due.             *)
Due_seen(r, at) ==
  Tracked(r) /\ poll[r].last # Never /\ poll[r].last <= at - DueAfter

(* _tracked_repositories.                                                   *)
Due(r, at) ==
  /\ Tracked(r)
  /\ poll[r].last = Never \/ poll[r].last <= at - DueAfter
  /\ poll[r].eligible <= at

Inject(kind) ==
  /\ kind \in Faults /\ faults < MaxFaults
  /\ faults' = faults + 1

At(label) == run.pc = label
Asked == CHOOSE r \in run.due : \A s \in run.due : r <= s

-----------------------------------------------------------------------------
Init ==
  /\ clock = 0
  /\ remote = [r \in Repositories |-> <<0>>]
  /\ match = [m \in Mappings |-> [r \in Repositories |-> "none"]]
  /\ discovery = [m \in Mappings |-> "pending"]
  /\ poll = [r \in Repositories |-> NewPoll]
  /\ snapshots = [r \in Repositories |-> [d \in Dates |-> NoSnapshot]]
  /\ run = Idle
  /\ verdict = "none"
  /\ faults = 0

(* discover *)

StartDiscovery ==
  /\ At("idle")
  /\ run' = [Idle EXCEPT !.pc = "mapping", !.m = 1, !.start = clock]
  /\ verdict' = "running"
  /\ UNCHANGED <<clock, remote, match, discovery, poll, snapshots, faults>>

NextMapping(locals) ==
  IF locals.m = MappingCount THEN [locals EXCEPT !.pc = "finish"]
  ELSE [locals EXCEPT !.pc = "mapping", !.m = @ + 1]

(* The state of the mapping is committed as running.                        *)
OpenMapping ==
  /\ At("mapping")
  /\ discovery' = [discovery EXCEPT ![run.m] = "running"]
  /\ run' = [run EXCEPT !.pc = "search"]
  /\ UNCHANGED <<clock, remote, match, poll, snapshots, verdict, faults>>

(* A page of search results is committed: each repository is tracked unless *)
(* it is archived, disabled or a fork.  Then follows another page, or the   *)
(* mapping has succeeded.                                                   *)
SearchPage ==
  /\ At("search") /\ run.requests < MaxRequests
  /\ \E page \in SUBSET Repositories : \E barred \in SUBSET page :
       match' = [match EXCEPT ![run.m] = [r \in Repositories |->
                   IF r \in barred THEN "candidate"
                   ELSE IF r \in page THEN "tracked" ELSE @[r]]]
  /\ LET counted == [run EXCEPT !.requests = @ + 1] IN
       \/ /\ run' = counted
          /\ UNCHANGED discovery
       \/ /\ run' = NextMapping(counted)
          /\ discovery' = [discovery EXCEPT ![run.m] = "succeeded"]
  /\ UNCHANGED <<clock, remote, poll, snapshots, verdict, faults>>

(* The mapping fails: a request fails and the next mapping has its turn, or *)
(* a budget, the request limit or the runtime ends the run.                 *)
MappingFails ==
  /\ \/ /\ At("search") /\ run.requests < MaxRequests /\ Inject("error")
        /\ run' = [NextMapping(run) EXCEPT !.errors = TRUE, !.requests = @ + 1]
     \/ /\ \/ At("search") /\ run.requests >= MaxRequests /\ UNCHANGED faults
           \/ At("search") /\ Inject("budget")
           \/ At("mapping") /\ Inject("slow")
        /\ run' = [run EXCEPT !.pc = "finish", !.errors = TRUE]
  /\ discovery' = [discovery EXCEPT ![run.m] = "failed"]
  /\ UNCHANGED <<clock, remote, match, poll, snapshots, verdict>>

-----------------------------------------------------------------------------
(* snapshot *)

StartSnapshot ==
  /\ At("idle")
  /\ LET due == {r \in Repositories : Due(r, clock)} IN
     run' = [Idle EXCEPT !.pc = "item", !.start = clock, !.listed = due, !.due = due]
  /\ verdict' = "running"
  /\ UNCHANGED <<clock, remote, match, discovery, poll, snapshots, faults>>

(* Faulty variant: stopping at a limit is no error.                        *)
StopEarly_silent ==
  /\ At("item") /\ run.due # {} /\ run.requests >= MaxRequests
  /\ run' = [run EXCEPT !.pc = "finish"]
  /\ UNCHANGED <<clock, remote, match, discovery, poll, snapshots, verdict, faults>>

(* Before an item a limit is reached, or the client refuses to touch the    *)
(* floor of its rate budget: the run ends.                                  *)
StopEarly ==
  /\ At("item") /\ run.due # {}
  /\ \/ run.requests >= MaxRequests /\ UNCHANGED faults
     \/ Inject("slow") \/ Inject("budget")
  /\ run' = [run EXCEPT !.pc = "finish", !.errors = TRUE]
  /\ UNCHANGED <<clock, remote, match, discovery, poll, snapshots, verdict>>

(* The next repository is asked for, with the ETag of its poll state.       *)
Send ==
  /\ At("item") /\ run.due # {} /\ run.requests < MaxRequests
  /\ run' = [run EXCEPT !.pc = "waiting", !.etag = poll[Asked].etag,
                        !.asked = clock, !.requests = @ + 1]
  /\ UNCHANGED <<clock, remote, match, discovery, poll, snapshots, verdict, faults>>

Retry ==
  /\ At("waiting") /\ Inject("transient") /\ run.requests < MaxRequests
  /\ run' = [run EXCEPT !.asked = clock, !.requests = @ + 1]
  /\ UNCHANGED <<clock, remote, match, discovery, poll, snapshots, verdict>>

ItemDone(locals) == [locals EXCEPT !.pc = "item", !.due = @ \ {Asked}, !.etag = NoEtag]

(* No answer after the last attempt: the poll state stays as it is.  A      *)
(* repeated attempt beyond the request limit also ends the run.             *)
Unreachable ==
  /\ At("waiting") /\ Inject("transient")
  /\ run' = [ItemDone(run) EXCEPT !.errors = TRUE,
               !.pc = IF run.requests >= MaxRequests THEN "finish" ELSE @]
  /\ UNCHANGED <<clock, remote, match, discovery, poll, snapshots, verdict>>

(* Faulty variant: the ETag of a body that was not stored is kept.         *)
mark_poll_failure_etag(r, eligible) ==
  poll' = [poll EXCEPT ![r].eligible = eligible, ![r].etag = Current(r)]

mark_poll_failure(r, eligible) == poll' = [poll EXCEPT ![r].eligible = eligible]

(* An error status, a rate limit with or without a known reset, or a body   *)
(* that cannot be parsed.                                                   *)
Refused ==
  /\ At("waiting")
  /\ \/ Inject("error") /\ mark_poll_failure(Asked, Never)
     \/ Inject("bad_payload") /\ mark_poll_failure(Asked, Never)
     \/ /\ Inject("rate_limit")
        /\ \E reset \in {Never} \cup {t \in Ticks : t > clock} : mark_poll_failure(Asked, reset)
  /\ run' = [ItemDone(run) EXCEPT !.errors = TRUE]
  /\ UNCHANGED <<clock, remote, match, discovery, snapshots, verdict>>

mark_poll_success(r, etag, observed) ==
  poll' = [poll EXCEPT ![r] = [etag |-> etag, last |-> observed, eligible |-> Never]]

(* Faulty variant: a row is filed under the day on which the run started.   *)
Record_started(r, version) ==
  LET d == Date(run.start) IN
  IF d \in Rows(r)
  THEN /\ mark_poll_success(r, Current(r), snapshots[r][d].observed)
       /\ UNCHANGED snapshots
  ELSE /\ mark_poll_success(r, Current(r), run.asked)
       /\ snapshots' = [snapshots EXCEPT ![r][d] = [observed |-> run.asked, version |-> version]]

(* The row of the request's date: one that exists stays as it is, but the   *)
(* poll state takes over the answer's ETag.                                 *)
Record(r, version) ==
  LET d == Date(run.asked) IN
  IF d \in Rows(r)
  THEN /\ mark_poll_success(r, Current(r), snapshots[r][d].observed)
       /\ UNCHANGED snapshots
  ELSE /\ mark_poll_success(r, Current(r), run.asked)
       /\ snapshots' = [snapshots EXCEPT ![r][d] = [observed |-> run.asked, version |-> version]]

create_full_snapshot ==
  /\ At("waiting") /\ run.etag # Current(Asked)
  /\ Record(Asked, Current(Asked))
  /\ run' = ItemDone(run)
  /\ UNCHANGED <<clock, remote, match, discovery, verdict, faults>>

(* 304: the newest row is repeated.  Without any row the item fails.        *)
create_unchanged_snapshot ==
  /\ At("waiting") /\ run.etag = Current(Asked)
  /\ IF Rows(Asked) = {}
     THEN /\ run' = [ItemDone(run) EXCEPT !.errors = TRUE]
          /\ UNCHANGED <<poll, snapshots>>
     ELSE /\ run' = ItemDone(run)
          /\ Record(Asked, snapshots[Asked][Newest(Asked)].version)
  /\ UNCHANGED <<clock, remote, match, discovery, verdict, faults>>

ItemsDone ==
  /\ At("item") /\ run.due = {}
  /\ run' = [run EXCEPT !.pc = "finish"]
  /\ UNCHANGED <<clock, remote, match, discovery, poll, snapshots, verdict, faults>>

-----------------------------------------------------------------------------
terminal_status(locals) == IF locals.errors THEN "partial" ELSE "succeeded"

FinishRun ==
  /\ At("finish")
  /\ verdict' = terminal_status(run)
  /\ run' = Idle
  /\ UNCHANGED <<clock, remote, match, discovery, poll, snapshots, faults>>

(* The process dies: its ingestion run stays running.                       *)
Crash ==
  /\ ~At("idle") /\ Inject("crash")
  /\ run' = Idle
  /\ UNCHANGED <<clock, remote, match, discovery, poll, snapshots, verdict>>

(* A repository changes on GitHub.                                          *)
Change(r) ==
  /\ Current(r) < MaxVersions
  /\ remote' = [remote EXCEPT ![r] = Append(@, clock)]
  /\ UNCHANGED <<clock, match, discovery, poll, snapshots, run, verdict, faults>>

Tick ==
  /\ clock < MaxClock
  /\ clock' = clock + 1
  /\ UNCHANGED <<remote, match, discovery, poll, snapshots, run, verdict, faults>>

Discover == OpenMapping \/ SearchPage \/ MappingFails
Collect ==
  \/ StopEarly \/ Send \/ create_full_snapshot \/ create_unchanged_snapshot
  \/ ItemsDone \/ FinishRun
Fails == Retry \/ Unreachable \/ Refused \/ Crash

Next ==
  \/ StartDiscovery \/ Discover \/ StartSnapshot \/ Collect \/ Fails
  \/ (\E r \in Repositories : Change(r)) \/ Tick

(* Time passes, a started run goes on, and snapshot runs start again and    *)
(* again by the daily schedule, whatever discovery does.                    *)
Fairness ==
  /\ WF_vars(Tick) /\ WF_vars(Discover) /\ WF_vars(Collect)
  /\ SF_vars(StartSnapshot)

Spec == Init /\ [][Next]_vars
FairSpec == Spec /\ Fairness

-----------------------------------------------------------------------------
(* Properties *)

TypeOK ==
  /\ clock \in Ticks
  /\ \A r \in Repositories :
       /\ Current(r) \in Versions
       /\ \A d \in Dates : snapshots[r][d] \in Snapshot \cup {NoSnapshot}
  /\ match \in [Mappings -> [Repositories -> TrackingStates]]
  /\ discovery \in [Mappings -> OperationStatuses]
  /\ poll \in [Repositories -> Poll]
  /\ run \in Locals
  /\ verdict \in Verdicts

(* A daily row shows the repository as it was when it was asked for: the    *)
(* version it records had not been replaced before that tick, whether the   *)
(* row comes from a full answer or repeats an older row after a 304.        *)
SnapshotIsCurrent ==
  \A r \in Repositories : \A d \in Rows(r) :
    LET row == snapshots[r][d] IN
    row.version = Current(r) \/ remote[r][row.version + 1] >= row.observed

(* The ETag sent with the next request names the version of the newest row, *)
(* so a 304 - which repeats that row - never meets a repository without a   *)
(* row or with another one, whatever failed since.                          *)
EtagNamesNewest ==
  \A r \in Repositories : poll[r].etag # NoEtag =>
    /\ Rows(r) # {}
    /\ snapshots[r][Newest(r)].version = poll[r].etag

(* A snapshot run that reports success has a row of its own time for every  *)
(* repository that was due; a discovery that does, a success per mapping.   *)
HonestVerdict ==
  [][verdict = "running" /\ verdict' = "succeeded" =>
       /\ \A r \in run.listed : \E d \in Rows(r) : snapshots[r][d].observed >= run.start
       /\ run.m # 0 => \A m \in Mappings : discovery[m] = "succeeded"]_vars

(* A repository that stays tracked gets its first row, although failures,   *)
(* rate limits and request limits cut runs short.                           *)
EventuallyObserved ==
  \A r \in Repositories : (<>[]Tracked(r)) => <>(Rows(r) # {})
=============================================================================
