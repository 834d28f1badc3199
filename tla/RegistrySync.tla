---------------------------- MODULE RegistrySync ----------------------------
(***************************************************************************)
(* Synchronisation of the declared topic registry into the database:       *)
(* TopicRegistrySyncService of topic_registry/sync.py.                     *)
(*                                                                         *)
(* A sync loads the files, reads the latest version and the rows, compares *)
(* them, and applies what differs in one transaction that first inserts    *)
(* the next version: its unique number makes syncs that overlap wait for   *)
(* each other and fail.  Rows without a definition are kept.  Operators    *)
(* run syncs from several processes and edit the files meanwhile.          *)
(***************************************************************************)
EXTENDS TopicRegistry

CONSTANTS
  Syncs,        \* processes that may run a sync
  Contents,     \* contents the files may get, valid or not
  SlugOrder,    \* the slugs of topics in their order
  MaxVersions,  \* bound: versions in one behaviour
  MaxFaults,    \* bound: faults injected in one behaviour
  Faults        \* kinds of fault the environment may inject

FaultKinds == {"crash", "error"}

ASSUME RegistryAssumption ==
  /\ MaxVersions \in Nat /\ MaxFaults \in Nat /\ Faults \subseteq FaultKinds
  /\ SlugOrder \in Seq(ToSet(SlugOrder))
  /\ \A content \in Contents :
       /\ IsFiniteSet(content.aliases) /\ NoParent \notin Slugs(content.categories)
       /\ Slugs(content.topics) \subseteq ToSet(SlugOrder)
       /\ Topics(content.aliases \cup content.mappings) \subseteq Slugs(content.topics)

VARIABLES
  files,      \* content of the files now
  rows,       \* rows[key]: definition in the database, of the committed rows
  deprecated, \* deprecated[slug]: deprecated_at of a topic's row, 0 for none
  versions,   \* versions: topic_registry_versions with their audit entries
  sync,       \* sync[p]: the locals of a sync and its uncommitted writes
  faults      \* number of faults injected so far

vars == <<files, rows, deprecated, versions, sync, faults>>

-----------------------------------------------------------------------------
(* Types *)

Empty == [categories |-> {}, topics |-> {}, aliases |-> {}, mappings |-> {}, allowed |-> {}]
(* content: the registry loaded; latest: the number of the latest version;  *)
(* changes, warned: the comparison; rows, deprecated: the tables as the     *)
(* transaction sees them; todo: slugs still to write.                       *)
Idle == [pc |-> "idle", content |-> Empty, latest |-> 0, changes |-> {}, warned |-> {},
         rows |-> <<>>, deprecated |-> <<>>, todo |-> {}]

At(p, label) == sync[p].pc = label
Set(p, locals) == sync' = [sync EXCEPT ![p] = locals]

Inject(kind) ==
  /\ kind \in Faults /\ faults < MaxFaults
  /\ faults' = faults + 1

(* Rows that a transaction has written replace or join those it found.      *)
Upsert(table, entries) ==
  [key \in DOMAIN table \cup {e.key : e \in entries} |->
     IF With(entries, key) # {} THEN Later(With(entries, key)) ELSE table[key]]

InTransaction(p) == sync[p].pc \in {"categories", "topics"}

-----------------------------------------------------------------------------
(* sync *)

Init ==
  /\ files = Empty
  /\ rows = <<>> /\ deprecated = <<>> /\ versions = <<>>
  /\ sync = [p \in Syncs |-> Idle]
  /\ faults = 0

Edit(content) ==
  /\ content # files
  /\ files' = content
  /\ UNCHANGED <<rows, deprecated, versions, sync, faults>>

(* Invalid files end the command before it has touched the database.        *)
Load(p) ==
  /\ At(p, "idle") /\ Valid(files)
  /\ Set(p, [Idle EXCEPT !.pc = "latest", !.content = files])
  /\ UNCHANGED <<files, rows, deprecated, versions, faults>>

ReadLatest(p) ==
  /\ At(p, "latest")
  /\ Set(p, [sync[p] EXCEPT !.pc = "diff", !.latest = Len(versions)])
  /\ UNCHANGED <<files, rows, deprecated, versions, faults>>

Known(p) == SubSeq(versions, 1, sync[p].latest)

(* diff, and the end of a dry run or of a sync that finds nothing to do.    *)
Diff(p) ==
  LET changes == compare(sync[p].content, rows, Known(p)) IN
  /\ At(p, "diff")
  /\ \/ Set(p, Idle)
     \/ /\ changes # {} /\ sync[p].latest < MaxVersions
        /\ Set(p, [sync[p] EXCEPT !.pc = "open", !.changes = changes,
                                  !.warned = warnings(sync[p].content, rows)])
  /\ UNCHANGED <<files, rows, deprecated, versions, faults>>

(* Faulty variant: numbers of versions need not be unique.                  *)
VersionFree_always(p) == TRUE

(* No committed version has the number.                                     *)
VersionFree(p) == Len(versions) = sync[p].latest

(* The version is inserted.  The insert waits for another transaction that  *)
(* has inserted the same number, and fails when that one committed.         *)
OpenVersion(p) ==
  /\ At(p, "open") /\ \A q \in Syncs : ~InTransaction(q)
  /\ Set(p, IF VersionFree(p)
            THEN [sync[p] EXCEPT !.pc = "categories", !.rows = rows, !.deprecated = deprecated]
            ELSE Idle)
  /\ UNCHANGED <<files, rows, deprecated, versions, faults>>

(* A name of a category that a retained category holds violates uniqueness. *)
SyncCategories(p) ==
  LET written == Upsert(sync[p].rows,
                   {e \in Entries(sync[p].content) : e.key[1] = "category"})
      held == {written[key] : key \in {k \in DOMAIN written : k[1] = "category"}} IN
  /\ At(p, "categories")
  /\ Set(p, IF Unique(held, LAMBDA c : c.name)
            THEN [sync[p] EXCEPT !.pc = "topics", !.rows = written,
                                     !.todo = Slugs(sync[p].content.topics)]
            ELSE Idle)
  /\ UNCHANGED <<files, rows, deprecated, versions, faults>>

(* Faulty variant: every sync of a deprecated topic dates it anew.          *)
deprecated_at_now(topic, before, version) ==
  IF topic.status = "deprecated" THEN version ELSE 0

(* deprecated_at: set once, kept while the topic is deprecated.  The date   *)
(* of a sync is its version.                                                *)
deprecated_at(topic, before, version) ==
  IF topic.status # "deprecated" THEN 0 ELSE IF before # 0 THEN before ELSE version

(* Faulty variant: the aliases of a topic are written when it is created.   *)
TopicEntries_once(p, slug) ==
  {e \in Entries(sync[p].content) :
     e.key[2] = slug /\ (e.key[1] \in {"topic", "mapping"}
                          \/ (e.key[1] = "alias" /\ TopicKey(slug) \notin DOMAIN sync[p].rows))}

(* A topic's row, its aliases and its mappings.                             *)
TopicEntries(p, slug) ==
  {e \in Entries(sync[p].content) : e.key[2] = slug /\ e.key[1] # "category"}

(* The name is another topic's, or two new aliases have one key.            *)
Refused(p, slug) ==
  LET entries == TopicEntries(p, slug)
      name == Declared(sync[p].content, TopicKey(slug)).name IN
  \/ \E key \in DOMAIN sync[p].rows :
       key[1] = "topic" /\ key[2] # slug /\ sync[p].rows[key].name = name
  \/ \E a, b \in entries : a # b /\ a.key = b.key /\ a.key \notin DOMAIN sync[p].rows

(* Topics are written in the order of their slugs.                          *)
First(slugs) ==
  SlugOrder[CHOOSE i \in DOMAIN SlugOrder :
    SlugOrder[i] \in slugs /\ \A j \in 1..(i - 1) : SlugOrder[j] \notin slugs]

SyncTopic(p) ==
  LET slug == First(sync[p].todo)
      topic == Declared(sync[p].content, TopicKey(slug))
      table == sync[p].deprecated
      before == IF slug \in DOMAIN table THEN table[slug] ELSE 0 IN
  /\ At(p, "topics") /\ sync[p].todo # {}
  /\ Set(p, IF Refused(p, slug) THEN Idle
            ELSE [sync[p] EXCEPT
                    !.rows = Upsert(@, TopicEntries(p, slug)),
                    !.deprecated = [s \in DOMAIN table \cup {slug} |->
                       IF s = slug THEN deprecated_at(topic, before, sync[p].latest + 1)
                       ELSE table[s]],
                    !.todo = @ \ {slug}])
  /\ UNCHANGED <<files, rows, deprecated, versions, faults>>

(* The version, its audit entries and all rows become visible at once.      *)
Commit(p) ==
  /\ At(p, "topics") /\ sync[p].todo = {}
  /\ rows' = sync[p].rows
  /\ deprecated' = sync[p].deprecated
  /\ versions' = Append(versions,
       [content |-> sync[p].content, checksum |-> registry_checksum(sync[p].content),
        warnings |-> sync[p].warned, changes |-> sync[p].changes])
  /\ Set(p, Idle)
  /\ UNCHANGED <<files, faults>>

(* An exception, or the death of the process, rolls the transaction back.   *)
Rollback(p) ==
  /\ ~At(p, "idle")
  /\ Inject("crash") \/ Inject("error")
  /\ Set(p, Idle)
  /\ UNCHANGED <<files, rows, deprecated, versions>>

Step(p) ==
  Load(p) \/ ReadLatest(p) \/ Diff(p) \/ OpenVersion(p) \/ SyncCategories(p)
    \/ SyncTopic(p) \/ Commit(p) \/ Rollback(p)

Next == (\E content \in Contents : Edit(content)) \/ (\E p \in Syncs : Step(p))

Spec == Init /\ [][Next]_vars

-----------------------------------------------------------------------------
(* Properties *)

CategoryRows == {rows[key] : key \in {k \in DOMAIN rows : k[1] = "category"}}
TopicRows == {rows[key] : key \in {k \in DOMAIN rows : k[1] = "topic"}}

(* The rows' references resolve and categories form a forest, also of rows  *)
(* kept from registries long gone.                                          *)
TypeOK ==
  /\ \A c \in CategoryRows : c.parent \in Slugs(CategoryRows) \cup {NoParent}
  /\ ~HasCycle(CategoryRows)
  /\ \A t \in TopicRows : t.category \in Slugs(CategoryRows)
  /\ \A key \in DOMAIN rows : key[1] \in {"alias", "mapping"} => key[2] \in Slugs(TopicRows)
  /\ files \in Contents \cup {Empty}
  /\ DOMAIN deprecated = Slugs(TopicRows)
  /\ \A slug \in DOMAIN deprecated : deprecated[slug] \in 0..Len(versions)
  /\ Len(versions) <= MaxVersions
  /\ \A p \in Syncs :
       /\ sync[p].pc \in {"idle", "latest", "diff", "open", "categories", "topics"}
       /\ sync[p].content \in Contents \cup {Empty}
       /\ sync[p].latest \in 0..Len(versions)

ChangesOf(v, key) == {change \in versions[v].changes : change.key = key}
AuditedAt(key) == {v \in DOMAIN versions : ChangesOf(v, key) # {}}

(* The audit log tells the whole history: each entry's "before" is what the *)
(* entry before it left, the last one's "after" is the row, and there is no *)
(* row without an entry, however syncs overlapped, failed or crashed.       *)
HistoryReplays ==
  /\ \A key \in DOMAIN rows : AuditedAt(key) # {}
  /\ \A v \in DOMAIN versions : \A change \in versions[v].changes \ {RegistryUpdate} :
       LET earlier == {u \in AuditedAt(change.key) : u < v}
           later == {u \in AuditedAt(change.key) : u > v} IN
       /\ change.before = IF earlier = {} THEN {}
                          ELSE (CHOOSE c \in ChangesOf(Max(earlier), change.key) : TRUE).after
       /\ later = {} => change.after = Before(rows, change.key)

(* The files are authoritative: after a sync every definition of the latest *)
(* version is what the database holds.                                      *)
LatestVersionHolds ==
  versions # <<>> =>
    LET content == Last(versions).content IN
    \A key \in Keys(content) : Before(rows, key) = {Declared(content, key)}

(* A retired topic keeps the date of the version that retired it, through   *)
(* later syncs and without its definition, until a sync takes it back.      *)
DeprecationIsRemembered ==
  \A slug \in DOMAIN deprecated :
    LET key == TopicKey(slug)
        retired == {v \in AuditedAt(key) : \E c \in ChangesOf(v, key) :
                      /\ \A topic \in c.after : topic.status = "deprecated"
                      /\ \A topic \in c.before : topic.status # "deprecated"} IN
    deprecated[slug] = IF rows[key].status = "deprecated" THEN Max(retired) ELSE 0

(* "A second sync of unchanged content and unchanged validation warnings    *)
(* creates no version and no audit rows" (topics/topic-registry.md).        *)
ResyncIsNoop ==
  \A v \in 2..Len(versions) :
    \/ versions[v].content # versions[v - 1].content
    \/ versions[v].warnings # versions[v - 1].warnings

Matches(alias, text) ==
  IF alias.case_sensitive THEN alias.text = text ELSE Fold[alias.text] = Fold[text]

(* "Alias ambiguity is an error by default": in a registry that was loaded  *)
(* a text means one topic, or topics whose collision was reviewed.          *)
AliasMeansOneTopic ==
  \A p \in Syncs : \A text \in Texts :
    LET content == sync[p].content
        meant == {a \in content.aliases : Matches(a, text)} IN
    Cardinality(Topics(meant)) > 1 =>
      \E allowed \in content.allowed :
        Fold[allowed.alias] = Fold[text] /\ Topics(meant) \subseteq allowed.topics
=============================================================================
