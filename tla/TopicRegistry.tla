---------------------------- MODULE TopicRegistry ----------------------------
(***************************************************************************)
(* The declared topic registry: its content, the checks of the loader, and *)
(* the comparison with the database (topic_registry loader.py, models.py,  *)
(* checksum.py, diff.py).                                                  *)
(*                                                                         *)
(* A content is what the YAML files say together: sets of definitions of   *)
(* categories, topics, aliases and source mappings, and the alias          *)
(* collisions that were reviewed.  The free text of a definition is left   *)
(* out; normalized forms of names are the names themselves.                *)
(***************************************************************************)
EXTENDS Integers, Sequences, FiniteSets, SequencesExt

CONSTANTS
  Texts,    \* spellings of aliases
  Fold      \* Fold[t]: the spelling t without case

ASSUME FoldAssumption ==
  /\ Fold \in [Texts -> Texts]
  /\ \A t \in Texts : Fold[Fold[t]] = Fold[t]

NoParent == "none"

-----------------------------------------------------------------------------
(* Definitions *)

normalized(alias) == IF alias.case_sensitive THEN alias.text ELSE Fold[alias.text]

CategoryKey(slug) == <<"category", slug>>
TopicKey(slug) == <<"topic", slug>>
AliasKey(alias) == <<"alias", alias.topic, normalized(alias)>>
MappingKey(mapping) == <<"mapping", mapping.topic, mapping.source>>

(* The definitions under the key of the row they become.                    *)
Entries(content) ==
  {[key |-> CategoryKey(c.slug), after |-> c] : c \in content.categories}
    \cup {[key |-> TopicKey(t.slug), after |-> t] : t \in content.topics}
    \cup {[key |-> AliasKey(a), after |-> a] : a \in content.aliases}
    \cup {[key |-> MappingKey(m), after |-> m] : m \in content.mappings}

Keys(content) == {entry.key : entry \in Entries(content)}

With(entries, key) == {entry \in entries : entry.key = key}

(* Of two aliases with one key the later in the file counts.                *)
Later(entries) == (CHOOSE entry \in entries : TRUE).after
Declared(content, key) == Later(With(Entries(content), key))

(* registry_checksum: a list counts as the set of its members.              *)
registry_checksum(content) ==
  [content EXCEPT !.mappings = {[m EXCEPT !.terms = ToSet(@)] : m \in content.mappings}]

-----------------------------------------------------------------------------
(* Loader *)

Slugs(definitions) == {d.slug : d \in definitions}

Unique(definitions, Value(_)) ==
  \A d, e \in definitions : Value(d) = Value(e) => d = e

(* _category_cycle_issues: some set of categories has all its parents.      *)
HasCycle(categories) ==
  \E cycle \in (SUBSET categories) \ {{}} :
    \A c \in cycle : \E parent \in cycle : parent.slug = c.parent

Sharing(content, folded) == {a \in content.aliases : Fold[a.text] = folded}
Topics(aliases) == {a.topic : a \in aliases}

(* Faulty variant: a case-sensitive alias collides with no other.           *)
entries_collide_insensitive(entries) ==
  Cardinality({a \in entries : ~a.case_sensitive}) > 1

(* _entries_collide, of aliases that differ at most in case: one of them    *)
(* matches in any case, or two are spelled alike.                           *)
entries_collide(entries) ==
  \/ \E a \in entries : ~a.case_sensitive
  \/ Cardinality({normalized(a) : a \in entries}) < Cardinality(entries)

Collisions(content) ==
  {folded \in {Fold[a.text] : a \in content.aliases} :
     LET entries == Sharing(content, folded) IN
     Cardinality(Topics(entries)) > 1 /\ entries_collide(entries)}

Reviewed(content, folded) ==
  \E allowed \in content.allowed :
    Fold[allowed.alias] = folded /\ allowed.topics = Topics(Sharing(content, folded))

CategoriesValid(categories) ==
  /\ Unique(categories, LAMBDA c : c.slug)
  /\ Unique(categories, LAMBDA c : c.name)
  /\ \A c \in categories : c.parent \in Slugs(categories) \cup {NoParent}
  /\ ~HasCycle(categories)

TopicsValid(content) ==
  /\ Unique(content.topics, LAMBDA t : t.slug)
  /\ Unique(content.topics, LAMBDA t : t.name)
  /\ \A t \in content.topics : t.category \in Slugs(content.categories)
  /\ \A m \in content.mappings : m.enabled => m.terms # <<>>

AliasesValid(content) ==
  /\ Unique(content.aliases, LAMBDA a : <<a.topic, normalized(a), a.case_sensitive>>)
  /\ \A folded \in Collisions(content) : Reviewed(content, folded)
  /\ Unique(content.allowed, LAMBDA allowed : Fold[allowed.alias])
  /\ \A allowed \in content.allowed : allowed.topics \subseteq Slugs(content.topics)

(* The files are loaded when they have no error.                            *)
Valid(content) ==
  CategoriesValid(content.categories) /\ TopicsValid(content) /\ AliasesValid(content)

(* The warnings of a valid content: its reviewed collisions and the entries *)
(* of the list that no collision needs.  Pages that topics share are left   *)
(* out.                                                                     *)
issues(content) ==
  {<<"collision", folded>> : folded \in Collisions(content)}
    \cup {<<"unused", allowed.alias>> :
            allowed \in {l \in content.allowed : Fold[l.alias] \notin Collisions(content)}}

-----------------------------------------------------------------------------
(* Comparison with the rows of the database, rows[key] *)

(* Rows without a definition.  Those of a topic that is itself an orphan    *)
(* are not named.                                                           *)
Orphans(content, rows) ==
  {key \in DOMAIN rows \ Keys(content) :
     key[1] \in {"category", "topic"} \/ key[2] \in Slugs(content.topics)}

warnings(content, rows) ==
  issues(content) \cup {<<"orphaned", key>> : key \in Orphans(content, rows)}

Before(rows, key) == IF key \in DOMAIN rows THEN {rows[key]} ELSE {}

(* What a sync will write, with the row it replaces, if any.                *)
Changes(content, rows) ==
  {change \in {[key |-> key, before |-> Before(rows, key),
                after |-> {Declared(content, key)}] : key \in Keys(content)} :
     change.before # change.after}

RegistryUpdate == [key |-> <<"registry">>, before |-> {}, after |-> {}]

(* Faulty variant: the warnings of the database are not part of a version.  *)
metadata_changed_issues(content, rows, latest) ==
  latest.checksum # registry_checksum(content) \/ latest.warnings # issues(content)

(* The latest version has another checksum or other warnings.               *)
metadata_changed(content, rows, latest) ==
  \/ latest.checksum # registry_checksum(content)
  \/ latest.warnings # warnings(content, rows)

(* compare: with no row to change, new metadata make a version of its own.  *)
compare(content, rows, versions) ==
  LET changes == Changes(content, rows) IN
  IF changes = {} /\ versions # <<>> /\ metadata_changed(content, rows, Last(versions))
  THEN {RegistryUpdate} ELSE changes
=============================================================================
