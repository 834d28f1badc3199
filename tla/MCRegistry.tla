----------------------------- MODULE MCRegistry -----------------------------
(***************************************************************************)
(* Contents of the registry for the registry_sync run: a first registry,   *)
(* edits of it that retire, rename, drop and reorder, and files the loader *)
(* refuses.                                                                *)
(***************************************************************************)
EXTENDS RegistrySync

Spellings == {"MCP", "mcp"}
Lower == [t \in Spellings |-> "mcp"]
Order == <<"agents", "protocols">>

ai == [slug |-> "ai", name |-> "AI", parent |-> NoParent]
tools == [slug |-> "tools", name |-> "Tools", parent |-> "ai"]
loop == [slug |-> "ai", name |-> "AI", parent |-> "tools"]

topic(slug, name, status) ==
  [slug |-> slug, name |-> name, category |-> "ai", status |-> status]
alias(slug, text, exact) == [topic |-> slug, text |-> text, case_sensitive |-> exact]
mapping(slug, terms) ==
  [topic |-> slug, source |-> "arxiv", enabled |-> TRUE, terms |-> terms]

Base ==
  [categories |-> {ai}, allowed |-> {},
   topics   |-> {topic("agents", "Agents", "active"), topic("protocols", "MCP", "active")},
   aliases  |-> {alias("protocols", "MCP", TRUE)},
   mappings |-> {mapping("agents", <<"agent", "planner">>)}]
(* A topic retired, a search reordered, a category added, a collision       *)
(* reviewed.                                                                *)
Retired ==
  [Base EXCEPT !.categories = {ai, tools},
               !.aliases = @ \cup {alias("agents", "mcp", FALSE)},
               !.allowed = {[alias |-> "MCP", topics |-> {"agents", "protocols"}]},
               !.topics = {topic("agents", "Agents", "deprecated"), topic("protocols", "MCP", "active")},
               !.mappings = {mapping("agents", <<"planner", "agent">>)}]
(* A topic left out, the alias now in any case.                             *)
Dropped ==
  [Base EXCEPT !.topics = {topic("protocols", "MCP", "active")},
               !.aliases = {alias("protocols", "MCP", FALSE)},
               !.mappings = {}]
(* The two topics change names.                                             *)
Swapped ==
  [Base EXCEPT !.topics = {topic("agents", "MCP", "active"), topic("protocols", "Agents", "active")}]
(* The same collision, not reviewed.                                        *)
Ambiguous == [Base EXCEPT !.aliases = @ \cup {alias("agents", "mcp", FALSE)}]
(* One topic's two aliases with one normalized form.                        *)
Twice == [Base EXCEPT !.aliases = {alias("protocols", "mcp", TRUE), alias("protocols", "MCP", FALSE)}]
Cyclic == [Base EXCEPT !.categories = {loop, tools}]

Edits == {Base, Retired, Dropped, Swapped, Ambiguous, Twice, Cyclic}

Symmetry == Permutations(Syncs)
=============================================================================
