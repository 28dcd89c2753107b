----------------------------- MODULE Migrations -----------------------------
(***************************************************************************)
(* The start of the database thread (db/migrations.rs, db/actor.rs): apply *)
(* runs one statement or transaction after the other over a database of    *)
(* any earlier version, and again at every start.  The process may end     *)
(* between any two of them, or a statement fail; then nothing of the       *)
(* application works until the next start.                                 *)
(*                                                                         *)
(* An old database holds one of each: a session with Messages messages, a document *)
(* with its chunks, a workspace with its folder, a memory of the settings, *)
(* a queued change.                                                        *)
(***************************************************************************)
EXTENDS Naturals, FiniteSets

CONSTANTS
  Messages,         \* the messages of the session: 1 .. n in the order of seq
  Ages,             \* the sets of upgrades that are still to come
  MaxStarts         \* bound: starts of the application

VARIABLES
  age,              \* the upgrades this database has to go through; "agents": a new one
  columns,          \* columns that were added later and are there
  linked,           \* messages whose parent and selected child are stored
  root,             \* sessions.selected_root_id: 0 for NULL
  agents, provider, \* the rows of agents and model_providers that are seeded
  docs,             \* table -> "absent", "old", "empty" or "new"
  folder,           \* where the workspace's folder is stored
  memory,           \* where the explicit memory is stored
  change,           \* the outbox row: its status, and whether it has its source payload
  at,               \* the statement that comes next, "ready", "failed" or "down"
  added,            \* added_source_payload
  starts,
  cut               \* pairs of statements between which a start has ended

vars == <<age, columns, linked, root, agents, provider, docs, folder, memory, change, at, added, starts, cut>>
rest(unchanged) == UNCHANGED <<age, starts, cut, unchanged>>

Tables == {"documents", "chunks", "legacy_documents", "legacy_chunks", "transfers"}

\* Columns that are only looked for together: the first one stands for all.
Groups == [thinking |-> <<"thinking_mode", "thinking_budget">>,
           model    |-> <<"model", "session_thinking_mode", "session_thinking_budget">>,
           tree     |-> <<"parent_id", "selected_child_id">>]
InGroup(g) == {Groups[g][i] : i \in DOMAIN Groups[g]}
Columns == {"tasks", "deleted_at", "selected_root_id", "source_payload"}
             \cup UNION {InGroup(g) : g \in DOMAIN Groups}

\* What a database lacks before an upgrade.
Lacks(u) == IF u \in DOMAIN Groups THEN InGroup(u) ELSE {u} \cap Columns

Old(u) == u \in age
Init ==
  /\ age \in Ages
  /\ columns = Columns \ UNION {Lacks(u) : u \in age}
  /\ linked = IF Old("tree") THEN {} ELSE Messages
  /\ root = IF Old("selected_root_id") THEN 0 ELSE 1
  /\ docs = [t \in Tables |->
               IF t = "transfers" THEN IF Old("transfers") THEN "old" ELSE "new"
               ELSE IF Old("agents") \/ t \notin {"documents", "chunks"} THEN "absent"
               ELSE IF Old("documents") THEN "old" ELSE "new"]
  /\ folder = IF Old("folder") THEN {"column"} ELSE {"binding"}
  /\ memory = IF Old("memory") THEN "setting" ELSE "entity"
  /\ change = [status |-> "in_flight", source |-> ~Old("source_payload")]
  /\ agents = (IF Old("agents") THEN 0 ELSE 3) /\ provider = ~Old("agents")
  /\ at = "tasks" /\ added = FALSE /\ starts = 1 /\ cut = {}

Goto(a, b) == at = a /\ at' = b

(* ensure_column, of the planner and of the entities                       *)
ensure_column(c) == columns' = columns \cup {c}

ensure_planner_task_metadata ==
  /\ Goto("tasks", "rename_chunks") /\ ensure_column("tasks")
  /\ rest(<<linked, root, agents, provider, docs, folder, memory, change, added>>)

(* rename_legacy_document_tables: two statements, without a transaction.   *)
Renaming == docs["documents"] = "old"
Unfinished == Renaming /\ docs["legacy_documents"] # "absent"
Renamed(t, legacy) == docs' = [docs EXCEPT ![t] = "absent", ![legacy] = docs[t]]
rename_legacy_document_tables ==
  /\ \/ /\ at = "rename_chunks" /\ at' = IF Unfinished THEN "failed" ELSE "rename_documents"
        /\ IF Renaming /\ ~Unfinished /\ docs["chunks"] # "absent"
           THEN Renamed("chunks", "legacy_chunks") ELSE UNCHANGED docs
     \/ /\ Goto("rename_documents", "knowledge")
        /\ IF Renaming THEN Renamed("documents", "legacy_documents") ELSE UNCHANGED docs
  /\ rest(<<columns, linked, root, agents, provider, folder, memory, change, added>>)

KNOWLEDGE_SCHEMA ==
  /\ Goto("knowledge", "copy")
  /\ docs' = [t \in Tables |-> IF t \in {"documents", "chunks"} /\ docs[t] = "absent" THEN "empty" ELSE docs[t]]
  /\ rest(<<columns, linked, root, agents, provider, folder, memory, change, added>>)

(* One transaction: a version for every document with its chunks in order. *)
migrate_legacy_documents ==
  /\ Goto("copy", "reading")
  /\ docs' = IF docs["legacy_documents"] = "absent" THEN docs
             ELSE [docs EXCEPT !["documents"] = "new",
                               !["chunks"] = IF docs["legacy_chunks"] = "old" THEN "new" ELSE @,
                               !["legacy_documents"] = "absent", !["legacy_chunks"] = "absent"]
  /\ rest(<<columns, linked, root, agents, provider, folder, memory, change, added>>)

(* The sessions of a book are found by their title, if they are not        *)
(* deleted; a database that has no such column yet refuses the statement.  *)
ensure_reading_metadata ==
  /\ at = "reading" /\ at' = IF "deleted_at" \in columns THEN "transfers" ELSE "failed"
  /\ rest(<<columns, linked, root, agents, provider, docs, folder, memory, change, added>>)

(* One transaction: the table without the check of its operations.         *)
ensure_open_storage_transfer_operations ==
  /\ Goto("transfers", "agents") /\ docs' = [docs EXCEPT !["transfers"] = "new"]
  /\ rest(<<columns, linked, root, agents, provider, folder, memory, change, added>>)

(* The three agents are inserted one by one if there is none.              *)
seed_agents ==
  /\ \/ at = "agents" /\ agents = 0 /\ at' = "seed" /\ UNCHANGED agents
     \/ at = "agents" /\ agents > 0 /\ at' = "provider" /\ UNCHANGED agents
     \/ at = "seed" /\ agents' = agents + 1 /\ at' = IF agents' = 3 THEN "provider" ELSE "seed"
  /\ rest(<<columns, linked, root, provider, docs, folder, memory, change, added>>)

seed_provider ==
  /\ Goto("provider", "thinking") /\ provider' = TRUE
  /\ rest(<<columns, linked, root, agents, docs, folder, memory, change, added>>)

After == [thinking |-> "model", model |-> "tree", tree |-> "link"]

(* The columns of a group, if the first is missing; the others follow      *)
(* without another look.                                                   *)
Adding(g, i) == IF i = 1 THEN g ELSE Groups[g][i]
add_columns(g) ==
  /\ \/ /\ at = g /\ Groups[g][1] \in columns
        /\ at' = IF g = "tree" THEN "root_column" ELSE After[g]
        /\ UNCHANGED columns
     \/ \E i \in DOMAIN Groups[g] :
          /\ Goto(Adding(g, i), IF i = Cardinality(DOMAIN Groups[g]) THEN After[g] ELSE Adding(g, i + 1))
          /\ Groups[g][i] \notin columns /\ ensure_column(Groups[g][i])
  /\ rest(<<linked, root, agents, provider, docs, folder, memory, change, added>>)

(* The messages of a session are linked in the order of seq, once, right   *)
(* after the columns have been added.                                      *)
link_messages ==
  /\ \/ /\ at = "link" /\ linked # Messages
        /\ linked' = linked \cup {CHOOSE m \in Messages \ linked : \A n \in Messages \ linked : m <= n}
        /\ UNCHANGED at
     \/ Goto("link", "root_column") /\ linked = Messages /\ UNCHANGED linked
  /\ rest(<<columns, root, agents, provider, docs, folder, memory, change, added>>)

\* The newest message without a parent; one that is not linked has none.
NewestRoot == LET roots == {1} \cup (Messages \ linked) IN CHOOSE m \in roots : \A n \in roots : n <= m

select_root ==
  /\ \/ Goto("root_column", "root") /\ ensure_column("selected_root_id") /\ UNCHANGED root
     \/ at = "root" /\ "deleted_at" \notin columns /\ at' = "failed" /\ UNCHANGED <<columns, root>>
     \/ /\ Goto("root", "sync") /\ "deleted_at" \in columns
        /\ root' = IF root = 0 THEN NewestRoot ELSE root
        /\ UNCHANGED columns
  /\ rest(<<linked, agents, provider, docs, folder, memory, change, added>>)

ensure_sync_metadata ==
  /\ Goto("sync", "source_column") /\ ensure_column("deleted_at")
  /\ rest(<<linked, root, agents, provider, docs, folder, memory, change, added>>)

\* mutant
ensure_sync_runtime_state_Unrecovered ==
  /\ \/ /\ Goto("source_column", "source") /\ added' = ("source_payload" \notin columns)
        /\ ensure_column("source_payload") /\ UNCHANGED change
     \/ /\ Goto("source", "recover")
        /\ change' = [change EXCEPT !.source = @ \/ added] /\ UNCHANGED <<columns, added>>
     \/ /\ Goto("recover", "binding")
        /\ UNCHANGED <<columns, change, added>>
  /\ rest(<<linked, root, agents, provider, docs, folder, memory>>)

(* The source payload is filled in only by the start that added its        *)
(* column; changes that were being sent are sent again.                    *)
ensure_sync_runtime_state ==
  /\ \/ /\ Goto("source_column", "source") /\ added' = ("source_payload" \notin columns)
        /\ ensure_column("source_payload") /\ UNCHANGED change
     \/ /\ Goto("source", "recover")
        /\ change' = [change EXCEPT !.source = @ \/ added] /\ UNCHANGED <<columns, added>>
     \/ /\ Goto("recover", "binding")
        /\ change' = [change EXCEPT !.status = "pending"] /\ UNCHANGED <<columns, added>>
  /\ rest(<<linked, root, agents, provider, docs, folder, memory>>)

(* The folder is copied and then the column dropped.                       *)
migrate_workspace_bindings ==
  /\ \/ /\ Goto("binding", "drop")
        /\ folder' = IF "column" \in folder THEN folder \cup {"binding"} ELSE folder
     \/ Goto("drop", "memory") /\ folder' = folder \ {"column"}
  /\ rest(<<columns, linked, root, agents, provider, docs, memory, change, added>>)

migrate_explicit_memories ==
  /\ Goto("memory", "ready") /\ memory' = "entity"
  /\ rest(<<columns, linked, root, agents, provider, docs, folder, change, added>>)

(* The process ends, or a statement fails.                                 *)
crash ==
  /\ at # "down" /\ at' = "down"
  /\ cut' = IF at = "ready" THEN cut ELSE cut \cup {at}
  /\ change' = [change EXCEPT !.status = IF at = "ready" THEN "in_flight" ELSE @]
  /\ UNCHANGED <<age, columns, linked, root, agents, provider, docs, folder, memory, added, starts>>

(* spawn: the database is opened and apply runs from its first statement.  *)
start ==
  /\ Goto("down", "tasks") /\ starts < MaxStarts /\ starts' = starts + 1 /\ added' = FALSE
  /\ UNCHANGED <<age, columns, linked, root, agents, provider, docs, folder, memory, change, cut>>

Next ==
  \/ ensure_planner_task_metadata \/ rename_legacy_document_tables \/ KNOWLEDGE_SCHEMA
  \/ migrate_legacy_documents \/ ensure_reading_metadata \/ ensure_open_storage_transfer_operations \/ seed_agents \/ seed_provider
  \/ \E g \in DOMAIN Groups : add_columns(g)
  \/ link_messages \/ select_root \/ ensure_sync_metadata \/ ensure_sync_runtime_state
  \/ migrate_workspace_bindings \/ migrate_explicit_memories \/ crash \/ start

(***************************************************************************)
(* Properties.                                                             *)
(***************************************************************************)

TypeOK ==
  /\ columns \subseteq Columns /\ linked \subseteq Messages /\ root \in {0} \cup Messages
  /\ docs \in [Tables -> {"absent", "old", "empty", "new"}] /\ agents \in 0 .. 3
  /\ folder \subseteq {"column", "binding"}

\* Whatever starts end where, the documents with their chunks, the folder and the
\* rows of the outbox are in the database at all times.
NothingDropped ==
  /\ ~Old("agents") =>
       /\ \E t \in {"documents", "legacy_documents"} : docs[t] \in {"old", "new"}
       /\ \E t \in {"chunks", "legacy_chunks"} : docs[t] \in {"old", "new"}
  /\ folder # {}

\* A start that comes to its end leaves a complete database, unless an earlier one
\* ended at one of the places that are not gone through again: between the columns
\* of a group, among the links of messages, before the source payloads, and among
\* the agents.
CompleteWhenReady ==
  at = "ready" =>
    /\ docs["transfers"] = "new"
    /\ \A t \in Tables \ {"transfers"} :
         docs[t] = IF t \notin {"documents", "chunks"} THEN "absent"
                   ELSE IF Old("agents") THEN "empty" ELSE "new"
    /\ folder = {"binding"} /\ memory = "entity" /\ provider /\ change.status = "pending"
    /\ columns = Columns \/ cut \cap {"thinking_budget", "session_thinking_mode", "session_thinking_budget",
                                      "selected_child_id"} # {}
    /\ (linked = Messages /\ root = 1) \/ cut \cap {"selected_child_id", "link"} # {}
    /\ change.source \/ "source" \in cut
    /\ agents = 3 \/ "seed" \in cut

\* Only a database from before the synchronization columns is refused.
OnlyOldRefused == at = "failed" => "deleted_at" \notin columns

StartsSafe == TypeOK /\ NothingDropped /\ CompleteWhenReady /\ OnlyOldRefused
=============================================================================
