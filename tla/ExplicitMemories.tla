-------------------------- MODULE ExplicitMemories --------------------------
(***************************************************************************)
(* The two documents of an agent, USER.md and MEMORY.md: rows of           *)
(* explicit_memories with Markdown files as views (memory/mod.rs,          *)
(* db/repo/explicit_memories.rs).  Both are always saved together.  The    *)
(* user's editor, the tool memory_md_edit and the assembly of a prompt     *)
(* each read and write them in several awaited calls; synchronisation      *)
(* writes single rows.  A document is the set of lines it contains.        *)
(* The structured memories are a part of their own, MemoryVectors, which   *)
(* shares no state with the documents; MemoriesSafe speaks of both.        *)
(***************************************************************************)
EXTENDS MemoryVectors

CONSTANTS Lines,      \* lines a writer may add
          MaxSaves    \* bound: documents saved and remote changes

VARIABLES documents,  \* explicit_memories by kind
          views,      \* what USER.md and MEMORY.md contain
          places,     \* by process: its place, what it has read, what it will save
          stale,      \* has a process saved over a row it had not read?
          saves

explicitVars == <<documents, views, places, stale, saves>>

DocumentKinds == {"user_md", "memory_md"}
Processes == {"editor", "tool", "prompt"}
NoDocument == [state |-> "none", text |-> {}]
Document(text) == [state |-> "live", text |-> text]
Tombstone == [state |-> "deleted", text |-> {}]
NoPlace == [pc |-> "idle", text |-> [k \in DocumentKinds |-> {}], seen |-> [k \in DocumentKinds |-> NoDocument]]

(* normalize_memory_text: an initial template counts as empty.             *)
Template == "template"
normalize_memory_text(text) == IF Template \in text THEN {} ELSE text

(***************************************************************************)
(* The database.                                                           *)
(***************************************************************************)

(* upsert: a document that is the same already is not written, unless it   *)
(* was deleted.                                                            *)
upsert(k, text) == IF documents[k] # Document(text) THEN Document(text) ELSE documents[k]

save_pair(text) == documents' = [k \in DocumentKinds |-> upsert(k, text[k])]

(* A save over a row other than the one its writer has read.               *)
Saves(p) == stale' = (stale \/ places[p].seen # documents)

(***************************************************************************)
(* load_explicit_memories: the rows, or the files of a kind that has no    *)
(* row yet, which are then saved as rows; the files follow.                *)
(***************************************************************************)

TextOf(k) ==
    normalize_memory_text(IF documents[k].state = "none" THEN views[k] ELSE documents[k].text)

Loaded == [text |-> [k \in DocumentKinds |-> TextOf(k)], seen |-> documents]
AnyMissing == \E k \in DocumentKinds : documents[k].state = "none"

load(p) ==
    /\ places[p].pc = "load"
    /\ places' = [places EXCEPT ![p] = [pc |-> IF AnyMissing THEN "load-save" ELSE "open",
                                        text |-> Loaded.text, seen |-> Loaded.seen]]
    /\ views' = IF AnyMissing THEN views ELSE Loaded.text
    /\ UNCHANGED <<documents, stale, saves>>

\* The rest of a load that has found no row.
load_saves(p, from, next) ==
    /\ places[p].pc = from /\ saves < MaxSaves /\ saves' = saves + 1
    /\ save_pair(places[p].text) /\ views' = places[p].text /\ Saves(p)
    /\ places' = [places EXCEPT ![p].pc = next, ![p].seen = documents']

(* save_explicit_memories: rows, then files.                               *)
save_explicit_memories(p) ==
    /\ places[p].pc = "save" /\ saves < MaxSaves /\ saves' = saves + 1
    /\ save_pair(places[p].text) /\ views' = places[p].text /\ Saves(p)
    /\ places' = [places EXCEPT ![p] = NoPlace]

(***************************************************************************)
(* The three processes.                                                    *)
(***************************************************************************)

Begin(p) ==
    /\ places[p].pc = "idle" /\ places' = [places EXCEPT ![p].pc = "load"]
    /\ UNCHANGED <<documents, views, stale, saves>>

\* The user changes either document and saves.
edit_documents ==
    /\ places["editor"].pc = "open"
    /\ \E k \in DocumentKinds, l \in Lines :
          LET old == places["editor"].text[k] IN
          places' = [places EXCEPT !["editor"].text[k] = IF l \in old THEN old \ {l} ELSE old \cup {l},
                                   !["editor"].pc = "save"]
    /\ UNCHANGED <<documents, views, stale, saves>>

(* apply_edit: append, or replace one block; then save_memory_md, which    *)
(* loads both documents again for the sake of USER.md.                     *)
apply_edit ==
    /\ places["tool"].pc = "open"
    /\ \E l \in Lines, replaced \in SUBSET places["tool"].text["memory_md"] :
          /\ Cardinality(replaced) <= 1
          /\ places' = [places EXCEPT !["tool"].text["memory_md"] = (@ \ replaced) \cup {l}, !["tool"].pc = "reload"]
    /\ UNCHANGED <<documents, views, stale, saves>>

keep_edit(p) ==
    /\ places' = [places EXCEPT ![p].pc = IF AnyMissing THEN "reload-save" ELSE "save",
                                ![p].text["user_md"] = Loaded.text["user_md"],
                                ![p].seen = [@ EXCEPT !["user_md"] = documents["user_md"]]]

save_memory_md ==
    /\ places["tool"].pc = "reload" /\ keep_edit("tool")
    /\ views' = IF AnyMissing THEN views ELSE Loaded.text
    /\ UNCHANGED <<documents, stale, saves>>

prompt_ends ==
    /\ places["prompt"].pc = "open" /\ places' = [places EXCEPT !["prompt"] = NoPlace]
    /\ UNCHANGED <<documents, views, stale, saves>>

(* apply_remote_explicit_memory and its deletion.                          *)
apply_remote(k) ==
    /\ saves < MaxSaves /\ saves' = saves + 1
    /\ \E row \in {Document({l}) : l \in Lines} \cup {Tombstone} :
          /\ row = Tombstone => documents[k].state = "live"
          /\ documents' = [documents EXCEPT ![k] = row]
    /\ UNCHANGED <<views, places, stale>>

(* A new agent, or one whose documents were only files.                    *)
ExplicitInit ==
    /\ documents = [k \in DocumentKinds |-> NoDocument]
    /\ views \in [DocumentKinds -> {{}, {Template}} \cup {{l} : l \in Lines}]
    /\ places = [p \in Processes |-> NoPlace] /\ stale = FALSE /\ saves = 0

ExplicitNext ==
    \/ \E p \in Processes : Begin(p) \/ load(p) \/ load_saves(p, "load-save", "open") \/ save_explicit_memories(p)
    \/ load_saves("tool", "reload-save", "save")
    \/ edit_documents \/ apply_edit \/ save_memory_md \/ prompt_ends
    \/ \E k \in DocumentKinds : apply_remote(k)

ExplicitSpec == ExplicitInit /\ [][ExplicitNext]_explicitVars

(***************************************************************************)
(* Properties.                                                             *)
(***************************************************************************)

\* The state has its type.
ExplicitTypeOK ==
    /\ \A k \in DocumentKinds :
          documents[k].state \in {"none", "live", "deleted"} /\ documents[k].text \subseteq Lines
    /\ stale \in BOOLEAN

\* From the first load on the rows are the documents: an open document, the
\* prompt's too, has a row for either kind, so that the files, which anything
\* may have edited, are not read again and a document deleted by another
\* device stays empty.
RowsAreCanonical ==
    \A p \in Processes : places[p].pc \in {"open", "save"} =>
        \A k \in DocumentKinds :
            /\ documents[k].state # "none"
            /\ places[p].seen[k].state = "deleted" /\ p = "prompt" => places[p].text[k] = {}

ExplicitInv == ExplicitTypeOK /\ RowsAreCanonical

\* A search by vectors finds what memories say now, no vector is left behind, and
\* both documents of explicit memory are stored in their canonical form.
MemoriesSafe == RecallTypeOK /\ SearchIsTrue /\ NoOrphanVectors /\ ExplicitInv

=============================================================================
