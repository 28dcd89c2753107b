------------------------------- MODULE Reading -------------------------------
(***************************************************************************)
(* Reading with an agent: EPUB files imported here or announced by other   *)
(* devices, the hidden collection with a book's text, the conversations    *)
(* about a book and what of its text a prompt may use (commands/mod.rs,    *)
(* db/repo/reading.rs, reading.rs, db/repo/sync.rs).                       *)
(***************************************************************************)
EXTENDS Naturals, Sequences

CONSTANTS Readers,         \* commands in flight
          Books,           \* ids that rows may get
          Epubs,           \* files; the hash tells them apart
          Agents,
          MaxCollections,  \* bounds
          MaxConversations,
          MaxReading

ASSUME ReadingAssumption ==
    /\ MaxCollections \in Nat /\ MaxConversations \in Nat
    /\ "none" \notin Books \cup Epubs

VARIABLES books,       \* reading_books
          epubFiles,   \* books whose file is in the application's directory
          collections, \* knowledge_collections with the EPUB of their document
          members,     \* collection_agents
          sessions,    \* book and agent of the sessions in the history of a book
          chosen,      \* reading_book_conversations: the current session
          readers, turns

readingVars == <<books, epubFiles, collections, members, sessions, chosen, readers, turns>>

Nothing == "none"
NoBook == [epub |-> Nothing, collection |-> 0, bound |-> FALSE, knows |-> FALSE, allowed |-> FALSE]
NoSession == [book |-> Nothing, agent |-> Nothing]
NotReading == [pc |-> "idle", kind |-> Nothing, epub |-> Nothing, agent |-> Nothing, book |-> Nothing, collection |-> 0]
CollectionIds == 1 .. MaxCollections
SessionIds == 1 .. MaxConversations
NoCurrent == 0

HasBook(b) == books[b] # NoBook
Opened(b) == books[b].bound /\ b \in epubFiles
SetReader(k, rec) == readers' = [readers EXCEPT ![k] = rec]
ReaderAt(k, pc) == readers[k].pc = pc
ReaderGoes(k, pc) == SetReader(k, [readers[k] EXCEPT !.pc = pc])
ReaderEnds(k) == SetReader(k, NotReading)
ReadingCounted == turns < MaxReading /\ turns' = turns + 1

library == <<books, epubFiles>>
indexes == <<collections, members>>
talks == <<sessions, chosen>>

(***************************************************************************)
(* Importing an EPUB: import_reading_book_from_path.                       *)
(***************************************************************************)

find_by_source_hash(e) == {b \in Books : books[b].epub = e}

(* The file is parsed and hashed, then the book looked up: one that is     *)
(* here with its file is the result; one without gets the file; else a new *)
(* id is made.                                                             *)
import_reading_book(k, agent, e) ==
    /\ ReaderAt(k, "idle") /\ ReadingCounted
    /\ \/ \E b \in find_by_source_hash(e) :
             SetReader(k, IF Opened(b) THEN NotReading
                    ELSE [NotReading EXCEPT !.pc = "attach", !.kind = "import", !.epub = e, !.agent = agent, !.book = b])
       \/ /\ find_by_source_hash(e) = {}
          /\ \E b \in Books :
                /\ ~HasBook(b) /\ \A other \in Readers : readers[other].book # b
                /\ SetReader(k, [NotReading EXCEPT !.pc = "save", !.kind = "import", !.epub = e, !.agent = agent, !.book = b])
    /\ UNCHANGED <<library, indexes, talks>>

\* persist_reading_epub, for a new book.
save_file(k) ==
    /\ ReaderAt(k, "save")
    /\ epubFiles' = epubFiles \cup {readers[k].book}
    /\ ReaderGoes(k, "collect")
    /\ UNCHANGED <<books, indexes, talks, turns>>

(* persist_reading_epub and bind_local_epub, for a known book.             *)
attach_file(k) ==
    /\ ReaderAt(k, "attach")
    /\ epubFiles' = epubFiles \cup {readers[k].book}
    /\ books' = [books EXCEPT ![readers[k].book].bound = TRUE]
    /\ ReaderGoes(k, "index")
    /\ UNCHANGED <<indexes, talks, turns>>

(* create_collection: its creator may manage it.                           *)
create_collection(k) ==
    LET c == Len(collections) + 1 IN
    /\ ReaderAt(k, "collect") /\ c \in CollectionIds
    /\ collections' = Append(collections, Nothing)
    /\ members' = members \cup {<<c, readers[k].agent>>}
    /\ SetReader(k, [readers[k] EXCEPT !.pc = "document", !.collection = c])
    /\ UNCHANGED <<library, talks, turns>>

(* The chunks of the book, stored as a document of the collection.         *)
import_document(k) ==
    /\ ReaderAt(k, "document")
    /\ collections' = [collections EXCEPT ![readers[k].collection] = readers[k].epub]
    /\ ReaderGoes(k, "bind")
    /\ UNCHANGED <<library, members, talks, turns>>

(* insert_book: the hash is unique; the loser removes its file.            *)
insert_book(k) ==
    /\ ReaderAt(k, "bind") /\ ~HasBook(readers[k].book)
    /\ IF find_by_source_hash(readers[k].epub) = {}
       THEN /\ books' = [books EXCEPT ![readers[k].book] =
                  [NoBook EXCEPT !.epub = readers[k].epub, !.collection = readers[k].collection, !.bound = TRUE]]
            /\ UNCHANGED epubFiles
       ELSE epubFiles' = epubFiles \ {readers[k].book} /\ UNCHANGED books
    /\ ReaderEnds(k)
    /\ UNCHANGED <<indexes, talks, turns>>

(* ensure_local_reading_index: a book with a collection has its index; one *)
(* without needs its file.                                                 *)
ensure_local_reading_index(k) ==
    LET b == readers[k].book IN
    /\ ReaderAt(k, "index")
    /\ \/ books[b].collection # 0 /\ (IF readers[k].kind = "import" THEN ReaderEnds(k) ELSE ReaderGoes(k, "grant"))
       \/ books[b].collection = 0 /\ Opened(b) /\ ReaderGoes(k, "collect")
       \/ books[b].collection = 0 /\ ~Opened(b) /\ ReaderEnds(k)
    /\ UNCHANGED <<library, indexes, talks, turns>>

bind_local_index(k) ==
    /\ ReaderAt(k, "bind") /\ HasBook(readers[k].book)
    /\ books' = [books EXCEPT ![readers[k].book].collection = readers[k].collection]
    /\ IF readers[k].kind = "import" THEN ReaderEnds(k) ELSE ReaderGoes(k, "grant")
    /\ UNCHANGED <<epubFiles, indexes, talks, turns>>

(* A step of building an index fails: an import removes the file it saved, *)
(* and leaves what else it made.                                           *)
indexing_fails(k) ==
    /\ readers[k].pc \in {"collect", "document", "bind"} /\ ReadingCounted
    /\ epubFiles' = IF readers[k].kind = "import" THEN epubFiles \ {readers[k].book} ELSE epubFiles
    /\ ReaderEnds(k)
    /\ UNCHANGED <<books, indexes, talks>>

(***************************************************************************)
(* Conversations.                                                          *)
(***************************************************************************)

LiveSession(s) == sessions[s] # NoSession

\* open_reading_book_conversation: the current one, or the first.
open_conversation(k, b, agent) ==
    /\ ReaderAt(k, "idle") /\ HasBook(b) /\ ReadingCounted
    /\ chosen[b][agent] = NoCurrent
    /\ SetReader(k, [NotReading EXCEPT !.pc = "grant", !.kind = "talk", !.epub = books[b].epub, !.agent = agent, !.book = b])
    /\ UNCHANGED <<library, indexes, talks>>

new_conversation(k, b, agent) ==
    /\ ReaderAt(k, "idle") /\ HasBook(b) /\ ReadingCounted
    /\ SetReader(k, [NotReading EXCEPT !.pc = "index", !.kind = "talk", !.epub = books[b].epub, !.agent = agent, !.book = b])
    /\ UNCHANGED <<library, indexes, talks>>

(* grant_book_agent_access: a book without an index ends the command.      *)
grant_book_agent_access(k) ==
    LET b == readers[k].book IN
    /\ ReaderAt(k, "grant")
    /\ IF books[b].collection = 0 THEN ReaderEnds(k) /\ UNCHANGED members
       ELSE members' = members \cup {<<books[b].collection, readers[k].agent>>} /\ ReaderGoes(k, "session")
    /\ UNCHANGED <<library, collections, talks, turns>>

(* insert_session, create_conversation: the new session is in the history  *)
(* and the current one.                                                    *)
create_conversation(k) ==
    LET b == readers[k].book
        agent == readers[k].agent IN
    /\ ReaderAt(k, "session")
    /\ \E s \in SessionIds :
          /\ ~LiveSession(s) /\ \A t \in SessionIds : t < s => LiveSession(t)
          /\ sessions' = [sessions EXCEPT ![s] = [book |-> b, agent |-> agent]]
          /\ chosen' = [chosen EXCEPT ![b][agent] = s]
    /\ ReaderEnds(k)
    /\ UNCHANGED <<library, indexes, turns>>

select_conversation(b, agent, s) ==
    /\ sessions[s] = [book |-> b, agent |-> agent] /\ ReadingCounted
    /\ chosen' = [chosen EXCEPT ![b][agent] = s]
    /\ UNCHANGED <<library, indexes, sessions, readers>>

(* A deleted session stays in the tables and is not listed.                *)
delete_session(s) ==
    /\ LiveSession(s) /\ ReadingCounted
    /\ sessions' = [sessions EXCEPT ![s] = NoSession]
    /\ chosen' = [b \in Books |-> [a \in Agents |-> IF chosen[b][a] = s THEN NoCurrent ELSE chosen[b][a]]]
    /\ UNCHANGED <<library, indexes, readers>>

(***************************************************************************)
(* What is known of a book, and what other devices tell.                   *)
(***************************************************************************)

update_book_mode(b, knows) ==
    /\ HasBook(b) /\ ReadingCounted /\ books' = [books EXCEPT ![b].knows = knows]
    /\ UNCHANGED <<epubFiles, indexes, talks, readers>>

set_content_context_allowed(b, allowed) ==
    /\ HasBook(b) /\ ReadingCounted /\ books' = [books EXCEPT ![b].allowed = allowed]
    /\ UNCHANGED <<epubFiles, indexes, talks, readers>>

\* mutant
apply_remote_reading_book_Replace(b, e, knows, allowed) ==
    /\ ReadingCounted /\ books[b].epub \in {Nothing, e} /\ (~HasBook(b) => b \notin {readers[k].book : k \in Readers})
    /\ \A other \in Books \ {b} : books[other].epub # e
    /\ books' = [books EXCEPT ![b] = [NoBook EXCEPT !.epub = e, !.knows = knows, !.allowed = allowed]]
    /\ UNCHANGED <<epubFiles, indexes, talks, readers>>

(* apply_remote_reading_book: what this device has of the book is kept; a  *)
(* book with the hash of another is refused, and with it the page.         *)
apply_remote_reading_book(b, e, knows, allowed) ==
    /\ ReadingCounted /\ books[b].epub \in {Nothing, e} /\ (~HasBook(b) => b \notin {readers[k].book : k \in Readers})
    /\ \A other \in Books \ {b} : books[other].epub # e
    /\ books' = [books EXCEPT ![b].epub = e, ![b].knows = knows, ![b].allowed = allowed]
    /\ UNCHANGED <<epubFiles, indexes, talks, readers>>

(***************************************************************************)
(* What a prompt and a search may use.                                     *)
(***************************************************************************)

(* start_agent_run: the collection of the session's book.                  *)
reading_collection(s) ==
    LET book == books[sessions[s].book] IN
    IF ~book.knows /\ book.allowed THEN {book.collection} \ {0} ELSE {}

(* list_collections: those of books are hidden.                            *)
list_collections(agent) ==
    {c \in DOMAIN collections : <<c, agent>> \in members /\ \A b \in Books : books[b].collection # c}

\* retrieve_knowledge_hybrid: the book's collection in its conversation, else
\* one that the agent is shown.
retrieved(s, attached) ==
    {collections[c] : c \in IF attached # 0 THEN {attached} \cap list_collections(sessions[s].agent)
                            ELSE reading_collection(s)} \ {Nothing}

ReadingInit ==
    /\ books = [b \in Books |-> NoBook] /\ epubFiles = {} /\ collections = <<>> /\ members = {}
    /\ sessions = [s \in SessionIds |-> NoSession]
    /\ chosen = [b \in Books |-> [a \in Agents |-> NoCurrent]]
    /\ readers = [k \in Readers |-> NotReading] /\ turns = 0

ReadingNext ==
    \/ \E k \in Readers :
          \/ \E agent \in Agents, e \in Epubs : import_reading_book(k, agent, e)
          \/ save_file(k) \/ attach_file(k) \/ create_collection(k) \/ import_document(k)
          \/ insert_book(k) \/ bind_local_index(k) \/ ensure_local_reading_index(k) \/ indexing_fails(k)
          \/ \E b \in Books, agent \in Agents : open_conversation(k, b, agent) \/ new_conversation(k, b, agent)
          \/ grant_book_agent_access(k) \/ create_conversation(k)
    \/ \E b \in Books, agent \in Agents, s \in SessionIds : select_conversation(b, agent, s)
    \/ \E s \in SessionIds : delete_session(s)
    \/ \E b \in Books, x \in BOOLEAN : update_book_mode(b, x) \/ set_content_context_allowed(b, x)
    \/ \E b \in Books, e \in Epubs, x, y \in BOOLEAN : apply_remote_reading_book(b, e, x, y)

ReadingSpec == ReadingInit /\ [][ReadingNext]_readingVars

(***************************************************************************)
(* Properties.                                                             *)
(***************************************************************************)

\* The state has its type.
ReadingTypeOK ==
    /\ \A b \in Books : books[b].epub \in Epubs \cup {Nothing} /\ books[b].collection \in CollectionIds \cup {0}
    /\ epubFiles \subseteq Books /\ members \subseteq CollectionIds \X Agents
    /\ \A s \in SessionIds : sessions[s].book \in Books \cup {Nothing}

\* However imports of one file and announcements of other devices meet, there is
\* one book for it, and the index of a book holds that book.
OneBookPerEpub ==
    /\ \A b, other \in Books : HasBook(b) /\ books[b].epub = books[other].epub => b = other
    /\ \A b \in Books : books[b].collection # 0 => collections[books[b].collection] = books[b].epub

\* The text of a book reaches a prompt only in a conversation about that book,
\* only while the user allows it and has not said that the model knows the book.
TextByConsent ==
    \A s \in SessionIds : LiveSession(s) =>
        \A e \in retrieved(s, 0) :
            LET book == books[sessions[s].book] IN
            e = book.epub /\ book.allowed /\ ~book.knows

\* The index that a bound book has here survives the changes that other devices
\* make to it.
IndexKept ==
    \A s \in SessionIds : LiveSession(s) => books[sessions[s].book].collection # 0

\* The current conversation of an agent about a book is one of theirs.
CurrentIsListed ==
    \A b \in Books, a \in Agents :
        chosen[b][a] # NoCurrent => sessions[chosen[b][a]] = [book |-> b, agent |-> a]

ReadingSafe == ReadingTypeOK /\ OneBookPerEpub /\ TextByConsent /\ IndexKept /\ CurrentIsListed

=============================================================================
