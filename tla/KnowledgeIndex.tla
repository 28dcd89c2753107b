--------------------------- MODULE KnowledgeIndex ---------------------------
(***************************************************************************)
(* Documents of a knowledge collection, their versions, chunks and vectors *)
(* (db/repo/knowledge.rs), the command that computes missing vectors       *)
(* (embeddings.rs), packages with a version's chunks and vectors, built    *)
(* here and installed from other devices in any order                      *)
(* (sync/knowledge_artifact.rs), and the search that fuses both indexes    *)
(* (commands/mod.rs).  Every version has the same number of chunks; the    *)
(* text of a chunk is told by the content of its version.  Memories and    *)
(* their vectors are MemoryVectors: the table of embedding_items is shared.*)
(***************************************************************************)
EXTENDS MemoryVectors, FiniteSetsExt

CONSTANTS Local,        \* documents imported from a file of this device
          Foreign,      \* documents that arrive in packages only
          Chunks,
          MaxVersions,  \* bound: versions of a document
          MaxIndexed    \* bound: imports, packages and vector jobs

ASSUME IndexAssumption ==
    /\ Local \cap Foreign = {} /\ MaxVersions \in Nat
    /\ "none" \notin Models /\ "absent" \notin Contents

VARIABLES currentVersion,  \* documents.current_version_id, as the number of the version
          versions,        \* document_versions: the content by document and logical version
          chunkVectors,    \* embedding_items with their vectors, by version and chunk
          packages,        \* artifacts that exist, built here or elsewhere
          indexJob,        \* vectorize_knowledge
          indexed

indexVars == <<currentVersion, versions, chunkVectors, packages, indexJob, indexed>>

Docs == Local \cup Foreign
VersionNumbers == 1 .. MaxVersions
ChunkIds == Docs \X VersionNumbers \X Chunks
NoText == "absent"
NoChunkVector == [model |-> "none", of |-> NoText]
NoVectors == [c \in Chunks |-> NoChunkVector]
NotIndexing == [pc |-> "idle", model |-> "none", batch |-> {}]

Known(d) == {n \in VersionNumbers : versions[d][n] # NoText}
IsCurrent(d, n) == currentVersion[d] = n /\ n # 0

\* Of a chunk <<d, n, c>>: is its version the current one, and its vector.
IsServed(chunk) == IsCurrent(chunk[1], chunk[2])
VectorOf(chunk) == chunkVectors[chunk[1]][chunk[2]][chunk[3]]
UpToDate(chunk, model) == [model |-> model, of |-> versions[chunk[1]][chunk[2]]]

IndexCounted == indexed < MaxIndexed /\ indexed' = indexed + 1

(***************************************************************************)
(* Importing a file: import_local_document.  The same content, or the same *)
(* parser's reading of it, is no new version.                              *)
(***************************************************************************)

import_local_document(d, content) ==
    LET next == Max(Known(d) \cup {0}) + 1 IN
    /\ IndexCounted
    /\ IF currentVersion[d] # 0 /\ versions[d][currentVersion[d]] = content
       THEN UNCHANGED <<currentVersion, versions, chunkVectors>>
       ELSE /\ next \in VersionNumbers
            /\ versions' = [versions EXCEPT ![d][next] = content]
            /\ chunkVectors' = [chunkVectors EXCEPT ![d][next] = NoVectors]
            /\ currentVersion' = [currentVersion EXCEPT ![d] = next]
    /\ UNCHANGED <<packages, indexJob>>

(***************************************************************************)
(* Vectors.                                                                *)
(***************************************************************************)

\* mutant
chunks_needing_embeddings_None(model) ==
    {chunk \in ChunkIds : IsServed(chunk) /\ VectorOf(chunk) = NoChunkVector}

\* Chunks of current versions without a vector of the model.
chunks_needing_embeddings(model) ==
    {chunk \in ChunkIds : IsServed(chunk) /\ VectorOf(chunk) # UpToDate(chunk, model)}

begin_vectorize_knowledge(model) ==
    /\ indexJob.pc = "idle" /\ IndexCounted /\ indexJob' = [NotIndexing EXCEPT !.pc = "listing", !.model = model]
    /\ UNCHANGED <<currentVersion, versions, chunkVectors, packages>>

(* ensure_knowledge_index: until nothing is missing; an answer that does   *)
(* not come ends the command.                                              *)
list_missing ==
    /\ indexJob.pc = "listing"
    /\ LET missing == chunks_needing_embeddings(indexJob.model) IN
       \/ missing = {} /\ indexJob' = NotIndexing
       \/ missing # {} /\ indexJob' = [indexJob EXCEPT !.pc = "storing", !.batch = missing]
       \/ missing # {} /\ indexJob' = NotIndexing
    /\ UNCHANGED <<currentVersion, versions, chunkVectors, packages, indexed>>

(* upsert_chunk_embedding: replaces the chunk's vectors, of whatever model,*)
(* unless its version was superseded.                                      *)
upsert_chunk_embedding(chunk, model) ==
    IF IsServed(chunk)
    THEN chunkVectors' = [chunkVectors EXCEPT ![chunk[1]][chunk[2]][chunk[3]] = UpToDate(chunk, model)]
    ELSE UNCHANGED chunkVectors

store_chunk_vector ==
    /\ indexJob.pc = "storing" /\ indexJob.batch # {}
    /\ \E chunk \in indexJob.batch :
          /\ upsert_chunk_embedding(chunk, indexJob.model)
          /\ indexJob' = [indexJob EXCEPT !.batch = @ \ {chunk}]
    /\ UNCHANGED <<currentVersion, versions, packages, indexed>>

next_index_round ==
    /\ indexJob.pc = "storing" /\ indexJob.batch = {} /\ indexJob' = [indexJob EXCEPT !.pc = "listing"]
    /\ UNCHANGED <<currentVersion, versions, chunkVectors, packages, indexed>>

(* ensure_vector_table, of MemoryVectors: with a memory table without      *)
(* partitions all items of its dimension are deleted, those of chunks too. *)
forget_chunk_vectors ==
    /\ legacy /\ ~legacy'
    /\ chunkVectors' = [d \in Docs |-> [n \in VersionNumbers |-> NoVectors]]
    /\ UNCHANGED <<currentVersion, versions, packages, indexJob, indexed>>

(***************************************************************************)
(* Packages.                                                               *)
(***************************************************************************)

(* export_artifact_snapshot: a current version, all of whose chunks have a *)
(* vector of the first chunk's model.                                      *)
Exportable(d, n) ==
    /\ IsCurrent(d, n)
    /\ \E model \in Models : \A c \in Chunks : chunkVectors[d][n][c].model = model

PackageOf(d, n, content, vs) == [doc |-> d, number |-> n, content |-> content, vectors |-> vs]

publish_knowledge_artifact(d) ==
    /\ Exportable(d, currentVersion[d]) /\ IndexCounted
    /\ LET n == currentVersion[d] IN
       packages' = packages \cup {PackageOf(d, n, versions[d][n], chunkVectors[d][n])}
    /\ UNCHANGED <<currentVersion, versions, chunkVectors, indexJob>>

\* Another device publishes a version of its document.
publish_elsewhere(d, n, content, model) ==
    /\ d \in Foreign /\ IndexCounted
    /\ \A p \in packages : p.doc = d /\ p.number = n => p.content = content
    /\ packages' = packages \cup
           {PackageOf(d, n, content, [c \in Chunks |-> [model |-> model, of |-> content]])}
    /\ UNCHANGED <<currentVersion, versions, chunkVectors, indexJob>>

(* An older version does not become current.                               *)
Supersedes(d, n) == currentVersion[d] <= n

(* import_artifact_snapshot: chunks and vectors of the version are         *)
(* replaced; a version that is known with another content is refused.      *)
import_artifact_snapshot(p) ==
    /\ IndexCounted
    /\ versions[p.doc][p.number] \in {NoText, p.content}
    /\ versions' = [versions EXCEPT ![p.doc][p.number] = p.content]
    /\ chunkVectors' = [chunkVectors EXCEPT ![p.doc][p.number] = p.vectors]
    /\ currentVersion' = [currentVersion EXCEPT ![p.doc] = IF Supersedes(p.doc, p.number) THEN p.number ELSE @]
    /\ UNCHANGED <<packages, indexJob>>

(***************************************************************************)
(* Searching: what both indexes may return, in no order.                   *)
(***************************************************************************)

(* search: the text index keeps the chunks of old versions, too.           *)
search == {chunk \in ChunkIds : chunk[2] \in Known(chunk[1]) /\ IsServed(chunk)}

(* search_vector: the partition of the query's model, joined to current    *)
(* versions.                                                               *)
search_chunk_vector(model) == {chunk \in ChunkIds : IsServed(chunk) /\ VectorOf(chunk).model = model}

(* retrieve_knowledge_hybrid: text and, when the query has a vector, the   *)
(* vectors of its model.                                                   *)
retrieve_knowledge_hybrid(model) == search \cup search_chunk_vector(model)

IndexInit ==
    /\ currentVersion = [d \in Docs |-> 0] /\ versions = [d \in Docs |-> [n \in VersionNumbers |-> NoText]]
    /\ chunkVectors = [d \in Docs |-> [n \in VersionNumbers |-> NoVectors]]
    /\ packages = {} /\ indexJob = NotIndexing /\ indexed = 0

IndexNext ==
    \/ \E d \in Local, content \in Contents : import_local_document(d, content)
    \/ \E d \in Foreign, n \in VersionNumbers, content \in Contents, model \in Models :
          publish_elsewhere(d, n, content, model)
    \/ \E d \in Docs : currentVersion[d] # 0 /\ publish_knowledge_artifact(d)
    \/ \E p \in packages : import_artifact_snapshot(p)
    \/ \E model \in Models : begin_vectorize_knowledge(model)
    \/ list_missing \/ store_chunk_vector \/ next_index_round

IndexSpec ==
    IndexInit /\ [][IF legacy' = legacy THEN IndexNext ELSE forget_chunk_vectors]_<<legacy, indexVars>>

(***************************************************************************)
(* Properties.                                                             *)
(***************************************************************************)

\* The state has its type.
IndexTypeOK ==
    /\ \A d \in Docs : currentVersion[d] \in Known(d) \cup {0}
    /\ indexJob.pc \in {"idle", "listing", "storing"}

\* In whatever order packages arrive, and whatever is imported meanwhile, the
\* newest version that the device has seen is the current one.
NewestIsCurrent == \A d \in Docs : \A n \in Known(d) : n <= currentVersion[d]

\* A package is a whole version: one vector per chunk, all of one model and of
\* the version's own text, although vectors are replaced chunk by chunk.
PackagesWhole ==
    \A p \in packages :
        \E model \in Models : \A c \in Chunks : p.vectors[c] = [model |-> model, of |-> p.content]

\* A search returns chunks of current versions only, however late the vectors
\* and packages of older versions came, and all of them by their text.
SearchIsCurrent ==
    \A model \in Models :
        /\ \A hit \in retrieve_knowledge_hybrid(model) : \A n \in Known(hit[1]) : n <= hit[2]
        /\ \A d \in Docs, c \in Chunks : currentVersion[d] # 0 =>
              <<d, currentVersion[d], c>> \in retrieve_knowledge_hybrid(model)

IndexSafe == IndexTypeOK /\ NewestIsCurrent /\ PackagesWhole /\ SearchIsCurrent
=============================================================================
