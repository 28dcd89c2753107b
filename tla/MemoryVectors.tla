---------------------------- MODULE MemoryVectors ----------------------------
(***************************************************************************)
(* Structured memories and their vectors (db/repo/memory.rs,               *)
(* embeddings.rs, tools/builtin/memory_*.rs).  A vector is asked of the    *)
(* sidecar and stored later, under a memory that the user, the agent's     *)
(* tools and synchronisation may have changed meanwhile; search_vector     *)
(* joins vectors to memories by the memory's id.  A vector is represented  *)
(* by the content it was computed from; all are of one dimension, so that  *)
(* there is one vector table.                                              *)
(***************************************************************************)
EXTENDS Naturals, FiniteSets

CONSTANTS Memories, Contents, Models,
          VectorIds,   \* bound: ids of embedding_items, reused when forgotten
          MaxRecalls   \* bound: writes of memories

ASSUME RecallAssumption == "none" \notin VectorIds \cup Contents

VARIABLES memories, \* memory_store
          vectors,  \* embedding_items with their row of the vector table
          legacy,   \* is the vector table one without partitions?
          asking,   \* vectorize_memories
          tool,     \* memory_create or memory_update
          overtaken,\* was a memory written between the tool's write and its reading back?
          writes

recallVars == <<memories, vectors, legacy, asking, tool, overtaken, writes>>

NoVectorId == "none"
NoMemory == [status |-> "none", content |-> "none", vector |-> NoVectorId]
NoVector == [ref |-> "none", model |-> "none", from |-> "none", claims |-> "none"]
NoTool == [pc |-> "idle", ref |-> "none", content |-> "none", embedded |-> "none"]
NotAsking == [pc |-> "idle", model |-> "none", batch |-> {}, answered |-> FALSE]

Active(m) == memories[m].status = "active"
StoredVectors == {v \in VectorIds : vectors[v] # NoVector}
Fresh == {v \in VectorIds \ StoredVectors : \A m \in Memories : memories[m].vector # v}

MemoryWritten == writes < MaxRecalls /\ writes' = writes + 1

(* delete_embedding_by_id                                                  *)
delete_embedding(vs, v) == [u \in VectorIds |-> IF u = v THEN NoVector ELSE vs[u]]

(* Another write of the memory that a tool has written and not read back.  *)
Overtake(m) == overtaken' = (overtaken \/ (tool.pc = "written" /\ tool.ref = m))

(***************************************************************************)
(* Writes of memories.                                                     *)
(***************************************************************************)

Duplicate(c) == \E m \in Memories : Active(m) /\ memories[m].content = c

(* insert: an exact duplicate is refused.                                  *)
insert(m, c) ==
    /\ memories[m] = NoMemory /\ ~Duplicate(c)
    /\ memories' = [memories EXCEPT ![m] = [status |-> "active", content |-> c, vector |-> NoVectorId]]
    /\ UNCHANGED vectors

\* mutant
update_Keep(m, c) ==
    /\ Active(m) /\ memories' = [memories EXCEPT ![m].content = c] /\ UNCHANGED vectors

(* update: the vector of another content is deleted with it.               *)
update(m, c) ==
    /\ Active(m)
    /\ IF memories[m].content = c THEN UNCHANGED <<memories, vectors>>
       ELSE /\ memories' = [memories EXCEPT ![m].content = c, ![m].vector = NoVectorId]
            /\ vectors' = delete_embedding(vectors, memories[m].vector)

create_memory(m, c) == insert(m, c) /\ MemoryWritten /\ Overtake(m) /\ UNCHANGED <<legacy, asking, tool>>
update_memory(m, c) == update(m, c) /\ MemoryWritten /\ Overtake(m) /\ UNCHANGED <<legacy, asking, tool>>

(* delete: the row keeps the id of the vector that goes with it.           *)
delete_memory(m) ==
    /\ Active(m) /\ MemoryWritten /\ Overtake(m)
    /\ memories' = [memories EXCEPT ![m].status = "deleted"]
    /\ vectors' = delete_embedding(vectors, memories[m].vector)
    /\ UNCHANGED <<legacy, asking, tool>>

(* apply_remote_memory: another device's content, also for a deleted row.  *)
apply_remote_memory(m, c) ==
    LET same == memories[m].content = c IN
    /\ MemoryWritten /\ Overtake(m)
    /\ memories' = [memories EXCEPT ![m] = [status |-> "active", content |-> c,
                                      vector |-> IF same THEN @.vector ELSE NoVectorId]]
    /\ vectors' = IF same THEN vectors ELSE delete_embedding(vectors, memories[m].vector)
    /\ UNCHANGED <<legacy, asking, tool>>

apply_remote_delete(m) ==
    /\ memories[m] # NoMemory /\ MemoryWritten /\ Overtake(m)
    /\ memories' = [memories EXCEPT ![m].status = "deleted", ![m].vector = NoVectorId]
    /\ vectors' = delete_embedding(vectors, memories[m].vector)
    /\ UNCHANGED <<legacy, asking, tool>>

(***************************************************************************)
(* Storing a vector.                                                       *)
(***************************************************************************)

(* ensure_vector_table: a table without partitions is dropped, and all     *)
(* vectors with it.                                                        *)
TableKept(st) == IF legacy THEN [m \in Memories |-> [st[m] EXCEPT !.vector = NoVectorId]] ELSE st
VectorsKept(vs) == IF legacy THEN [v \in VectorIds |-> NoVector] ELSE vs

(* The memory still has the content the vector was asked for.              *)
Current(m, content) == Active(m) /\ memories[m].content = content

(* upsert_memory_embedding: a vector that comes too late is not stored.    *)
upsert_memory_embedding(m, model, content, from) ==
    IF Current(m, content)
    THEN \E v \in Fresh :
            /\ vectors' = [VectorsKept(delete_embedding(vectors, memories[m].vector)) EXCEPT
                              ![v] = [ref |-> m, model |-> model, from |-> from, claims |-> content]]
            /\ memories' = [TableKept(memories) EXCEPT ![m].vector = v]
            /\ legacy' = FALSE
    ELSE UNCHANGED <<memories, vectors, legacy>>

(***************************************************************************)
(* vectorize_memories: ensure_agent_memory_index.                          *)
(***************************************************************************)

(* Memories without a vector of this model and of their content.  A vector *)
(* that is gone is no vector.                                              *)
Stale(model) ==
    {m \in Memories : Active(m) /\
        LET v == memories[m].vector IN
        v \notin StoredVectors \/ vectors[v].model # model \/ vectors[v].claims # memories[m].content}

begin_vectorize(model) ==
    /\ asking.pc = "idle" /\ asking' = [NotAsking EXCEPT !.pc = "listing", !.model = model]
    /\ UNCHANGED <<memories, vectors, legacy, tool, overtaken, writes>>

list_stale ==
    /\ asking.pc = "listing"
    /\ asking' = IF Stale(asking.model) = {} THEN [asking EXCEPT !.pc = "done"]
              ELSE [asking EXCEPT !.pc = "asked",
                               !.batch = {[ref |-> m, content |-> memories[m].content] : m \in Stale(asking.model)}]
    /\ UNCHANGED <<memories, vectors, legacy, tool, overtaken, writes>>

(* request_embeddings: one answer with a vector per memory, or an error    *)
(* (a timeout, a lost sidecar) that ends the command.                      *)
request_embeddings ==
    /\ asking.pc = "asked"
    /\ \/ asking' = [asking EXCEPT !.pc = "storing"]
       \/ asking' = NotAsking
    /\ UNCHANGED <<memories, vectors, legacy, tool, overtaken, writes>>

store_vector ==
    /\ asking.pc = "storing" /\ asking.batch # {}
    /\ LET item == CHOOSE i \in asking.batch : TRUE IN
       /\ upsert_memory_embedding(item.ref, asking.model, item.content, item.content)
       /\ asking' = [asking EXCEPT !.batch = @ \ {item}]
    /\ UNCHANGED <<tool, overtaken, writes>>

next_round ==
    /\ asking.pc = "storing" /\ asking.batch = {} /\ asking' = [asking EXCEPT !.pc = "listing"]
    /\ UNCHANGED <<memories, vectors, legacy, tool, overtaken, writes>>

\* agent_memory_index_status, and the answer to the user.
vectorize_ends ==
    /\ asking.pc = "done" /\ asking' = NotAsking
    /\ UNCHANGED <<memories, vectors, legacy, tool, overtaken, writes>>

(***************************************************************************)
(* The tools, with the vector the sidecar attached to the call: of the     *)
(* content argument, which an update may leave out.                        *)
(***************************************************************************)

memory_create(m, c) ==
    /\ tool.pc = "idle" /\ insert(m, c) /\ MemoryWritten
    /\ tool' = [pc |-> "written", ref |-> m, content |-> c, embedded |-> c]
    /\ UNCHANGED <<legacy, asking, overtaken>>

(* memory_update reads the memory to fill in what the call leaves out.     *)
memory_update(m, c) ==
    /\ tool.pc = "idle" /\ Active(m)
    /\ tool' = [pc |-> "read", ref |-> m, content |-> c, embedded |-> c]
    /\ UNCHANGED <<memories, vectors, legacy, asking, overtaken, writes>>

memory_update_name(m) ==
    /\ tool.pc = "idle" /\ Active(m)
    /\ tool' = [pc |-> "read", ref |-> m, content |-> memories[m].content, embedded |-> "none"]
    /\ UNCHANGED <<memories, vectors, legacy, asking, overtaken, writes>>

memory_update_write ==
    /\ tool.pc = "read"
    /\ IF Active(tool.ref)
       THEN update(tool.ref, tool.content) /\ MemoryWritten /\ tool' = [tool EXCEPT !.pc = "written"]
       ELSE UNCHANGED <<memories, vectors, writes>> /\ tool' = NoTool
    /\ UNCHANGED <<legacy, asking, overtaken>>

(* The memory is read back: what it says now is what the vector is for.    *)
read_back ==
    /\ tool.pc = "written"
    /\ tool' = IF Active(tool.ref) THEN [tool EXCEPT !.pc = "back", !.content = memories[tool.ref].content] ELSE NoTool
    /\ UNCHANGED <<memories, vectors, legacy, asking, overtaken, writes>>

persist_trusted_embedding ==
    /\ tool.pc = "back" /\ tool' = NoTool
    /\ \/ /\ tool.embedded # "none"
          /\ \E model \in Models : upsert_memory_embedding(tool.ref, model, tool.content, tool.embedded)
       \/ UNCHANGED <<memories, vectors, legacy>>   \* no embedding model, or the sidecar failed
    /\ UNCHANGED <<asking, overtaken, writes>>

(***************************************************************************)
(* Searching.                                                              *)
(***************************************************************************)

(* search_vector: the rows of the model, joined to active memories.  The   *)
(* query of a table without partitions fails: only the text is searched.   *)
search_vector(model) ==
    {vectors[v] : v \in {u \in StoredVectors : ~legacy /\ vectors[u].model = model /\ Active(vectors[u].ref)}}

(* The vectors of an earlier version may be in a table without partitions. *)
RecallInit ==
    /\ \/ memories = [m \in Memories |-> NoMemory] /\ vectors = [v \in VectorIds |-> NoVector] /\ legacy = FALSE
       \/ \E m \in Memories, v \in VectorIds, model \in Models, c \in Contents :
             /\ memories = [k \in Memories |-> IF k = m THEN [status |-> "active", content |-> c, vector |-> v]
                                            ELSE NoMemory]
             /\ vectors = [u \in VectorIds |-> IF u = v
                              THEN [ref |-> m, model |-> model, from |-> c, claims |-> c] ELSE NoVector]
             /\ legacy = TRUE
    /\ asking = NotAsking /\ tool = NoTool /\ overtaken = FALSE /\ writes = 0

RecallNext ==
    \/ \E m \in Memories, c \in Contents :
          \/ create_memory(m, c) \/ update_memory(m, c) \/ apply_remote_memory(m, c)
          \/ memory_create(m, c) \/ memory_update(m, c)
    \/ \E m \in Memories : delete_memory(m) \/ apply_remote_delete(m) \/ memory_update_name(m)
    \/ \E model \in Models : begin_vectorize(model)
    \/ list_stale \/ request_embeddings \/ store_vector \/ next_round \/ vectorize_ends
    \/ memory_update_write \/ read_back \/ persist_trusted_embedding

RecallSpec == RecallInit /\ [][RecallNext]_recallVars

(***************************************************************************)
(* Properties.                                                             *)
(***************************************************************************)

\* The state has its type.
RecallTypeOK ==
    /\ \A m \in Memories : memories[m].vector \in VectorIds \cup {NoVectorId}
    /\ asking.pc \in {"idle", "listing", "asked", "storing", "done"}
    /\ tool.pc \in {"idle", "read", "written", "back"}

\* A search by meaning compares the query with what a memory says now, never
\* with an earlier content or with a memory that is deleted, and meets each
\* memory once, whatever is written while vectors are computed.  Excluded is
\* a memory tool whose memory is written again before it is read back.
SearchIsTrue ==
    ~overtaken =>
    /\ \A model \in Models : \A hit \in search_vector(model) :
          hit.from = memories[hit.ref].content /\ Active(hit.ref) /\ hit.model = model
    /\ \A u, v \in StoredVectors : vectors[u].ref = vectors[v].ref => u = v

\* No vector outlives its memory's pointer to it: nothing would delete it.
NoOrphanVectors == \A v \in StoredVectors : memories[vectors[v].ref].vector = v
=============================================================================
