----------------------------- MODULE MCLibrary -----------------------------
(***************************************************************************)
(* What the application keeps for its agents, for TLC: a conversation, the *)
(* memories and their vectors, the two memory documents, the knowledge     *)
(* base with its imports, the parser's package, and books.  Each part is   *)
(* explored by itself; memories and the knowledge base meet in the table   *)
(* of vectors, so the knowledge base also runs beside a command that       *)
(* vectorizes the memory of a database of an earlier version.              *)
(***************************************************************************)
EXTENDS TLC, ExplicitMemories, DocumentImport, Reading

CONSTANTS Parts,
          MaxMessages, Requests, MaxCommands

ASSUME RecallBounds == RecallAssumption
ASSUME ReadingBounds == ReadingAssumption

ASSUME KnowledgeBounds == ChunkingAssumption /\ IndexAssumption /\ ImportAssumption

VARIABLES part,
          msgs, session, queued, queuedSession, reqs, runs, causes, renamed, commands

Talk == INSTANCE Conversation

talkVars == <<msgs, session, queued, queuedSession, reqs, runs, causes, renamed, commands>>
memoryVars == <<recallVars, explicitVars>>
knowledgeVars == <<chunkingVars, indexVars, importVars, packageVars>>
libraryVars == <<talkVars, memoryVars, knowledgeVars, readingVars>>

\* One of the databases of an earlier version (they differ in names only), and
\* the command on its memory, whose first steps meet nothing of the knowledge
\* base and so come before its steps.
OneMemory ==
    \A v \in StoredVectors :
        /\ v = CHOOSE u \in VectorIds : TRUE
        /\ vectors[v].ref = (CHOOSE m \in Memories : TRUE) /\ vectors[v].from = CHOOSE c \in Contents : TRUE
        /\ vectors[v].model = CHOOSE model \in Models : TRUE

vectorize ==
    \/ indexed = 0 /\ \E model \in Models : Stale(model) # {} /\ begin_vectorize(model)
    \/ list_stale \/ request_embeddings \/ store_vector

\* With such a command the knowledge base takes one step less than MaxIndexed.
Short == (\E m \in Memories : memories[m] # NoMemory) => indexed' < MaxIndexed

MCInit ==
    /\ part \in Parts
    /\ part # "talk" => session = [title |-> "automatic", root |-> 0, summary |-> {}]
    /\ part \notin {"recall", "index"} => legacy = FALSE
    /\ part # "explicit" => views = [k \in {"user_md", "memory_md"} |-> {}]
    /\ part # "import" => source = "disk" /\ file = CHOOSE c \in Contents : TRUE
    /\ part # "chunks" => paragraphs = <<[length |-> 1, heading |-> FALSE]>>
    /\ Talk!Init /\ RecallInit /\ ExplicitInit /\ ChunkingInit /\ IndexInit /\ ImportInit /\ PackageInit /\ ReadingInit
    /\ legacy => OneMemory

MCNext ==
    /\ UNCHANGED part
    /\ \/ part = "talk" /\ Talk!Next /\ UNCHANGED <<memoryVars, knowledgeVars, readingVars>>
       \/ part = "recall" /\ RecallNext /\ (IF legacy' = legacy THEN UNCHANGED indexVars ELSE forget_chunk_vectors)
          /\ UNCHANGED <<talkVars, explicitVars, chunkingVars, importVars, packageVars, readingVars>>
       \/ part = "explicit" /\ ExplicitNext /\ UNCHANGED <<talkVars, recallVars, knowledgeVars, readingVars>>
       \/ part = "chunks" /\ ChunkingNext
          /\ UNCHANGED <<talkVars, memoryVars, indexVars, importVars, packageVars, readingVars>>
       \/ part = "index" /\ IndexNext /\ asking.pc \in {"idle", "storing"} /\ Short
          /\ UNCHANGED <<talkVars, memoryVars, chunkingVars, importVars, packageVars, readingVars>>
       \/ part = "index" /\ legacy /\ vectorize /\ (IF legacy' = legacy THEN UNCHANGED indexVars ELSE forget_chunk_vectors)
          /\ UNCHANGED <<talkVars, explicitVars, chunkingVars, importVars, packageVars, readingVars>>
       \/ part = "import" /\ ImportNext
          /\ UNCHANGED <<talkVars, memoryVars, chunkingVars, indexVars, packageVars, readingVars>>
       \/ part = "package" /\ PackageNext
          /\ UNCHANGED <<talkVars, memoryVars, chunkingVars, indexVars, importVars, readingVars>>
       \/ part = "reading" /\ ReadingNext /\ UNCHANGED <<talkVars, memoryVars, knowledgeVars>>

MCSpec == MCInit /\ [][MCNext]_<<part, libraryVars>>

\* The slots of commands in flight are interchangeable.
SlotSymmetry == Permutations(Requests)

\* Projections of messages and of the session are current, a pending answer is
\* served by a run or a restart, branches share nothing but their ancestors, and
\* a summary forgets what was rejected (see Conversation).
ConversationSafe == part = "talk" =>
    /\ Talk!TypeOK
    /\ Talk!ProjectionCurrent /\ Talk!PendingIsServed /\ Talk!BranchIsolated /\ Talk!RejectedForgotten
=============================================================================
