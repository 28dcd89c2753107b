# Agnes: a TLA+ verification project

Agnes is a desktop conversation agent: a Tauri core in Rust with a SQLite database, a
React front end, and a Python sidecar that runs the agent graph. A user's devices
exchange their data, end-to-end encrypted, through a Cloudflare Worker over a D1 database
and an R2 bucket. This directory models the parts of it whose correctness rests on
interleaving, failure and order: the synchronisation of devices, the life of an agent
run, transfers and accounts of cloud drives, and the repositories that several commands
change at a time. Paths below are relative to the repository; `db/`, `sync/`, `agent/`,
`storage/`, `tools/` and `commands/` are below `src-tauri/src/`, `routes/` below
`workers/sync-api/src/`.

1. [The system](#1-the-system)
2. [The modules and the code](#2-the-modules-and-the-code)
3. [The runs](#3-the-runs)
4. [What is proved](#4-what-is-proved)
5. [What the runs found](#5-what-the-runs-found)
6. [Deviations without a run](#6-deviations-without-a-run)
7. [Not modelled](#7-not-modelled)
8. [Plan](#8-plan)

## 1. The system

| Component | State it keeps | Operations | What must be true of it |
|---|---|---|---|
| Gateway, changes (`routes/sync.ts`) | `sync_changes` in the order of `server_seq`; `sync_entities`, the latest row per entity; `sync_acks` per device | push, bootstrap, pull, ack | every change continues the latest revision of its entity; both tables tell one story; a reply never reports what is not stored |
| Gateway, objects (`routes/objects.ts`) | manifests, replicas, upload sessions, object changes, states per device, R2 objects | create, part, complete, abort, expire, collect | the current artifact of an object is available; a version once published stays |
| Gateway, devices (`routes/pairing.ts`, `routes/devices.ts`) | pairing sessions, registered and revoked devices | create, join, approve, finalize, revoke | a lost answer can be asked for again |
| Device data (`db/repo/sync.rs`, `sync/merge.rs`) | `sync_outbox`, `sync_entity_state`, `sync_conflicts`, `last_pull_cursor`, `bootstrap_state`, the business rows | enqueue, claim, apply a push result, apply a page, merge, resolve a conflict, recover rows in flight | no edit is lost unless the user gives it up or, in a session, a later edit of the same field does; the books agree with the gateway's log; the cursor passes over nothing |
| Sync engine (`sync/engine.rs`, `sync/replication.rs`) | the run in progress, keyset and credential in the key ring | bootstrap, push, pull, ack; objects; setup, rotation, recovery, pairing | whatever is interrupted is taken up again; no key that sealed a change is lost |
| Agent host (`commands/mod.rs`, `agent/manager.rs`, `agent/ws_server.rs`) | five registries of `AgentManager`, `active_runs` of the WebSocket loop, `messages.status` | `send_message`, `cancel_run`, `approve_tool`, one handler per frame, a task per tool call, clean-up on disconnect, recovery at start | stop stops; text is stored in the message it belongs to; every message gets one final status |
| Sidecar (`agent/app/main.py`, `graph.py`) | one asyncio task per run, futures of tool calls | run, cancel, tool result | every run is reported finished or failed |
| Tools (`tools/`) | terminals with processes and reader threads; files of a workspace | shell, write_stdin, stop, apply_patch, file_edit, file_write | output is told once; no process of a terminal's group outlives its run; a file tool changes what it was meant to |
| Storage service (`storage/`) | accounts with a row and a key ring entry, transfer jobs, partial and installed files | authorize, remove, refresh, download, import, upload, download a folder | a grant is not lost to a late write; a file is replaced whole or not at all; every end is reported |
| Conversation, memory, knowledge, reading (`db/repo/`, `commands/mod.rs`, `embeddings.rs`) | message tree, memories and documents with chunks and vectors, books | send, edit, regenerate, switch, delete; vectorize; import; search | searches find what is stored now; what was rejected or deleted is not used |
| Planner and notifications (`db/repo/planner.rs`, `notifications.rs`) | tasks, events, exceptions, inbox | complete, reopen, reschedule, move, cancel; scan | instances stay on their rule; what is due is shown once |
| Database actor and migrations (`db/actor.rs`, `db/migrations.rs`) | the SQLite connection | one command at a time on one thread; the statements of a start | a command is atomic (used by every module); an upgrade interrupted anywhere completes |

How they interact: every synchronised write of a repository appends to the outbox in the
same transaction (`enqueue_projection`). A change wakes the engine after 750 ms, a timer
after 60 s; the engine calls the gateway over HTTP and applies replies through the
database actor. Commands, the WebSocket loop and the tool tasks of the agent host share
the registries of `AgentManager`, each behind a lock of its own, and talk to the sidecar
through one channel and one socket. Storage commands run in tasks of their own and share
the key ring and the account table.

What is hard: concurrent and retried pushes inside a Worker that awaits the database
three times per request; pages of a bootstrap cut from a live table; lost and late
replies; a crash between any two transactions; edits by the user at any of these points;
on the agent side five registries that are written and read without a common lock by four
kinds of tasks; and commands that read, await for seconds and write what they computed.
`PROJECT.json` lists these hazards at their lines, with the property that watches each.

## 2. The modules and the code

### Gateway and devices

`SyncLog` is what the gateway promises: an append-only log in which no change id occurs
twice and each change was built on the latest revision of its entity. `SyncPush` is the
handler `push` in full, with everything it may interleave with. A slot is an invocation.
`selectExistingChanges`, `selectEntityStates` and the statements of the batch are separate
actions, because the handler awaits the database between them. The transaction has its
own copy of the two tables (`txLog`, `txRow`): a pair of statements either stores the
change (`insertChange`: the compare-and-set on the row, the insert selected from it, the
trigger that sets `latest_server_seq`), stores nothing because the comparison failed
(`insertNothing`), or violates the unique index (`uniqueViolation`), which rolls
everything back. `commitBatch` makes the copies the tables. `crash` is any other failure,
at any point. NULL base revisions and absent rows are revision 0; `content` stands for all
columns `matchesExisting` compares. D1's batch semantics (serialised, all or nothing) are
external and modelled from how the handler uses them.

`SyncReplica` is the reading side: bootstrap, pull and ack of the gateway with
`run_bootstrap`, `pull_remote`, `ack_cursor` and the transactions `apply_bootstrap_page`
and `apply_pull_page`. The device of this module makes no edits. The snapshot cursor and
the page query of a bootstrap are two reads; the entities form a chain of foreign keys
(message, session, agent); the bootstrap state is persisted; an ack the device gave up on
stays under way. `Fault` is a lost request, a lost reply or a crash: all three end the run
and keep the database.

`SyncDevice` is the writing side: a device that edits, pushes, pulls, meets conflicts and
resolves them, against a gateway whose push is one step. A payload is the set of edits it
takes account of, so that losing an edit is visible as a missing element; a merge is the
three-way merge of these sets, or fails when both sides set one field. In `Sessions` it does
not fail: the fields of `SESSION_HLC_FIELDS` that both sides set go to the later stamp, and
the edits of the other side are given up (`Outvoted`; which fields clash and which stamp is
later is not told apart, so that every choice of one side's edits is possible). They count
as given up for good (`waived`), as if the user had decided. The races of
`SyncPush` that a device can notice are kept: a request may be handled long after it was
given up (`requests`), and with `Races` another push may overtake it between its reads and
its batch (`Missable`, `Raced`). Pages of a pull hold one change, which allows more
interruptions than longer pages. `Bulky` and `BulkLimit` are the request limit of 256 KiB.
Backoff is dropped (a row may be retried at once). The code has two ways to lose an edit
that section 5 describes: two changes of one entity in a batch, and an answer that reports
a conflict without the revision the change lost against. The history variable `exposed`
notes that one of them was taken; `AcceptedStay`, `Agreed` and `OnlyDecidedDrops` say what
holds as long as it was not, whatever the batch size and the races.

`RemoteRows` is what a change does to the row of its kind on another device: creates,
updates and tombstones of sessions, messages, workspaces, events, exceptions, tasks with
subtasks and books, under the foreign keys of the schema, in pages, in a bootstrap, and
when the user resolves a conflict. `PayloadChecks` compares the checks of a writer with
those of a receiver (not that the book of a highlight must be there, `sync.rs:1806`: a
missing parent is a matter of `RemoteRows`); `FieldMerge` is `merge.rs` field by field on
both devices; `HybridClock` is `hlc.rs` with wall clocks that jump.

`SyncKeys` is setup, rotation, recovery and pairing of the keyset: two entries of the key
ring and the confirmed version in SQLite written one after the other, each write able to
fail, to fail to be undone, or to be the last before a crash; `set_sync_credential` and
the first two reads of a run do not hold `run_gate`.

`ArtifactStore` is `objects.ts` for one object, a handler that calls D1 and R2 several
times being several steps; `ArtifactSync` extends it with the devices: `prepare_publication`
to `report_installed_object` is a publication, `list_object_changes` to
`advance_object_cursor` a replication, `list_candidates` to `finish_gc` the clean-up of
the cache. Every call may fail and `crash` may come between two steps. Packing and
encrypting an artifact is one step, and a download yields the object or nothing. Left out is
`deleteObject` (`objects.ts:846`), by which a device takes away a replica whose size or hash
is not that of its manifest (`artifact_transfer.rs:98`) unless the artifact is the current
one: packages in the model arrive as they were sent.

### The agent host and its tools

`AgentTurn` is a run from `send_message` to its end. Each action is what one task does
between two awaits: the command steps (`send_message` ... `start_agent_run`, `cancel_run`
... `send_run_cancel`), the tool task (`ensure_run` ... `reply_tool_result`), the
WebSocket loop (`assistant_delta`, `tool_call_request`, `run_ends` ...
`remove_session_run`, and the disconnect path `connection_lost` ... `clear_active_sender`)
and the sidecar (`receive`, `prepare`, `graph_step`, `finish`). Runs are numbered in the
order they were sent and a run has the number of its message; text is counted; a run
executes its tools one after another (`execute_tools_node`). A select over two ready
branches takes either. The front end appears as one guard, `NotStreaming`: it offers send
when it shows no streaming reply. `sidecar_exit` and `restart` are the faults. The approval
card, the cancel signal and the sticky cancel mark are kept apart, as in the code. A write
of the database succeeds: the code ignores one that fails (`let _ =`, `ws_server.rs:835`,
`:1041`, `:1136`) and goes on, so text can be lost to a full disk without a trace.

`Terminals` has the terminals with their processes, reader threads, owners and the end of
a run. Beside the process that was started a terminal has at most one more, of four kinds
(`Children`): inside or outside of the process group, which is what a stop kills, and with its
output in the terminal or elsewhere. The reader thread reads the end of the terminal as soon
as nobody holds it open (`close`), whoever else is left. `FileTools` has the tools that change files, with other writers, cancellation and
crashes (not a patch that moves a file and changes it, nor a failure to set its mode,
`apply_patch.rs:148`, `:222`); `PatchHunks` where `apply_patch` finds the place of a hunk.

### Storage

`StorageAccounts` is one drive account under concurrent commands: an operation reads the
row when it connects and writes it back when it ends, a refresh replaces the credential
meanwhile, a user authorizes or removes the account. The managed account is set up and
checked against the sync credential, which is loaded in one step and acted upon in a later
one (`ensure_managed_r2_account` and `managed_upsert`; `connect_account_with_row`,
`refresh_shared_credential_state` and `shared_write`), so a row may be written from a copy
that is no longer true; `overtaken` are the commands in flight whose copy may be. `StorageTransfers` is one download,
import or upload with its job: resumes, a provider that ignores ranges, a wrong declared
size, a remote file that changes, local calls that fail, a crash at any await.
`TransferContract` is what a download promises: the destination keeps its old content
until the new one replaces it in one step, and the report in the list is right and final.
The refinement mapping reads status and content off the job and the disk.
`FolderDownload` is the walk over a graph of remote folders.

### Repositories

`Conversation` is the message tree with its active path under overlapping commands, runs
and restarts, and the projections enqueued of it. `MemoryVectors` and `KnowledgeIndex` are
texts with vectors computed over an await. They share one table: in a database of an earlier
version the memories' vector table has no partitions (`legacy`), a search in it fails, and
the first vector that is stored replaces it (`ensure_vector_table`) and deletes the items of
all vectors of its dimension, those of knowledge chunks too (`forget_chunk_vectors`; all
vectors of the model have one dimension). `ExplicitMemories` is the two documents that are
read and saved as a whole (it extends `MemoryVectors`, with which it shares no state, to
state `MemoriesSafe` of both); `Chunking` the cutting of a text; `DocumentImport` the import
of a file by a parser in another process, and the installation of the parser's
package; `Reading` books with files, collections and conversations. `TaskSeries` is
recurring tasks under the user's commands and the agent's tools; its history variables note
what the user has changed, which of that was generated anew over it (`rewritten`), and which
tasks were reopened. `Calendar` is an event with its exceptions; a listing expands at most
`MAX_OCCURRENCES_PER_SERIES` occurrences, and another device's version of the event
(`apply_remote_calendar_event`) may leave exceptions without their occurrence (`strays`): in
both cases a listing fails as a whole. `Reminders` is the scan and the inbox. `ProviderSettings` and `SearchSettings` are settings whose key lives in the key
ring. `Migrations` is the start of the application on databases of every age, ended
anywhere.

### Proofs and instances

`SyncPushProofs`, `SyncReplicaProofs`, `SyncDeviceProofs`, `SyncKeysProofs`,
`AgentTurnProofs`, `ServicesProofs` (accounts, transfers, folders, tasks, calendar,
reminders) and `LibraryProofs` (artifacts, memories, knowledge, reading) hold theorems only;
the proofs about `HybridClock` are short and stand in the module itself. The instances for TLC are
`MCSyncPush`, `MCReplica`, `MCDevice`, `MCAgentTurn`, `MCServices`, `MCLibrary` and
`MCHost`. Those that check several components (`MCServices` extends them,
`MCLibrary` extends `ExplicitMemories`, `DocumentImport` and `Reading`, the rest is
instantiated) have a variable `part`: but for the table of vectors the components share no state, so each
behaviour explores one of them while the variables of the others keep their initial values.

## 3. The runs

| Run | Instance | Shows |
|---|---|---|
| `gateway` | 2 devices, 2 invocations, 2 entities, batches up to 2, an id used twice with different content | in every interleaving: `RevisionChain`, `RowIsLastChange`, `RepliesMatchLog`, the refinement `ImplementsLog`, and `EventuallyAnswered` |
| `replica`, part `replica` | a chain of 3 entities, 5 commits, pages of 2, 2 pages per run, 2 faults | `ReplicaSafe`, `AckCovered`, `NeverBackwards`, and `ReplicaCatchesUp`: the device catches up unless a row was separated from its parent |
| `replica`, part `objects` | six scenarios of two devices that publish, replicate and clean up; 2 versions, 2 builds, 1 upload session per artifact | `ObjectsSafe`: the current artifact is available, a publication can be tried again, recorded replicas and reports are true, a source has one artifact, the cursor passes over nothing; `ObjectsForward`: a published version stays, no document goes back |
| `replica`, part `rows` | six families of rows, 4 local writes or refusals | `RowsCarried`: what a row refers to arrives, or there is a known reason why not, and then all devices show the gateway's rows |
| `replica`, other parts | texts around each limit; 2 devices, clocks up to 1, counters up to 2, 3 changes; payloads that differ in one field | `ChangesSafe`: another device is stopped by known payloads only, a change is stamped after all its device had seen, two devices merge alike |
| `device` | 2 entities, one of them a session, 3 own edits, 2 foreign changes, batches of 2, races, oversized requests, 1 fault, 4 of these edits in one behaviour; and all of it with batches of 1 and no races | `BooksSafe`, `StateNeverRegresses`; unless the device was exposed `AcceptedStay`, `Agreed`, `OnlyDecidedDrops`; with batches of 1 `SettledInTheEnd` |
| `agent` | 2 runs of one session, the first with a tool call and a fragment, or one run with two tool calls; 1 fault | `StopSafe`, `TextKept`, `StatusFinal`, `EndsUnlessLost` |
| `services` | 2 commands on an account of each kind; a transfer of up to 2 chunks, 2 versions, 1 resume, 1 fault; 3 folders; 2 tasks over 2 days with 6 versions together; an event over 4 instants, 3 changes, listings of 3 occurrences; 1 reminder and 1 approval | `AccountsSafe`, `AuthRequiredSticks`, `TransfersSafe`, the refinement `DownloadKeepsContract`, `FoldersSafe`, `TasksSafe`, `CalendarSafe`, `RemindersSafe` |
| `library` | 6 messages, 2 commands in flight; 2 memories, 2 models; 2 versions of a document; texts of 3 paragraphs; 2 imports; 2 books of one file | `ConversationSafe`, `MemoriesSafe`, `KnowledgeSafe`, `ReadingSafe` |
| `host` | 2 devices, 3 key versions, 6 operations, 1 fault; 2 providers; patches of 2 hunks over 3 lines; 2 file calls; 2 terminals; databases of every age, 3 starts | `KeysSafe`, `ToolsSafe`, `StartupSafe` |
| `replica_stuck` | 4 commits, only the session is edited | violates `EventuallyCaughtUp` (section 5) |
| `rows_stuck` | a session with a message, deleted | violates `RowsNeverBlocked` |
| `device_overwrite` | 1 entity, 2 edits, 2 foreign changes | violates `AcceptedEditsKept` |
| `agent_dropped` | 1 run | violates `StoppedRunEnds` |
| `planner_reopen` | 2 days | violates `NoDuplicateInstance` |

The bounds. Two invocations suffice for every race `push` can lose, because a handler
compares only with the committed tables, and a batch of two is the smallest in which one
item can fail after another succeeded; the proofs remove the bound. In part `replica`,
pages of two over three entities put a page boundary inside the foreign key chain, and
five commits leave two edits after every row exists. In `device`, two edits fill a batch,
a third arrives while it is under way, and two foreign changes allow a conflict to be
overtaken by a newer remote revision; where pushes may overtake each other one behaviour has
at most four of these five (`MaxRacing`). Two runs of one session are what it takes for the
end of one to meet the beginning of the next, and the tool call of the first is what may
remain when the second begins. A second tool call is what a rejected first one may take the
signal from (`ws_server.rs:682`); the run has it or the second run, whichever comes first
(`Small`), which cuts nothing short that fairness promises. In `library` the two books have
one file, because the hard part of `Reading` is two books for it; that two files do not mix
is left to the theorem. With two versions an artifact can be superseded while it
is uploaded, downloaded or collected; two builds let a retry race its predecessor; with one
upload session per artifact that retry takes the session of the one before it or begins
when that is over, and the theorems allow any number. In part `index` of `library` a
command vectorizes one memory of a database of an earlier version beside the knowledge
base, which then takes one step less (`Short`); in the other parts components share no state. A file
of two chunks has a place between chunks to stop at, and two versions of it are enough to
mix. The second setting of `device` restricts the instance on purpose: with two changes of
an entity in a batch, or with overtaking pushes, three of its properties fail (section 5),
and the run shows that nothing else breaks them. Constants named `Max...` that no comment
traces to the code only end the exploration.

Deadlock is checked in `gateway`'s and `device`'s handlers by liveness, and in `device` by
TLC. In the other runs an instance may end: all runs have ended, all bounds are used up.

Fairness. `SyncPush`: the event loop resumes a handler whose await was answered (weak
fairness), and D1 queues batches in order, so a batch whose turn keeps coming is begun
(strong fairness of `beginBatch`). `SyncReplica`, `SyncDevice`: the timer of the engine
starts runs for ever, a run that is not interrupted goes on, a request that is not lost
arrives; faults are bounded, so that in the end the network works. The user is owed
nothing: no fairness on edits, decisions or commits. `AgentTurn`: tokio and asyncio run
tasks that are ready, a tool and a model call end; no fairness on sending, stopping or
answering an approval card, hence `EndsUnlessLost` excepts a task that waits for the user.
All other modules are checked for safety only and state no fairness.

The liveness properties name their exceptions as state predicates (`Orphaned`, `Lost`)
instead of assuming them away: each disjunct of `Lost` is a way in which the code does
lose a run, and the property fails if any one is taken out. The same is done for safety:
the known payloads of `ChangesSafe`, the known reasons of `RowsCarried` and the gaps of
`StartupSafe` are named definitions next to the property.

## 4. What is proved

| Theorem | Statement | Code |
|---|---|---|
| `SyncPushProofs.TypeCorrect` | `Spec => []TypeOK` | `push` |
| `SyncPushProofs.ChainCorrect` | `Spec => []RevisionChain` | compare-and-set, unique index |
| `SyncPushProofs.RowsCorrect` | `Spec => []RowIsLastChange` | the trigger on `sync_changes` |
| `SyncPushProofs.RepliesCorrect` | `Spec => []RepliesMatchLog` | the results of `push` |
| `SyncPushProofs.Refinement` | `Spec => ImplementsLog` | `push` implements `SyncLog` |
| `SyncReplicaProofs.ReplicaCorrect` | `Spec => []ReplicaSafe` | `apply_bootstrap_page`, `apply_pull_page` |
| `SyncReplicaProofs.AckCorrect` | `Spec => []AckCovered` | `ack_cursor` |
| `SyncReplicaProofs.ForwardCorrect` | `Spec => NeverBackwards` | `apply_remote_entity`, upsert of `sync_acks` |
| `AgentTurnProofs.StopCorrect` | `Spec => []StopSafe` | `cancel_run`, `send_tool_result_if_active` |
| `AgentTurnProofs.TextCorrect` | `Spec => []TextKept` | `drain_accumulated`, `ensure_run` |
| `AgentTurnProofs.StatusCorrect` | `Spec => StatusFinal` | `fail_pending_assistant` |
| `SyncDeviceProofs.BooksCorrect` | `Spec => []BooksSafe` | `claim_pending`, `apply_push_result`, `apply_remote_entity`, `record_remote_conflict`, `resolve_conflict` |
| `SyncDeviceProofs.KnowledgeForward` | `Spec => StateNeverRegresses` | `apply_push_result`, `apply_remote_entity` |
| `SyncDeviceProofs.AcceptedEditsStay` | `Spec => []AcceptedStay` | `claim_pending`, `push`, `apply_remote_entity`, `merge_entity`, `resolve_conflict` |
| `SyncDeviceProofs.SynchronizedAgree` | `Spec => []Agreed` | the same, and `apply_push_result` |
| `SyncDeviceProofs.OwnEditsStay` | `Spec => OnlyDecidedDrops` | `apply_remote_entity`, `record_remote_conflict`, `merge_entity`, `apply_push_result`, `resolve_conflict` |
| `SyncDeviceProofs.OneAtATime` | with `PushLimit = 1` and no races `Spec => [](AcceptedEditsKept /\ Converged) /\ [][DropsDecided]_vars` | `claim_pending`, `push` |
| `SyncKeysProofs.KeysCorrect` | `Spec => []KeysSafe` | `begin_e2ee_rotation`, `restore_e2ee`, `install_paired_secrets`, `approve_pairing`, `finalizePairingSession` |
| `SyncKeysProofs.EncryptionCorrect` | `Spec => EncryptionStays` | `confirm_e2ee_setup`, `restore_e2ee`, `install_paired_secrets` |
| `SyncKeysProofs.RegistrationCorrect` | `Spec => RegistrationStays` | `authorizeDevice`, `finalizePairingSession` |
| `HybridClock.StampsCorrect` | `Spec => [](CausesFirst /\ StampsDiffer)` | `HybridTimestamp` |
| `ServicesProofs.TransfersCorrect` | `Spec => []TransfersSafe` | `download_file`, `stage_file_import`, `upload_file` |
| `ServicesProofs.ContractKept` | `Spec => DownloadKeepsContract` | `install_download`, `update_transfer_job` |
| `ServicesProofs.AccountsCorrect` | `AccountsSpec => []AccountsSafe` | `save_connected_account`, `remove_account`, `access_token` |
| `ServicesProofs.AuthRequiredKept` | `AccountsSpec => AuthRequiredSticks` | `update_provider_status`, `managed_upsert`, `shared_write`, `upsert_account` |
| `ServicesProofs.FoldersCorrect` | `FolderSpec => []FoldersSafe` | `download_folder`, `available_child_path` |
| `ServicesProofs.TasksCorrect` | `SeriesSpec => []TasksSafe` | `complete_task`, `update_task`, `normalize_task_schedule`, `enqueue_task` |
| `ServicesProofs.CalendarCorrect` | `EventSpec => []CalendarSafe` | `list_events`, `update_event`, `apply_remote_calendar_event`, `update_occurrence`, `cancel_occurrence`, `restore_occurrence` |
| `ServicesProofs.RemindersCorrect` | `RemindersSpec => []RemindersSafe` | `scan_due`, `create_if_absent`, `resolve_approval` |
| `LibraryProofs.MemoriesCorrect` | `RecallSpec /\ ExplicitSpec => []MemoriesSafe` | `upsert_memory_embedding`, `update`, `apply_remote_memory`, `persist_trusted_embedding`, `load_explicit_memories`, `save_pair` |
| `LibraryProofs.KnowledgeCorrect` | `ChunkingSpec /\ IndexSpec /\ ImportSpec /\ PackageSpec => []KnowledgeSafe` | `chunk_local_text`, `import_artifact_snapshot`, `import_local_knowledge_document`, `install_managed_file`, `install_archive` |
| `LibraryProofs.ReadingCorrect` | `ReadingSpec => []ReadingSafe` | `import_reading_book_from_path`, `ensure_local_reading_index`, `apply_remote_reading_book`, `start_agent_run` |
| `LibraryProofs.ObjectsCorrect` | `ObjectsSpec => []ObjectsSafe` | `completeObjectUpload`, `cleanupOrphanedObjects`, `publish_knowledge_artifact`, `run_once`, `run_gc` |
| `LibraryProofs.ForwardCorrect` | `ObjectsSpec => ObjectsForward` | the batch of `completeObjectUpload`, `import_artifact_snapshot` |

Each holds for all values of the constants: any devices, entities, batch and page sizes,
runs, fragments, file lengths, remote folders, recurrence rules, faults. The assumptions are
those of the modules (`ChangesAssumption` and the like in `SyncPush`, `RunsAssumption`,
`BoundsAssumption`, `ClockAssumption`, `KeysAssumption`, ...): they give constants their types
and say that a marker like `NoSlot` is no member of the set it is added to; in `SyncReplica`
that a row's parent has a lower rank, in `TaskSeries` that a rule repeats every day or less
often and at least once, in `Calendar` that an event has a duration, in `FolderDownload` that
no item is both a folder and a file. TLC evaluates each of them on the instance of a run. None bounds anything.

None of the safety properties is inductive alone.

*Push.* `IInv == TypeOK /\ RevisionChain /\ RowIsLastChange /\ TransactionInv /\
PromiseInv`. `TransactionInv` says that the copies of an open transaction satisfy what the
tables satisfy and extend the committed log; without it nothing is known of what
`commitBatch` installs. `PromiseInv` says that whatever an invocation has decided to
accept is in the log it will be reported against. `RowIsLastChange` is what makes the
compare-and-set on `sync_entities` mean something about `sync_changes`. The refinement
needs only that a step which changes `log` is `commitBatch`, and that what it installs
extends the old log and is well formed.

*Replica.* `RowsOfLog` ties the server's rows to its log. `ReplicaInv` says what the
device holds: during a bootstrap the rows of the snapshot up to the persisted place,
except those changed since, and afterwards every row last changed up to the cursor.
`PageInv` says the same of the page in hand: the rows between its ends that are still of
the snapshot are in it. A row edited in the middle of a bootstrap leaves the claim and
comes back through the pull, because its new sequence number lies beyond the snapshot.

*Device.* `StateMatchesLog` follows from the log: a change of this device is stored as
its outbox row has it, at the revision after the one it was built on (`OwnLogged`), and an
answer speaks of the changes in flight and calls accepted only what is stored so
(`ReplyTrue`). `ConflictsVisible` and `StateNeverRegresses` need the order of the queue
(`QueuedIn`): of the rows of an entity those that are stuck come first and those that wait
last, none is in flight while another is stuck, and each is built on a later revision than
the one before it; `AheadOf` adds that all of them are built on what the device knows of
the gateway, or on later. Without `QueuedIn` a claim could put a row in flight behind a
stuck one, and a conflict could be resolved while its change is under way. It does not
exclude two changes of one entity in a batch, and the theorems hold for pushes that
overtake each other: the two runs that lose an edit keep the books in order.
The gateway judges a batch change by change, a recursion over the outbox. `pushAllHandled`
proves what it yields by induction on the number of rows, for which `UpTo` is proved from
the well-foundedness of the natural numbers; that the recursive function exists is proved
the same way (`WayExists`).

*Device, what the payloads hold.* `AcceptedStay` and `Agreed` need an invariant of their own,
`KInv`: unless the device was exposed, `Clean`. On the gateway's side `Lasting`: the log has
one change for each revision of an entity, each takes account of all those before it or a
user has decided against what it leaves out, and the row is the last one. It is kept by a
push because everything that can still arrive there is `Built`: it takes account of all the
log has up to its base (`Requested`, also for requests the device has given up). On the
device's side, for each entity: `Chained`, the unsynced changes take account of those before
them, those that wait follow each other's bases and only the first may be in flight (this
is what a batch with two changes of an entity breaks); `FirstBuilt`, the first that waits is
`Built`; `RowIsLast`, the business row is the last unsynced change or else what the device
knows of the gateway; `Known`, the row takes account of what the device knows, but for a
conflict, which then holds the other side and a base that both sides have. The last part is
why a three-way merge keeps both sides, and why a decision on a conflict waives all it
drops. A conflict must name a later revision than the base (`Answers`): this is what an
answer without the current revision breaks. `Agreed` follows with `CursorCovers`, that what
has been pulled is known.

*Device, the user's own edits.* `OnlyDecidedDrops` is about edits taken out of a row. `Clean`
is too weak for it: it lets an edit a user has decided against (`waived`) be missing from
any later change, so a pull might take it out of a row that still shows it. `OInv` adds
`MineKept`, unless the device was exposed. `MineStays`: an own edit in an accepted change is
in every later change of its entity, waived or not. For what is still under way this needs
`Fresh`, a change that could still be accepted is the first of its queue, and `FirstKnows`,
the first of a queue has the own edits of what the device knows, or is built on less and
will be refused; so a resend of what the user decided against never enters the log. `Held`:
the row has the own edits of what the device knows and of the base of a conflict, which was
accepted once. `Later`: the changes the device has yet to learn have no own edits but those
of the row, and keep them, so neither taking one in nor merging it drops any, but for a
merge that outvotes edits of a session: there the proof shows that what the pull brought
stays whole (`OutvotedIn`). `Numbered` makes a new edit new. `keep_local`, `keep_remote` and
such a merge preserve `MineKept` although they do drop edits from a row.

*Keys.* `KeysInv` has a part for each pair of places that must agree. `Held`: the confirmed
version is one of the keyset, and an unconfirmed device has no run and has sealed nothing.
`Restoring`: while a recovery has yet to confirm, what undoing it would put back is a
prefix of what is there and holds the confirmed keys; without it the roll-back could take
away a key in use. `InHand`: every key used so far is a confirmed one and a run has
confirmed keys in its hand, or the key ring was written between a run's two reads. It is
why the guards of rotation and of `seal` suffice: `Raced` notes exactly the writes that
make it false. `Installing` and `Paired` say what an installation has written at each of its
steps; `Known` that the gateway keeps the credential of a package under way and of an
installed one; `Passed` that session, initiator and responder agree about the transfer, and
that an exchange is prepared from a keyset that is not empty, which needs that confirmed
versions are never taken back (`ConfirmedStays`). That in turn is `EncryptionStays`, and
what a repeated approval may do to the devices table is `RegistrationStays`.

*Agent.* Twelve parts, one per relation between two registries: `Begun` and `Named` tie
the command's progress to `pending_runs` and `active_session_runs`, `Working` and
`Connected` the tasks and the sidecar to a registered run and an open connection,
`Reported`, `Requested` and `Stopped` the frames on the wire to the states of sidecar and
host at both ends, `Owned` the text in `active_runs` and `messages` to the run that said
it. A late RUN_ERROR is harmless to text and status because it carries its own run id;
that it does clear the session's entry is in section 6.

*Clock.* A device's clock is at or beyond every stamp it knows, and it knows its own.

*Transfers.* `Disks` says what partial file, destination and backup may hold at each
place of the installation, `Down` that the chunks received are those of one version
unless the download is going to fail, `Up` that the confirmed offset and the bytes stored
agree. The refinement follows from `IInv` step by step: a step changes status or content
only as the contract allows.

*Accounts.* `CredentialFollowsAccount` and `LatestGrantKept` speak of moments at which no
command is in flight. `KeyRingTracked` says what the key ring holds at every step of the
one command that changes the account: the old credential, the new one or none, with the
old one at hand until the command can no longer fail. It needs that there is one such
command (`Overlap` notes the others as a race) and that the record of a command tells what
it is (`Labelled`). `FreshGrants`, each authorization brings a grant of its own, is what
makes `saved' # saved` in `AuthRequiredSticks` true of every authorization. `Informed` is the
rest of that property: what a command in flight knows of the row and of the sync credential
is still so, unless it was overtaken; it needs `ManagedApart`, that the managed account and
the others have different commands.

*Folders.* `NothingOverwritten` needs `PathsFree`: of the names a directory may hand out, the
one `available_child_path` takes is neither on the disk nor planned. That there is one is a
counting argument: the names tried are more than the items a download may come to. `EveryFileOnce` needs `Walk`:
an item of a folder that was listed is still to come in the listing, or a folder that is
queued or listed itself, or a file that was downloaded; no item is met twice. When the queue
is empty the folders listed are therefore closed under containment, which is to say all those
below the root.

*Tasks.* `TableInv` says that a live row is due on its own rule, that each row is enqueued at
its version, and that a row the user has changed is there and beyond version 1: the first is
why completing a task finds the occurrence after it (`NextDue`; that there is a least one is
proved from the well-foundedness of the natural numbers), the last why reopening, which takes
back only a generated task of version 1, never takes what the user has edited. It is also the
reason for `planner_reopen`. `LineageInv` follows the instances of a series: the task one was
generated from is completed, unless a task it follows was reopened, so completing a task for
the first time never finds an instance of it, and what the user changed is generated anew
only behind a reopened task. `CallInv` ties the record of a tool call to what it wrote and to
what was so when it was answered, which for a call that found the task as requested is no
write at all.

*Calendar.* `Placed` says that every exception in force names an occurrence of the rule, or is
one of the strays that another device's version of the event has left; it holds because
`update_event` clears the exceptions when it changes the schedule, and is what makes a
listing show as many entries as the rule has occurrences and fail in two cases only. `Paired` relates exceptions
and replacement events one to one, also those deleted, which a later change revives.

*Reminders.* `Caught` follows each item from the interval in which it became due, or it was
changed or the application restarted or its focus changed, whichever is last: after the first scan from then
on (`FirstScan`) it is in the inbox, and during that scan in the inbox or still to do.
`Scanning` says that what a scan has yet to do is still open and due, `Shown1` that what was
shown is stored and was shown once.

*Memories.* `VectorsOwned`: a stored vector is that of an active memory, which points to it,
and `claims` what the memory says. It needs `ToolAgrees`: what a tool has had embedded is
what it has written and will read back, unless the memory was written in between
(`overtaken`), so that the vector a tool stores unasked was computed from what it claims. For
the documents, `RowsThere` says that who has loaded them has found or written a row of
either kind, and `PromptSees` that a prompt shows a deleted one as empty; rows never
disappear, which is why the files are read once.

*Knowledge.* Four invariants, one per module or part. Chunks (`CuttingInv`): all that was cut
off is in a chunk or in what is being filled, together with the character before it, and
what is emitted next has something the last chunk has not; hence the cutting ends with
nothing lost although chunks overlap. Versions (`IndexInv`): a chunk's vector is that of its
version's text, whoever stored it when, so a package cannot mix two; the version that is
current is the newest. Imports (`ImportInv`): a job belongs to one import, what is past
reading has the text of its hash, and the copy set aside is the document's (`CopyInHand`).
Packages (`PackageInv`): what is in place or set aside is verified.

*Reading.* `BooksOfFiles`: a file has one book, and the collection bound to a book holds its
file. A book is made of four calls, so the proof follows what is not yet bound:
`ReadersOfBooks`, a book that is not here yet is the work of one command, and a command that
is past its making finds it; `CollectionsOwned`, a collection that is being filled belongs to
one command and to no book. `SessionsOfBooks` says that a session is made only after access
to the collection was granted, hence `IndexKept`: `apply_remote_reading_book` leaves the
collection in place. That a prompt has only the text of its session's book follows from
`BooksOfFiles`.

*Artifacts.* The gateway keeps four relations that no handler states. `Keyed`: an open
session has a key above that of the stored replica, so that neither a losing completion nor
a collection deletes the object of the other. `Current`: the manifest names an artifact
that is in R2. `Logged`: the change log does not run ahead of the manifest. `Superseded`:
what is marked as an orphan, and what the cron job is deleting, has a version not above the
current one and another artifact, hence can never become current again. For the devices,
`Rowed` ties uploads to rows: a session is opened by the builder, who has a row, and a
source has one row; `OneArtifactPerSource` follows. `Publishing` says that a publication in
progress has a row, or its ciphertext, at each of its places, which a cleanup in between
does not take away because it removes only what has a replica. `Replicating` says that what
a page has passed is covered and that the artifact being fetched covers the next change;
`CursorCovers` is the part of it that concerns the cursor. The proof has one lemma per
variable (what a step can do to rows, replicas, files, sessions, reports) and one per part
of the invariant.

Every proof has one lemma per part of the invariant and under it one step per group of
actions; frame lemmas say which action writes which variable.

Only model-checked: all liveness, which is out of the prover's reach; of `replica`
`RowsCarried`, and `ChangesSafe` except the stamps of `HybridClock`; of `library`
`ConversationSafe`; and the components of `host`, except the keyset.

## 5. What the runs found

Five runs end in a counterexample to something the repository says of itself; the
quotations are in `PROJECT.json`.

* `replica_stuck` (`sync.ts:607`): a session edited between two pages of a bootstrap
  leaves the snapshot while its messages stay in it; the page violates the foreign key
  and every later run asks for the same page. The same happens in a pull when a message
  is edited before its session.
* `rows_stuck` (`sync.rs:1071`): after a session with messages was deleted, the bootstrap
  of a new device stops for good at its first message, and with it push and pull. The
  same holds for the sessions of a deleted agent and for tasks generated from a deleted
  series.
* `device_overwrite` (`sync.rs:557`): two changes of one entity travel in one batch, the
  first is refused, the second is accepted over a revision its author never saw.
* `agent_dropped` (`main.py:122`): a run cancelled while its images are processed is
  reported to nobody and stays pending.
* `planner_reopen` (`planner.rs:1723`): reopening a task for the second time leaves the
  generated instance open beside it, because its version is no longer 1.

## 6. Deviations without a run

Met while modelling; where a property excepts one, its definition says so.

Synchronisation:

* keeping the local side of a conflict restores the payload of the moment the conflict
  was recorded and drops later edits (`sync.rs:2407`); keeping the remote side with a
  change in flight leaves row and gateway apart until the next edit (`sync.rs:2419`);
  keeping the remote side of a deleted `event_exception` leaves it alive;
* a conflict reported with a null revision is hydrated by whichever revision comes first
  (`sync.rs:1057`, `sync.ts:428`); a retry that overlaps the first attempt of the same
  change is answered REVISION_CONFLICT although the change is stored (`sync.ts:395`);
* a batch takes 20 changes whatever their size, and one above 256 KiB makes dead letters
  of changes that would have passed alone (`engine.rs:1650`, `request.ts:36`); a parent
  that became a dead letter does not hold back its children, whose page then fails
  elsewhere; one change that cannot be decoded fails its page for ever (`engine.rs:1808`);
* tasks are bootstrapped in the order of their ids although `recurrence_source_id` is a
  foreign key (`schema.rs:225`); two devices that import the same EPUB stop each other's
  pull, since `source_hash` is unique and the upsert resolves conflicts of `id` only;
* `truncate_context` keeps 8,000 characters (`reading.rs:767`) where the receiver refuses
  more than 8,000 bytes (`sync.rs:1790`); a note is unlimited here and limited to 20,000
  bytes there, the title of an EPUB unlimited here and limited to 1,024 characters there;
  an event within one second is stored with start and end equal, which
  `list_events` and the receiver refuse;
* a sealed change may be pushed before its key version is confirmed (`E2EE.md` section 9);
  a pairing whose finalization was lost cannot be repeated after the session expired.

Agent host:

* a stop before the run is mapped does nothing (`commands/mod.rs:1491`); the late
  RUN_ERROR of a stopped run removes the entry of the session's next run, which can then
  not be stopped (`ws_server.rs:1151`); a tool approved just before a stop may still begin
  (`ws_server.rs:708`); text received since the last tool call is not stored when the
  sidecar disconnects (`ws_server.rs:1184`);
* a run registered after `drain_runs` and sent before `clear_active_sender` is lost
  (`ws_server.rs:1191`), a RUN_CANCEL may overtake its RUN_REQUEST (`commands/mod.rs:2134`),
  a rejected tool task clears the signal of the next one (`ws_server.rs:682`): these are
  disjuncts of `Lost`;
* the title is compared and set in two calls, so that a manual rename between them is
  overwritten (`ws_server.rs:859`).

Tools: `apply_patch` and `file_edit` count non-overlapping matches only
(`file_edit.rs:24`); an inserting hunk without context goes to the end; line anchors are
looked up in the file as changed so far; files of one patch are written one by one;
`stop_terminal` swallows the output not yet told (`shell.rs:253`); a command that starts
between the end of a run and the abort of its tasks leaves a terminal without a run
(`ws_server.rs:1094`), which `NoneLeft` excepts; a process that has left the group (`setsid`)
survives the exit of its terminal and a stop, although `shell.rs:233` promises that all
descendants are stopped: `ExitedIsTold` and `NoneLeft` speak of the group, and of who holds
the terminal open.

Storage: a refreshed token is stored over a grant that was given meanwhile, and comes back
for an account that was removed (`google_drive.rs:686`, the cause `credential_race`); the
status of an account is written from a row read before the request, also for an account
deleted since (`service.rs:1371`, the cause `stale_status`), and in the same way a command in
flight since before it was lost may mark an authorization as there (`service.rs:1313`); a
download of more than the declared size stays running in the list, because its report is
refused (`service.rs:560`).

Repositories and start: completing a reopened task again overwrites what the user changed in
the next instance (`planner.rs:1689`); another device's version of a recurring event may come
without the occurrence of an exception, and then every listing the moved occurrence falls
into fails (`planner.rs:1096`, `:1003`); in a database of an earlier version the search by
meaning fails silently until a vector is stored, and the job that should store one ends as
done when every memory has one of the wanted model already (`memory.rs:479`, `:190`,
`embeddings.rs:71`); storing it deletes the vectors of knowledge chunks of the same dimension
(`memory.rs:529`), which are computed again only on request; a command may act on a path
that another one has changed since it looked (`commands/mod.rs:1336`, the cause `stale`);
text of a hidden chapter can reach a prompt through a summary
(`READ_WITH_AI.md:21`); the agent's tool may rewrite lines the user wrote
(`MEMORY_SYSTEM.md:177`); a document re-imported with another profile loses the old
index (`STORAGE_AND_RAG.md:431`), and chunks of old versions are never deleted (`:429`);
`clear_default` and the write of a provider are two statements without a transaction
(`actor.rs:3402`); a database from before the synchronisation columns cannot be opened,
because two statements of `migrations.rs` use `deleted_at` before it is added (`:222`,
`:735`); an upgrade ended between the columns of the message tree and the links leaves old
messages unlinked (`:690`), and source payloads are filled by one start only (`:71`).

## 7. Not modelled

`PROJECT.json` lists every component with its reason. In short: encodings and
cryptography are library calls over opaque data; the HTTP requests of storage providers,
MCP servers, web access, browser, model calls and what a parser extracts are external
work that appears as an answer or a failure; the front end renders what the commands
return, except for the one guard above; repositories whose writes are one statement each
have no state that a command could find half done.

## 8. Plan

1. Uploads of the drive providers (`quark_drive.rs`, `google_drive.rs`), MCP sessions.
2. Proofs for `RemoteRows`, for `Conversation`, and for the parts of `host` other than the
   keyset.
