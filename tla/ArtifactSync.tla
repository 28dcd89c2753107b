---------------------------- MODULE ArtifactSync ----------------------------
(***************************************************************************)
(* Devices that publish the artifact of a document or book, replicate the  *)
(* artifacts of the others, and remove local copies above the quota        *)
(* (sync/engine.rs, storage/service.rs, storage/r2.rs,                     *)
(* storage/artifact_transfer.rs, sync/replication.rs,                      *)
(* storage/artifact_cache.rs, db/repo/artifacts.rs), over the gateway's    *)
(* ArtifactStore.  One object is modelled; a build has its own id, sources *)
(* with the same profile have the same fingerprint.  Every call may fail   *)
(* and a device may crash between two steps.                               *)
(***************************************************************************)
EXTENDS ArtifactStore, FiniteSetsExt

CONSTANTS Scenarios,  \* bound: who publishes, replicates and cleans up what, and from which state
          OBJECT_PAGE_LIMIT   \* changes of one page

ASSUME ScenariosAssumption ==
    /\ MaxVersion \in Nat \ {0} /\ MaxBuilds \in Nat \ {0} /\ MaxSessions \in Nat /\ OBJECT_PAGE_LIMIT \in Nat
    /\ Scenarios \subseteq [kind : {"knowledge_vectors", "reading_epub"}, shared : BOOLEAN, builds : Nat,
                           maker : Devices, publish : SUBSET Devices, replicate : SUBSET Devices,
                           clean : SUBSET Devices, edit : SUBSET Devices]

VARIABLES scenario, \* the one of this behaviour
          entity,   \* the collection or book row has been synchronised
          doc,      \* current source version on the device
          epub,     \* the book file is bound
          rows,     \* artifact_manifests: local path and status
          ready,    \* artifact_replicas with status ready
          files,    \* ciphertext in outbox, directories below the root
          pointer,  \* current.json
          pub, rep, clean,  \* publication, replication and cleanup in progress
          objectCursor,   \* last_object_cursor
          skipped   \* changes reported missing or incompatible

deviceVars == <<scenario, entity, doc, epub, rows, ready, files, pointer, pub, rep, clean, objectCursor, skipped>>
objectVars == <<deviceVars, storeVars, gc>>
storeSame == UNCHANGED storeVars /\ UNCHANGED gc

Book == [by |-> "book", version |-> 1]
NoSource == [by |-> "none", version |-> 0]
NoRow == [path |-> "none", status |-> "none"]
IdlePub == [pc |-> "idle", a |-> None, path |-> "none", part |-> 0]
IdleRep == [pc |-> "idle", a |-> None, next |-> 0, end |-> 0, keyed |-> FALSE]
IdleClean == [pc |-> "idle", todo |-> {}, at |-> None]

kind == scenario.kind
PublishedRow(path) == [path |-> path, status |-> "installed"]

(* A device has a document or a book that no other device knows. *)
FreshStart(maker) ==
    LET first == IF kind = "reading_epub" THEN Book ELSE [by |-> maker, version |-> 1] IN
    /\ StoreInit
    /\ entity = [d \in Devices |-> d = maker]
    /\ doc = [d \in Devices |-> IF d = maker THEN first ELSE NoSource]
    /\ epub \in [Devices -> BOOLEAN] /\ epub[maker] /\ (kind # "reading_epub" => \A d \in Devices : epub[d])
    /\ rows = [d \in Devices |-> [a \in Artifacts |-> NoRow]]
    /\ ready = [d \in Devices |-> {}]
    /\ files = [d \in Devices |-> {}]
    /\ pointer = [d \in Devices |-> None]
    /\ objectCursor = [d \in Devices |-> 0]

(* Version 1 has been published by its maker and installed everywhere. *)
SharedStart(maker) ==
    LET first == [by |-> maker, version |-> 1]
        a1 == [src |-> first, builder |-> maker, n |-> 1]
        place(d) == IF d = maker THEN "outbox" ELSE "install" IN
    /\ manifest = [version |-> 1, artifact |-> a1]
    /\ replicas = [a \in Artifacts |-> IF a = a1 THEN [NoReplica EXCEPT !.status = "ready", !.key = 1] ELSE NoReplica]
    /\ uploads = [a \in Artifacts |-> IF a = a1 THEN [NoUpload EXCEPT !.status = "completed", !.key = 1] ELSE NoUpload]
    /\ blobs = {<<a1, 1>>} /\ gc = None
    /\ changes = <<[artifact |-> a1, version |-> 1]>>
    /\ states = [d \in Devices |-> [observed |-> 1, status |-> "installed", artifact |-> a1]]
    /\ entity = [d \in Devices |-> TRUE]
    /\ doc = [d \in Devices |-> first]
    /\ epub = [d \in Devices |-> TRUE]
    /\ rows = [d \in Devices |-> [a \in Artifacts |-> IF a = a1 THEN PublishedRow(place(d)) ELSE NoRow]]
    /\ ready = [d \in Devices |-> {a1}]
    /\ files = [d \in Devices |-> {<<place(d), a1>>}]
    /\ pointer = [d \in Devices |-> IF d = maker THEN None ELSE a1]
    /\ objectCursor = [d \in Devices |-> 1]

ObjectsInit ==
    /\ scenario \in Scenarios
    /\ IF scenario.shared THEN SharedStart(scenario.maker) ELSE FreshStart(scenario.maker)
    /\ pub = [d \in Devices |-> IdlePub]
    /\ rep = [d \in Devices |-> IdleRep]
    /\ clean = [d \in Devices |-> IdleClean]
    /\ skipped = [d \in Devices |-> {}]

(***************************************************************************)
(* Rows of artifact_manifests.                                             *)
(***************************************************************************)

(* find_manifest_by_fingerprint; the fingerprint is unique in the table. *)
RowOf(d, source) == {a \in Artifacts : a.src = source /\ rows[d][a].status # "none"}

(* A second artifact of a source cannot be inserted: the fingerprint is UNIQUE. *)
FingerprintTaken(d, a) == RowOf(d, a.src) \ {a} # {}

upsert_manifest(row, path, status) ==
    [path |-> IF path = "none" THEN row.path ELSE path,
     status |-> IF row.status = "installed" /\ status \in {"built", "available"}
                THEN "installed" ELSE status]

clear_local_path(d, a, path) ==
    IF rows[d][a].path = path /\ a \in ready[d]
    THEN [rows EXCEPT ![d][a].path = "none"] ELSE rows

(***************************************************************************)
(* Publication.                                                            *)
(***************************************************************************)

pubSame == UNCHANGED <<scenario, entity, doc, epub, rep, clean, objectCursor, skipped, pointer>>

EndPub(d) == pub' = [pub EXCEPT ![d] = IdlePub]
PubStep(d, pc) == pub' = [pub EXCEPT ![d].pc = pc]

(* prepare_knowledge_artifact_publication and publish_reading_epub: reuse  *)
(* the artifact of this source, or build one and write it to the outbox.   *)
NewBuild(d, source) ==
    {[src |-> source, builder |-> d, n |-> Cardinality({a \in Artifacts :
        a.src = source /\ a.builder = d /\ (<<"outbox", a>> \in files[d] \/ rows[d][a].status # "none")}) + 1]}
    \cap Artifacts

prepare_publication(d) ==
    /\ pub[d].pc = "idle" /\ doc[d] # NoSource /\ epub[d]
    /\ \/ \E a \in RowOf(d, doc[d]) :
            /\ \/ /\ a \in ready[d]
                  /\ pub' = [pub EXCEPT ![d] = [pc |-> "record", a |-> a, path |-> rows[d][a].path, part |-> 0]]
               \/ /\ a \notin ready[d] /\ rows[d][a].path = "outbox" /\ <<"outbox", a>> \in files[d]
                  /\ pub' = [pub EXCEPT ![d] = [pc |-> "begin", a |-> a, path |-> "outbox", part |-> 0]]
            /\ UNCHANGED <<files, rows>>
       \/ /\ RowOf(d, doc[d]) = {}
          /\ \E a \in NewBuild(d, doc[d]) :
                /\ a.n <= scenario.builds
                /\ files' = [files EXCEPT ![d] = @ \cup {<<"outbox", a>>}]
                /\ pub' = [pub EXCEPT ![d] = [pc |-> "cached", a |-> a, path |-> "outbox", part |-> 0]]
          /\ UNCHANGED rows
    /\ pubSame /\ UNCHANGED ready /\ storeSame

(* The row of the new artifact, before anything is uploaded. *)
record_built(d) ==
    LET a == pub[d].a IN
    /\ pub[d].pc = "cached"
    /\ IF FingerprintTaken(d, a) THEN EndPub(d) /\ UNCHANGED rows
       ELSE /\ rows' = [rows EXCEPT ![d][a] = upsert_manifest(@, "outbox", "built")]
            /\ PubStep(d, "begin")
    /\ pubSame /\ UNCHANGED <<files, ready>> /\ storeSame

(* upload_artifact: begin_object_upload and its three answers. *)
begin_upload(d) ==
    LET a == pub[d].a IN
    /\ pub[d].pc = "begin"
    /\ rows' = [rows EXCEPT ![d][a] = upsert_manifest(@, "none", "available")]
    /\ \/ EndPub(d) /\ UNCHANGED storeVars   \* refused, over quota or unreachable
       \/ UploadReady(a) /\ ~UploadRefused(a) /\ PubStep(d, "stat") /\ UNCHANGED storeVars
       \/ createObjectUpload(a) /\ pub' = [pub EXCEPT ![d].pc = "part", ![d].part = 1]
    /\ pubSame /\ UNCHANGED <<files, ready, gc>>

(* upload_chunks and upload_object_chunk: parts in order, then complete. *)
upload_chunk(d) ==
    LET a == pub[d].a IN
    /\ pub[d].pc = "part"
    /\ \/ /\ uploadObjectPart(a, pub[d].part)
          /\ pub' = [pub EXCEPT ![d].part = IF @ + 1 \in PartNumbers THEN @ + 1 ELSE 0,
                                ![d].pc = IF pub[d].part + 1 \in PartNumbers THEN "part" ELSE "complete"]
       \/ PubStep(d, "abort") /\ UNCHANGED storeVars
    /\ pubSame /\ UNCHANGED <<files, rows, ready, gc>>

complete_upload(d) ==
    LET a == pub[d].a IN
    /\ pub[d].pc = "complete"
    /\ \/ completeObjectUpload(a) /\ PubStep(d, "wait")
       \/ uploads[a].status = "completed" /\ PubStep(d, "stat") /\ UNCHANGED storeVars
       \/ PubStep(d, "abort") /\ UNCHANGED storeVars
    /\ pubSame /\ UNCHANGED <<files, rows, ready, gc>>

(* The answer to the completion, or a connection that ends before it. *)
await_completion(d) ==
    /\ pub[d].pc = "wait"
    /\ \/ uploads[pub[d].a].status = "completed" /\ PubStep(d, "stat")
       \/ PubStep(d, "abort")
    /\ pubSame /\ UNCHANGED <<files, rows, ready>> /\ storeSame

(* The session is aborted when the call arrives and R2 still holds it open. *)
abort_upload(d) ==
    LET a == pub[d].a IN
    /\ pub[d].pc = "abort" /\ EndPub(d)
    /\ \/ uploads[a].status = "pending" /\ abortObjectUpload(a)
       \/ UNCHANGED storeVars
    /\ pubSame /\ UNCHANGED <<files, rows, ready, gc>>

(* stat_object answers with the object; only then the replica is recorded. *)
stat_object(d) ==
    LET a == pub[d].a IN
    /\ pub[d].pc = "stat"
    /\ \/ /\ Available(a)
          /\ ready' = [ready EXCEPT ![d] = @ \cup {a}] /\ PubStep(d, "record")
       \/ EndPub(d) /\ UNCHANGED ready
    /\ pubSame /\ UNCHANGED <<files, rows>> /\ storeSame

(* publish_knowledge_artifact: installed here, with the path read at first. *)
record_published(d) ==
    LET a == pub[d].a IN
    /\ pub[d].pc = "record"
    /\ rows' = [rows EXCEPT ![d][a] = upsert_manifest(@, pub[d].path, "installed")]
    /\ PubStep(d, "report")
    /\ pubSame /\ UNCHANGED <<files, ready>> /\ storeSame

report_installed_object(d) ==
    LET a == pub[d].a IN
    /\ pub[d].pc = "report" /\ EndPub(d)
    /\ \/ updateObjectState(d, a.src.version, "installed", a)
       \/ UNCHANGED storeVars
    /\ pubSame /\ UNCHANGED <<files, rows, ready, gc>>

(***************************************************************************)
(* Replication.                                                            *)
(***************************************************************************)

repSame == UNCHANGED <<scenario, entity, pub, clean>>
RepStep(d, pc) == rep' = [rep EXCEPT ![d].pc = pc]
EndRep(d) == rep' = [rep EXCEPT ![d] = IdleRep]

(* run_once: the changes after the cursor, a page at a time, with the      *)
(* keyset of this moment (keyed: it holds the newest key).                 *)
list_object_changes(d) ==
    LET end == Min({Len(changes), objectCursor[d] + OBJECT_PAGE_LIMIT}) IN
    /\ rep[d].pc = "idle" /\ objectCursor[d] < Len(changes)
    /\ \E keyed \in BOOLEAN :
          rep' = [rep EXCEPT ![d] = [pc |-> "item", a |-> None, next |-> objectCursor[d] + 1,
                                     end |-> end, keyed |-> keyed]]
    /\ repSame /\ UNCHANGED <<doc, epub, rows, ready, files, pointer, objectCursor, skipped>> /\ storeSame

(* validate_manifest_change *)
MatchesChange(change) ==
    \/ manifest.version > change.version
    \/ manifest.version = change.version /\ manifest.artifact = change.artifact

(* Artifacts of later versions are encrypted with the newer key. *)
HasKey(d, a) == a.src.version = 1 \/ rep[d].keyed

(* One change of the page, by the manifest that is current now. *)
replicate_change(d) ==
    LET a == manifest.artifact
        pass == rep' = [rep EXCEPT ![d].next = @ + 1]
        skip(status) == /\ updateObjectState(d, manifest.version, status, None)
                        /\ skipped' = [skipped EXCEPT ![d] = @ \cup {rep[d].next}] /\ pass
    IN
    /\ rep[d].pc = "item" /\ rep[d].next <= rep[d].end
    /\ IF ~MatchesChange(changes[rep[d].next])
       THEN EndRep(d) /\ UNCHANGED <<storeVars, skipped>>
       ELSE \/ EndRep(d) /\ UNCHANGED <<storeVars, skipped>>   \* a call failed
            \/ /\ rows[d][a].status = "installed"
               /\ rep' = [rep EXCEPT ![d].pc = "report", ![d].a = a]
               /\ UNCHANGED <<storeVars, skipped>>
            \/ rows[d][a].status # "installed" /\ ~HasKey(d, a) /\ skip("incompatible")
            \/ rows[d][a].status # "installed" /\ HasKey(d, a) /\ ~Ready(a) /\ skip("missing")
            \/ /\ rows[d][a].status # "installed" /\ HasKey(d, a) /\ Ready(a)
               /\ updateObjectState(d, manifest.version, "downloading", None)
               /\ rep' = [rep EXCEPT ![d].pc = "download", ![d].a = a] /\ UNCHANGED skipped
    /\ repSame /\ UNCHANGED <<doc, epub, rows, ready, files, pointer, objectCursor, gc>>

(* A failed object ends the run before the cursor moves. *)
replication_fails(d) ==
    /\ rep[d].pc \in {"download", "install", "import", "record"} /\ EndRep(d)
    /\ \/ updateObjectState(d, rep[d].a.src.version, "failed", None)
       \/ UNCHANGED storeVars
    /\ repSame /\ UNCHANGED <<doc, epub, rows, ready, files, pointer, objectCursor, skipped, gc>>

download_artifact(d) ==
    /\ rep[d].pc = "download" /\ Available(rep[d].a) /\ RepStep(d, "install")
    /\ repSame /\ UNCHANGED <<doc, epub, rows, ready, files, pointer, objectCursor, skipped>> /\ storeSame

(* install_artifact: the directory appears complete, then the pointer. *)
install_artifact(d) ==
    /\ rep[d].pc = "install" /\ RepStep(d, "import")
    /\ files' = [files EXCEPT ![d] = @ \cup {<<"install", rep[d].a>>}]
    /\ pointer' = [pointer EXCEPT ![d] = rep[d].a]
    /\ repSame /\ UNCHANGED <<doc, epub, rows, ready, objectCursor, skipped>> /\ storeSame

(* import_artifact_snapshot: the current version only moves forward. *)
Importable(d, source) ==
    /\ entity[d]
    /\ doc[d] = source \/ doc[d].version # source.version

imported_version(current, source) ==
    IF current.version < source.version THEN source ELSE current

import_artifact(d) ==
    LET source == rep[d].a.src IN
    /\ rep[d].pc = "import" /\ RepStep(d, "record")
    /\ IF kind = "reading_epub"
       THEN /\ doc[d] # NoSource
            /\ epub' = [epub EXCEPT ![d] = TRUE] /\ UNCHANGED doc
       ELSE /\ Importable(d, source)
            /\ doc' = [doc EXCEPT ![d] = imported_version(@, source)] /\ UNCHANGED epub
    /\ repSame /\ UNCHANGED <<rows, ready, files, pointer, objectCursor, skipped>> /\ storeSame

(* download_and_install_remote_artifact: the row, and then the replica. *)
record_installed(d) ==
    LET a == rep[d].a IN
    /\ rep[d].pc = "record" /\ ~FingerprintTaken(d, a) /\ RepStep(d, "replica")
    /\ rows' = [rows EXCEPT ![d][a] = upsert_manifest(@, "install", "installed")]
    /\ repSame /\ UNCHANGED <<doc, epub, ready, files, pointer, objectCursor, skipped>> /\ storeSame

record_replica(d) ==
    /\ rep[d].pc = "replica" /\ RepStep(d, "report")
    /\ ready' = [ready EXCEPT ![d] = @ \cup {rep[d].a}]
    /\ repSame /\ UNCHANGED <<doc, epub, rows, files, pointer, objectCursor, skipped>> /\ storeSame

(* persist_local_state and report_state; a manifest replaced meanwhile     *)
(* refuses the report and ends the run.                                    *)
report_state(d) ==
    LET a == rep[d].a IN
    /\ rep[d].pc = "report"
    /\ \/ /\ updateObjectState(d, a.src.version, "installed", a)
          /\ rep' = [rep EXCEPT ![d].pc = "item", ![d].a = None, ![d].next = @ + 1]
       \/ EndRep(d) /\ UNCHANGED storeVars
    /\ repSame /\ UNCHANGED <<doc, epub, rows, ready, files, pointer, objectCursor, skipped, gc>>

(* advance_object_cursor after the whole page. *)
advance_object_cursor(d) ==
    /\ rep[d].pc = "item" /\ rep[d].next > rep[d].end
    /\ objectCursor' = [objectCursor EXCEPT ![d] = rep[d].end]
    /\ EndRep(d)
    /\ repSame /\ UNCHANGED <<doc, epub, rows, ready, files, pointer, skipped>> /\ storeSame

(***************************************************************************)
(* Removal of local copies above the quota.                                *)
(***************************************************************************)

cleanSame == UNCHANGED <<scenario, entity, doc, epub, ready, pointer, pub, rep, objectCursor, skipped>>

(* list_gc_candidates and collect_local_candidates *)
Reclaimable(d, a) ==
    LET path == rows[d][a].path IN
    /\ path # "none" /\ a \in ready[d]
    /\ path = "install" /\ <<path, a>> \in files[d]
       => ~(kind = "knowledge_vectors" /\ doc[d] = a.src) /\ pointer[d] # a

(* run_gc: the candidates are read once, before anything is removed. *)
list_candidates(d) ==
    LET found == {[a |-> a, path |-> rows[d][a].path] : a \in {b \in Artifacts : Reclaimable(d, b)}} IN
    /\ clean[d].pc = "idle" /\ found # {}
    /\ clean' = [clean EXCEPT ![d] = [pc |-> "remove", todo |-> found, at |-> None]]
    /\ cleanSame /\ UNCHANGED <<rows, files>> /\ storeSame

(* Files that are gone come first, then the outbox, then installations. *)
Turn(d, c) == IF <<c.path, c.a>> \notin files[d] THEN 0 ELSE IF c.path = "outbox" THEN 1 ELSE 2

remove_candidate(d) ==
    /\ clean[d].pc = "remove"
    /\ \E c \in clean[d].todo :
          /\ \A other \in clean[d].todo : Turn(d, c) <= Turn(d, other)
          /\ \/ /\ files' = [files EXCEPT ![d] = @ \ {<<c.path, c.a>>}]
                /\ clean' = [clean EXCEPT ![d].pc = "clear", ![d].at = c, ![d].todo = @ \ {c}]
             \/ UNCHANGED files /\ clean' = [clean EXCEPT ![d].todo = @ \ {c}]   \* not removed
    /\ cleanSame /\ UNCHANGED rows /\ storeSame

reconcile_record(d) ==
    LET c == clean[d].at IN
    /\ clean[d].pc = "clear"
    /\ rows' = clear_local_path(d, c.a, c.path)
    /\ clean' = [clean EXCEPT ![d].pc = "remove", ![d].at = None]
    /\ cleanSame /\ UNCHANGED files /\ storeSame

(* Nothing is left, or the directory fits into the quota. *)
finish_gc(d) ==
    /\ clean[d].pc = "remove" /\ clean' = [clean EXCEPT ![d] = IdleClean]
    /\ cleanSame /\ UNCHANGED <<rows, files>> /\ storeSame

(***************************************************************************)
(* The rest of the application.                                            *)
(***************************************************************************)

(* The document is imported again with other content. *)
import_version(d) ==
    /\ kind = "knowledge_vectors" /\ doc[d] # NoSource /\ doc[d].version < MaxVersion
    /\ doc' = [doc EXCEPT ![d] = [by |-> d, version |-> @.version + 1]]
    /\ UNCHANGED <<scenario, entity, epub, rows, ready, files, pointer, pub, rep, clean, objectCursor, skipped>> /\ storeSame

(* The collection or the book row arrives with the entity synchronisation. *)
entity_arrives(d) ==
    /\ ~entity[d] /\ entity' = [entity EXCEPT ![d] = TRUE]
    /\ doc' = IF kind = "reading_epub" THEN [doc EXCEPT ![d] = Book] ELSE doc
    /\ UNCHANGED <<scenario, epub, rows, ready, files, pointer, pub, rep, clean, objectCursor, skipped>> /\ storeSame

crash(d) ==
    /\ pub' = [pub EXCEPT ![d] = IdlePub] /\ rep' = [rep EXCEPT ![d] = IdleRep]
    /\ clean' = [clean EXCEPT ![d] = IdleClean]
    /\ UNCHANGED <<scenario, entity, doc, epub, rows, ready, files, pointer, objectCursor, skipped>> /\ storeSame

ObjectsNext ==
    \/ StoreNext /\ UNCHANGED deviceVars
    \/ \E d \in scenario.publish :
          \/ prepare_publication(d) \/ record_built(d) \/ begin_upload(d) \/ upload_chunk(d)
          \/ complete_upload(d) \/ await_completion(d) \/ abort_upload(d) \/ stat_object(d)
          \/ record_published(d) \/ report_installed_object(d)
    \/ \E d \in scenario.edit : import_version(d)
    \/ \E d \in scenario.replicate :
          \/ list_object_changes(d) \/ replicate_change(d) \/ replication_fails(d)
          \/ download_artifact(d) \/ install_artifact(d) \/ import_artifact(d)
          \/ record_installed(d) \/ record_replica(d) \/ report_state(d) \/ advance_object_cursor(d)
    \/ \E d \in scenario.clean :
          list_candidates(d) \/ remove_candidate(d) \/ reconcile_record(d) \/ finish_gc(d)
    \/ \E d \in Devices : entity_arrives(d) \/ crash(d)

ObjectsSpec == ObjectsInit /\ [][ObjectsNext]_objectVars

(***************************************************************************)
(* Properties.                                                             *)
(***************************************************************************)

\* The state has its type.
ObjectsTypes ==
    /\ manifest.version \in 0 .. MaxVersion /\ manifest.artifact \in Artifacts \cup {None}
    /\ \A d \in Devices :
          /\ doc[d] \in Sources \cup {NoSource}
          /\ \A a \in Artifacts : rows[d][a].path \in {"none", "outbox", "install"}
          /\ ready[d] \subseteq {a \in Artifacts : rows[d][a].status # "none"}
          /\ files[d] \subseteq {"outbox", "install"} \X Artifacts
          /\ objectCursor[d] \in 0 .. Len(changes) /\ pointer[d] \in Artifacts \cup {None}

\* The manifest of the object names an artifact that can be downloaded: no
\* completion, abort, expiry or collection takes it away while it is current.
CurrentAvailable == manifest.version > 0 => Available(manifest.artifact)

\* A published version is never replaced by another artifact, and the object
\* never goes back to an older version, whatever completions overlap.
VersionStays ==
    /\ manifest'.version >= manifest.version
    /\ manifest.version > 0 /\ manifest'.version = manifest.version
       => manifest'.artifact = manifest.artifact

\* A publication can be tried again: an artifact that has a row, and was not
\* installed by the replication, has a ready replica or its ciphertext.
PublicationRetryable ==
    \A d \in Devices, a \in Artifacts :
        rows[d][a].status # "none" /\ rows[d][a].path # "install"
            => a \in ready[d] \/ (rows[d][a].path = "outbox" /\ <<"outbox", a>> \in files[d])

\* What a device recorded as a ready replica was in the store, at that version
\* or it has been superseded.
ReplicasAreReal ==
    \A d \in Devices : \A a \in ready[d] : replicas[a].status # "none"

\* The cursor passes a change only when an artifact of that version or a newer
\* one is installed, or the change was reported missing or incompatible.
CursorCovers ==
    \A d \in Devices : \A i \in 1 .. objectCursor[d] :
        \/ i \in skipped[d]
        \/ \E a \in Artifacts : a.src.version >= changes[i].version /\ rows[d][a].status = "installed"

\* An artifact from another device never takes a document back to an older version.
DocumentsForward ==
    \A d \in Devices : doc[d] # NoSource => doc'[d] # None /\ doc'[d].version >= doc[d].version

\* A device the gateway lists as having an artifact has it recorded as installed.
ReportsAreTrue ==
    \A d \in Devices :
        states[d].status = "installed" => rows[d][states[d].artifact].status = "installed"

\* A device publishes one artifact of a source, however often it tries.
OneArtifactPerSource ==
    \A a, b \in {c \in Artifacts : uploads[c].key > 0} :
        a.src = b.src /\ a.builder = b.builder => a = b

\* Store, devices and gateway agree on the artifacts, a publication can always
\* be tried again, and no cursor passes over an artifact.
ObjectsSafe ==
    /\ ObjectsTypes
    /\ CurrentAvailable /\ PublicationRetryable /\ ReplicasAreReal
    /\ ReportsAreTrue /\ OneArtifactPerSource /\ CursorCovers

\* A published version stays, and no document goes back to an older one.
ObjectsForward == [][VersionStays /\ DocumentsForward]_objectVars
=============================================================================
